-------------------------- MODULE MCObjectiveCycle --------------------------
(***************************************************************************)
(* ObjectiveCycle for TLC: symmetry of the interchangeable cycle tasks and *)
(* items, for the runs that check no liveness.  And Schedule, whose slots    *)
(* are what "due" stands for there, against reference definitions: four days *)
(* of three hours of two minutes of two seconds, in three zones.  And         *)
(* CycleText, what a cycle is told and leaves behind, and GitHubIssues, the    *)
(* requests behind the tracker.                                            *)
(***************************************************************************)
EXTENDS ObjectiveCycle, TLC, Integers, SequencesExt, FiniteSetsExt

CycleSymmetry == Permutations(Cycle) \cup Permutations(Item)

S == INSTANCE Schedule WITH
       HoursPerDay <- 3, MinutesPerHour <- 2, SecondsPerMinute <- 2,
       Day <- 0..3,
       Month <- [d \in 0..3 |-> IF d < 2 THEN 1 ELSE 2],
       DayOfMonth <- [d \in 0..3 |-> 1 + (d % 2)],
       Weekday <- [d \in 0..3 |-> d % 3],
       MaxDayOfMonth <- 3, MaxMonth <- 2, MaxWeekday <- 2,
       WEEKDAY_NAMES <- [n \in {"sun", "mon"} |-> IF n = "sun" THEN 0 ELSE 1],
       MONTH_NAMES <- [n \in {"jan"} |-> 1],
       SEARCH_HORIZON_DAYS <- 5

(* Instants 2..41 are local times of days 0 to 3: without a change, with an   *)
(* hour skipped in the second day, and with one that comes twice.           *)
Instant == 2..41
Zones == {[t \in Instant |-> 4],
          [t \in Instant |-> IF t < 14 THEN 2 ELSE 6],
          [t \in Instant |-> IF t < 14 THEN 6 ELSE 2]}

Part(range, step) == [range |-> range, step |-> step]
Number(n) == <<"number", n>>
Values == {Number(n) : n \in 0..3} \cup {<<"name", "mon">>, <<"name", "moon">>}
Ranges == {<< >>} \cup {<<v>> : v \in Values} \cup {<<v, w>> : v \in Values, w \in Values}
Parts == {Part(range, step) : range \in Ranges, step \in {None} \cup 0..2}
Schedules ==
    {S!ParseSchedule(<<minute, hour, dom, S!Any, dow>>) :
        minute \in {S!Any, S!Only(1)}, hour \in {S!Only(0), <<Part(<<Number(1)>>, 1)>>},
        dom \in {S!Any, S!Only(2)}, dow \in {S!Any, S!Only(1), S!Only(3)}}
    \cup {S!ParseSchedule(<<S!Any, S!Any, S!Only(3), S!Any, S!Any>>),
          S!ParseSchedule(<<S!Any, S!Any, S!Any, S!Only(2), S!Any>>)}

(* When a schedule fires: the first occurrence of each of its local times.   *)
LocalOf(zone, t) == t + zone[t]
Fires(schedule, zone) ==
    {t \in Instant :
        LET local == LocalOf(zone, t)
            date == local \div 12
        IN  /\ date \in 0..3
            /\ local % 2 = 0
            /\ (local \div 2) % 2 \in schedule.minutes.allowed
            /\ (local % 12) \div 4 \in schedule.hours.allowed
            /\ S!DayMatches(schedule, date)
            /\ \A u \in Instant : u < t => LocalOf(zone, u) # local}

(* A field allows the values that one of its parts names, or is refused.      *)
ASSUME FieldsAreParsed ==
    \A part \in Parts :
        LET names == [n \in {"mon"} |-> 1]
            values == [v \in Values |-> IF v[1] = "number" THEN v[2]
                                        ELSE IF v[2] = "mon" THEN 1 ELSE None]
            low == IF part.range = << >> THEN 1 ELSE values[part.range[1]]
            high == CASE part.range = << >> -> 3
                      [] Len(part.range) = 2 -> values[part.range[2]]
                      [] Len(part.range) = 1 -> IF part.step = None THEN low ELSE 3
            field == S!ParseField(<<part>>, 1, 3, names)
        IN  IF low = None \/ high = None THEN field = None
            ELSE IF part.step = 0 \/ low < 1 \/ low > high THEN field = None
            ELSE field.allowed = {v \in low..high :
                    \E k \in 0..3 : v = low + k * (IF part.step = None THEN 1 ELSE part.step)}

(* next_after finds the first time that a schedule fires after an instant,   *)
(* and latest_at_or_before the last, in every zone.                         *)
ASSUME SearchesFindTheSlots ==
    \A schedule \in Schedules, zone \in Zones :
        LET fires == Fires(schedule, zone)
        IN  \A t \in Instant :
              LET later == {f \in fires : f > t}
                  next == S!NextAfter(schedule, zone, t)
              IN  IF later = {} THEN next = None
                  ELSE next \in later /\ \A f \in later : next <= f

(* As long as the clock does not step back, ticks run every slot: a window    *)
(* between two ticks has a due slot exactly when a schedule fires in it, and  *)
(* that is the last.  A clock that steps back runs a slot again.             *)
ASSUME TicksFindWhatIsDue ==
    \A schedule \in Schedules, zone \in Zones :
        LET fires == Fires(schedule, zone)
        IN  \A since \in {t \in Instant : t % 5 = 2}, now \in {t \in Instant : t % 7 = 2} :
              LET window == {f \in fires : since < f /\ f <= now}
                  slot == S!DueSlot(TRUE, schedule, zone, since, now)
              IN  IF window = {} THEN slot = None
                  ELSE slot \in window /\ \A f \in window : f <= slot
ASSUME ClockThatStepsBackRepeats ==
    \E schedule \in Schedules, zone \in Zones :
        /\ S!DueSlot(TRUE, schedule, zone, 10, 20) # None
        /\ S!DueSlot(TRUE, schedule, zone, 20, 10) = None
        /\ S!DueSlot(TRUE, schedule, zone, 10, 20) = S!DueSlot(TRUE, schedule, zone, 10, 22)

B == INSTANCE CycleText WITH Blank <- "blank", MAX_MARKDOWN <- 2, MAX_BODY <- 6, MAX_REPORT <- 9, MAX_SECTION <- 9,
                             MAX_DESCRIPTION <- 1, MAX_COMMENT <- 2, MAX_COMMENTS_PER_ITEM <- 2

TextLine(value) == B!Line("text", value)
Own == [by_reili |-> TRUE, author_trusted |-> TRUE, body |-> <<B!NextStepLine("own")>>]
Team(lines) == [by_reili |-> FALSE, author_trusted |-> TRUE, body |-> [n \in 1..lines |-> B!NextStepLine("team")]]
Outsider == [by_reili |-> FALSE, author_trusted |-> FALSE, body |-> <<B!NextStepLine("outsider")>>]
MCItem == [key |-> "key", needs_decision |-> FALSE, created_by_reili |-> TRUE,
           body |-> <<TextLine("description"), B!NextStepLine("first")>>]
Threads == {[item |-> MCItem, comments |-> comments] :
              comments \in UNION {[1..n -> {Own, Team(1), Team(4), Outsider}] : n \in 0..3}}
FewThreads == {thread \in Threads : Len(thread.comments) \in {0, 3}}

(* An answer of the team that the agent has not seen is told whatever is left   *)
(* out for want of room: the queue counts it, and the latest has a section.      *)
ASSUME NewRepliesAreTold ==
    \A one \in FewThreads, two \in Threads :
        LET brief == B!BuildBrief(<<one, two>>, {}, {}, << >>)
            last == Len(two.comments)
        IN  last > 0 /\ B!IsTeamComment(two.comments[last]) =>
              /\ brief.queue[2].new_replies > 0
              /\ \E f \in DOMAIN brief.feedback :
                    brief.feedback[f].index = last /\ brief.feedback[f].reply # << >>

(* What someone outside the team writes never reaches the agent. *)
ASSUME OutsidersAreNotQuoted ==
    \A one \in Threads :
        LET brief == B!BuildBrief(<<one>>, {}, {}, << >>)
            Quotes(body) == \E n \in DOMAIN body : body[n].value = "outsider"
            shown == brief.threads.shown[1]
        IN  /\ \A c \in DOMAIN shown.comments : ~Quotes(shown.comments[c].body)
            /\ \A f \in DOMAIN brief.feedback : ~Quotes(brief.feedback[f].reply)
            /\ Cardinality({i \in DOMAIN one.comments : one.comments[i] = Outsider}) = shown.omitted
            /\ shown.omitted + shown.earlier + Len(shown.comments) = Len(one.comments)

(* The first item is shown in any case, and the section is too long for the    *)
(* brief only for it or for the line that counts the items left out: then it is  *)
(* this line that is lost.                                                  *)
ASSUME FirstItemIsShown ==
    \A one \in FewThreads, two \in FewThreads :
        LET section == B!ThreadsSection(<<one, two>>)
        IN  /\ section.shown # << >>
            /\ Len(section.shown) = 2 => ~section.cut
            /\ section.cut => section.more > 0
ASSUME CountOfOthersIsLost ==
    \E one \in FewThreads : /\ B!Lines(B!ThreadsSection(<<one, one>>).shown[1]) <= 9
                            /\ B!ThreadsSection(<<one, one>>).cut

Proposals == [status : Status, next_step : {None, "blank", "step"}, decision_needed : {None, "question"},
              evidence_ids : SUBSET {1, 2}, description : {<< >>},
              comment : {<< >>, <<B!NextStepLine("old"), TextLine("a"), TextLine("b")>>}]
OneLine == [id \in {1} |-> <<TextLine("evidence")>>]

(* The next cycle reads the step that this one recorded, however long the rest  *)
(* of the comment: no cut reaches it.  Where it recorded none, a line of the     *)
(* agent's own text is taken for one.                                       *)
ASSUME NextStepIsReadBack ==
    \A proposal \in Proposals, closing \in {"Continue", "Closing"} :
        LET read == B!RecordedNextStep(B!RenderProgressComment(proposal, OneLine, closing))
        IN  IF proposal.status # "Resolved" /\ proposal.next_step = "step" THEN read = "step"
            ELSE read = IF proposal.comment = << >> THEN None ELSE "old"

(* So it is with a line of the evidence, which comes after the step.          *)
ASSUME EvidenceReadAsNextStep ==
    \E proposal \in Proposals :
        /\ proposal.next_step = "step"
        /\ B!RecordedNextStep(B!RenderProgressComment(proposal,
               [id \in {1} |-> <<TextLine("evidence"), B!NextStepLine("quoted")>>], "Continue")) = "quoted"

(* The queue tells the last step that Reili recorded: never one of the team.    *)
ASSUME QueueTellsOwnSteps ==
    \A one \in Threads :
        B!QueueLine(one).next_step = IF \E i \in DOMAIN one.comments : one.comments[i] = Own
                                     THEN "own" ELSE "first"

Messages == SeqOf({"[[", "]]", "new", "#1"}, 4)
Activity == <<[key |-> "new", record |-> "#2"], [key |-> "#1", record |-> "#1"]>>

(* A reference to an item becomes its link, by either of its keys; nothing else  *)
(* of a message is touched, brackets that do not match among it.              *)
ASSUME ReferencesAreLinked ==
    \A message \in Messages :
        LET report == B!ComposeReport(message, Activity)
            IsReference(i) == i + 2 \in DOMAIN message /\ message[i] = "[[" /\ message[i + 2] = "]]"
                              /\ message[i + 1] \in {"new", "#1"}
        IN  /\ message = << >> <=> report = None
            /\ "[[" \notin Range(message) \/ "]]" \notin Range(message) =>
                  (message # << >> => report = message)
            /\ \A i \in DOMAIN message :
                  IsReference(i) /\ "[[" \notin Range(SubSeq(message, 1, i - 1)) =>
                     report = SubSeq(message, 1, i - 1)
                              \o <<B!Line("link", IF message[i + 1] = "new" THEN "#2" ELSE "#1")>>
                              \o SubSeq(message, i + 3, Len(message))

G == INSTANCE GitHubIssues WITH PER_PAGE <- 2, MAX_PAGES <- 2, AppId <- 7, Prefix <- "ours"

Api(number, tracked) ==
    [number |-> number, state |-> IF tracked.state = "Open" THEN "open" ELSE "closed",
     state_reason |-> IF tracked.state = "NotPlanned" THEN "not_planned" ELSE None,
     labels |-> {G!ObjectiveLabel(o) : o \in tracked.objectives}
                \cup (IF tracked.assigned THEN {<<G!ASSIGNEE_LABEL>>} ELSE {})
                \cup (IF tracked.needs_decision THEN {<<G!NEEDS_DECISION_LABEL>>} ELSE {}),
     app |-> IF tracked.created_by_reili THEN 7 ELSE None,
     pull_request |-> FALSE, closed_at |-> IF tracked.state = "Open" THEN None ELSE 1]
Tracked == {tracked \in Issue : tracked.state # "absent"}
OpenApi(number) == Api(number, [state |-> "Open", objectives |-> {}, assigned |-> TRUE,
                                needs_decision |-> FALSE, created_by_reili |-> TRUE])
ClosedApi(number) == [OpenApi(number) EXCEPT !.state = "closed", !.closed_at = 1]
OpenList(numbers) == [i \in 1..Cardinality(numbers) |-> OpenApi(SetToSortSeq(numbers, <)[i])]
Numbers(listed) == {listed[i].number : i \in DOMAIN listed}

(* What the adapter reads off an issue is what WorkTracker says of it, and the   *)
(* labels of an issue that Reili opens are those of NewWorkItem.             *)
ASSUME IssuesReadAsTracked ==
    /\ \A tracked \in Tracked :
          /\ G!ToWorkItem(Api(1, tracked)) = [field \in DOMAIN G!ToWorkItem(Api(1, tracked)) |-> tracked[field]]
          /\ G!HasObjectiveLabel(Api(1, tracked)) <=> tracked.objectives # {}
    /\ \A o \in Objective, needs \in BOOLEAN :
          ToSet(G!NewLabels(o, needs)) = Api(1, NewWorkItem(o, needs)).labels

(* A tracker that stands still is listed whole, but for what is beyond the last  *)
(* page: the newest issues, and the newest comments of a long discussion.      *)
ASSUME StillTrackerIsListed ==
    \A n \in 0..6 : Numbers(G!ListIssues([page \in 1..2 |-> OpenList(1..n)])) = 1..(IF n < 4 THEN n ELSE 4)

(* In one that moves, a listing may miss an issue that was open all the time:    *)
(* another was closed after its page had been read.  It makes up none.         *)
ASSUME MovingTrackerIsNotListed ==
    /\ \E first \in SUBSET (1..4), second \in SUBSET (1..4) :
          ~(first \cap second \subseteq Numbers(G!ListIssues(<<OpenList(first), OpenList(second)>>)))
    /\ \A first \in SUBSET (1..4), second \in SUBSET (1..4) :
          Numbers(G!ListIssues(<<OpenList(first), OpenList(second)>>)) \subseteq first \cup second

(* An item is listed once; one that is closed between the two listings is still  *)
(* taken for open, one that is reopened between them is missed.               *)
ASSUME ItemsAreListedOnce ==
    \A first \in SUBSET (1..3), second \in SUBSET (1..3) :
        LET closed == [i \in 1..Cardinality((1..3) \ second) |-> ClosedApi(SetToSortSeq((1..3) \ second, <)[i])]
            items == G!ListWorkItems(OpenList(first), closed, 1)
        IN  /\ Cardinality({item.number : item \in items}) = Cardinality(items)
            /\ {item.number : item \in items} = first \cup ((1..3) \ second)
            /\ \A item \in items : item.item.state = "Open" <=> item.number \in first

(* Trying again makes only the labels that are still missing.                *)
Answers == [token : {"ok", "connection_failed"}, received : {TRUE}, rate_limited : BOOLEAN, readable : BOOLEAN,
            status : {201, 403, 422, 500}]
ASSUME LabelsAreMadeOnce ==
    \A first \in [1..2 -> Answers], second \in [1..2 -> {answer \in Answers : G!Failure(answer) = None}] :
        LET tried == G!EnsureLabels({}, <<1, 2>>, first)
            again == G!EnsureLabels(tried.known, <<1, 2>>, second)
        IN  /\ again.known = {1, 2} /\ again.requested \cap tried.known = {}
            /\ tried.failure # None => tried.known # {1, 2}

(* A request is worth a retry when GitHub cannot be reached or says that it may   *)
(* be later; a label that exists and one that is gone are no failures.         *)
ASSUME FailuresAreTold ==
    \A answer \in Answers :
        /\ G!LabelFailure(answer) \in {None, G!Failure(answer)}
        /\ answer.token = "ok" =>
             /\ G!Failure(answer) = "Forbidden" <=> (answer.status = 403 /\ ~answer.rate_limited)
             /\ answer.status = 422 => G!LabelFailure(answer) = None /\ G!RemovalFailure(answer) # None
        /\ answer.token = "connection_failed" => G!LabelFailure(answer) = "Unavailable"

(* No record of another repository is touched, nor one that tells two numbers;   *)
(* a bot's comment is never the team's, whatever its association.             *)
ASSUME ForeignRecordsAreRefused ==
    \A number \in {None, 1, 2}, prefix \in {"ours", "theirs"}, url \in 1..2 :
        G!Guard([number |-> number, url |-> [prefix |-> prefix, number |-> url]])
          = IF prefix = "ours" /\ number = url THEN number ELSE None
ASSUME BotsAreNotTrusted ==
    \A app \in {None, 7, 8}, association \in {"MEMBER", "NONE"}, kind \in {"Bot", "User"} :
        LET comment == G!Comment([app |-> app, kind |-> kind, association |-> association])
        IN  comment.author_trusted => comment.by_reili \/ (kind = "User" /\ association = "MEMBER")
=============================================================================
