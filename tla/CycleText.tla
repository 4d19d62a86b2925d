----------------------------- MODULE CycleText ------------------------------
(***************************************************************************)
(* What a cycle is told and what it leaves behind: the brief of its agent    *)
(* (objective/brief.rs) and the descriptions and comments it writes           *)
(* (objective/render.rs), from which the next brief reads the next step.  And   *)
(* the message about it (objective/report.rs).                             *)
(*                                                                         *)
(* A text is a sequence of lines, a line a kind and a value; the limits of    *)
(* characters are limits of lines here, and a cut falls between two.          *)
(***************************************************************************)
EXTENDS Integers, SequencesExt, FiniteSetsExt

CONSTANTS None, Blank,
          MAX_MARKDOWN, MAX_BODY,                         \* render.rs
          MAX_REPORT,                                     \* report.rs
          MAX_SECTION, MAX_DESCRIPTION, MAX_COMMENT, MAX_COMMENTS_PER_ITEM

Line(kind, value) == [kind |-> kind, value |-> value]
NextStepLine(step) == Line("next_step", step)
If(condition, lines) == IF condition THEN lines ELSE << >>

(* truncate_chars *)
Text(value, max) ==
    IF Len(value) <= max THEN value ELSE Append(SubSeq(value, 1, max), Line("truncated", Blank))

(***************************************************************************)
(* What a cycle writes.                                                    *)
(***************************************************************************)

(* The evidence that is cited and known, once each and in order. *)
CitedEvidence(proposal, evidence) ==
    LET cited == {id \in proposal.evidence_ids : id \in DOMAIN evidence}
    IN  FlattenSeq([i \in 1..Cardinality(cited) |-> evidence[SetToSortSeq(cited, <)[i]]])

Appendix(proposal, evidence) ==
    LET lines == CitedEvidence(proposal, evidence)
    IN  If(proposal.status = "NeedsDecision" /\ proposal.decision_needed # None,
           <<Line("decision", proposal.decision_needed)>>)
        \o If(proposal.status # "Resolved" /\ proposal.next_step \notin {None, Blank},
              <<NextStepLine(proposal.next_step)>>)
        \o If(lines # << >>, <<Line("heading", "Evidence")>> \o lines)

RenderNewItemBody(proposal, evidence, follows_up) ==
    Text(Text(proposal.description, MAX_MARKDOWN)
         \o If(follows_up # None, <<Line("follows_up", follows_up)>>)
         \o Appendix(proposal, evidence)
         \o <<Line("footer", "Opened by Reili")>>, MAX_BODY)

RenderProgressComment(proposal, evidence, closing) ==
    Text(Text(proposal.comment, MAX_MARKDOWN)
         \o Appendix(proposal, evidence)
         \o If(closing # "Continue", <<Line("closing", closing)>>)
         \o <<Line("footer", proposal.status)>>, MAX_BODY)

(* The last line that looks like one; a blank step hides an earlier one.      *)
RecordedNextStep(body) ==
    LET steps == {i \in DOMAIN body : body[i].kind = "next_step"}
    IN  IF steps = {} \/ body[Max(steps)].value = Blank THEN None ELSE body[Max(steps)].value

(***************************************************************************)
(* One item and its comments.                                              *)
(***************************************************************************)

LastOwn(comments) == Max({0} \cup {i \in DOMAIN comments : comments[i].by_reili})

IsTeamComment(comment) == ~comment.by_reili /\ comment.author_trusted

IsNewTeamComment(comments, i) == IsTeamComment(comments[i]) /\ i > LastOwn(comments)

(* queue_line: what the last cycle recorded is its comment, or the description *)
(* of an item it opened.                                                    *)
QueueLine(thread) ==
    LET comments == thread.comments
        record == IF LastOwn(comments) > 0 THEN comments[LastOwn(comments)].body
                  ELSE IF thread.item.created_by_reili THEN thread.item.body
                  ELSE None
    IN  [key |-> thread.item.key,
         state |-> CASE thread.item.needs_decision -> "waiting"
                     [] ~thread.item.needs_decision /\ record # None -> "in progress"
                     [] OTHER -> "not started",
         new_replies |-> Cardinality({i \in DOMAIN comments : IsNewTeamComment(comments, i)}),
         next_step |-> IF record = None THEN None ELSE RecordedNextStep(record)]

(* team_feedback_section: a comment, or None. *)
TeamFeedback(thread) ==
    LET feedback == {i \in DOMAIN thread.comments : IsTeamComment(thread.comments[i])}
    IN  IF feedback = {} THEN None
        ELSE [key |-> thread.item.key, index |-> Max(feedback),
              reply |-> Text(thread.comments[Max(feedback)].body, MAX_COMMENT)]

(* render_thread: the latest max_comments of the comments by Reili or by the  *)
(* team; of the others only their number is told.                           *)
RenderThread(thread, max_comments) ==
    LET comments == thread.comments
        Visible(i) == comments[i].by_reili \/ comments[i].author_trusted
        visible == SelectSeq([i \in DOMAIN comments |-> i], Visible)
        earlier == Max({0, Len(visible) - max_comments})
        Shown(i) == [index |-> i, new |-> IsNewTeamComment(comments, i),
                     body |-> Text(comments[i].body, MAX_COMMENT)]
    IN  [key |-> thread.item.key,
         description |-> Text(thread.item.body, MAX_DESCRIPTION),
         earlier |-> earlier,
         comments |-> [n \in 1..(Len(visible) - earlier) |-> Shown(visible[earlier + n])],
         omitted |-> Len(comments) - Len(visible)]

Lines(rendered) ==
    LET Count(number) == IF number > 0 THEN 1 ELSE 0
        OfComment(sum, comment) == sum + 1 + Len(comment.body)
    IN  1 + Len(rendered.description) + Count(rendered.earlier + Len(rendered.comments))
        + Count(rendered.earlier) + FoldLeft(OfComment, 0, rendered.comments)
        + Count(rendered.omitted)

RenderThreadWithin(thread, max) ==
    LET fitting == {n \in 0..MAX_COMMENTS_PER_ITEM : Lines(RenderThread(thread, n)) <= max}
    IN  IF fitting = {} THEN None ELSE RenderThread(thread, Max(fitting))

(***************************************************************************)
(* The brief.                                                              *)
(***************************************************************************)

(* Items are shown in full one after the other as long as they fit: the first *)
(* in any case, and none after one that does not.  cut: the section is         *)
(* too long for the brief, with the count of the items that are not shown.      *)
ThreadsSection(threads) ==
    LET Separator(shown) == IF shown = << >> THEN 0 ELSE 1
        Show(acc, thread) ==
            LET within == RenderThreadWithin(thread, MAX_SECTION - acc.lines - Separator(acc.shown))
                rendered == IF within = None /\ acc.shown = << >> THEN RenderThread(thread, 0) ELSE within
            IN  IF acc.full \/ rendered = None THEN [acc EXCEPT !.full = TRUE]
                ELSE [acc EXCEPT !.shown = Append(@, rendered),
                                 !.lines = @ + Separator(acc.shown) + Lines(rendered)]
        filled == FoldLeft(Show, [shown |-> << >>, lines |-> 0, full |-> FALSE], threads)
    IN  [shown |-> filled.shown,
         more |-> Len(threads) - Len(filled.shown),
         cut |-> filled.lines + (IF filled.full THEN 1 ELSE 0) > MAX_SECTION]

OthersSection(items) == {item \in items : item.state = "Open" /\ ~item.assigned}

ClosedSection(items) == {item \in items : item.state # "Open"}

(* build_brief: sections without an entry are left out, but for that of Reili's *)
(* own items.                                                               *)
BuildBrief(threads, items, memories, notes) ==
    [focus |-> notes,
     queue |-> [i \in DOMAIN threads |-> QueueLine(threads[i])],
     feedback |-> SelectSeq([i \in DOMAIN threads |-> TeamFeedback(threads[i])],
                            LAMBDA feedback : feedback # None),
     threads |-> ThreadsSection(threads),
     others |-> OthersSection(items),
     closed |-> ClosedSection(items),
     memories |-> memories]

(***************************************************************************)
(* The message about a cycle (objective/report.rs).                         *)
(***************************************************************************)

(* link, of an activity as a sequence of the items that were opened and those  *)
(* updated: the first that is called so, by its key in the tracker or that of  *)
(* the report.                                                             *)
Link(reference, activity) ==
    LET named == {i \in DOMAIN activity : reference \in {<<activity[i].record>>, <<activity[i].key>>}}
    IN  IF named = {} THEN reference ELSE <<Line("link", activity[Min(named)].record)>>

(* link_items, of a message as words and brackets: what an open bracket has    *)
(* taken in stays as it is when none closes it.                              *)
LinkItems(message, activity) ==
    LET Step(acc, word) ==
            CASE word = "[[" /\ acc.open = None -> [acc EXCEPT !.open = << >>]
              [] word = "]]" /\ acc.open # None ->
                    [text |-> acc.text \o Link(acc.open, activity), open |-> None]
              [] OTHER -> IF acc.open = None THEN [acc EXCEPT !.text = Append(@, word)]
                          ELSE [acc EXCEPT !.open = Append(@, word)]
        linked == FoldLeft(Step, [text |-> << >>, open |-> None], message)
    IN  linked.text \o (IF linked.open = None THEN << >> ELSE <<"[[">> \o linked.open)

ComposeReport(message, activity) ==
    IF message \in {None, << >>} THEN None
    ELSE Text(LinkItems(message, activity), MAX_REPORT)
=============================================================================
