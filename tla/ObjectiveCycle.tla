-------------------------- MODULE ObjectiveCycle ---------------------------
(***************************************************************************)
(* Autonomous objectives: the scheduler of application/src/objective/      *)
(* scheduler.rs, the cycles it starts (objective/cycle/), and the tracker  *)
(* they share with the team.                                               *)
(*                                                                         *)
(* A cycle observes the items of its objective in several requests, lets   *)
(* the agent work for up to max_cycle_duration, and writes what the agent  *)
(* reported, one request at a time, from what it observed before.  The     *)
(* agent is any sequence of report submissions, and may never return.      *)
(*                                                                         *)
(* Time is abstracted to what is compared with it: "due" holds the         *)
(* objectives with a scheduled time in (last_checked, now].                *)
(***************************************************************************)
EXTENDS WorkTracker

CONSTANTS
  Default,            \* the objective that takes unlinked work
  Cycle,              \* the spawned cycle tasks; a finished one is used again
  MaxNewWorkItems,    \* max_new_work_items_per_cycle of the budget
  None,               \* no objective, no item, no report
  TrackerMayFail      \* may a request fail, or its answer be lost?

ASSUME CycleAssumption ==
  /\ Default \in Objective \cup {None}
  /\ MaxNewWorkItems \in Nat
  /\ None \notin Objective \cup Item \cup Cycle
  /\ TrackerMayFail \in BOOLEAN

VARIABLES
  is_up,       \* is there a process?
  shutdown,    \* the TaskCancellation that stop() cancels
  due,         \* objectives with a scheduled time since the last tick
  ticking,     \* due objectives the current tick has yet to look at
  running,     \* the running marks
  cycle_pc,    \* where each cycle is
  objective,   \* the objective each cycle is for
  unlinked,    \* items take_unlinked_work has yet to link
  observed,    \* the items a cycle observed, as they were then
  submitted,   \* the report slot
  change,      \* the change planned from the report
  outcome,     \* how each cycle ended
  disturbed    \* auxiliary: items others changed since the cycle listed them

schedulerVars == <<is_up, shutdown, due, ticking, running>>
trackerVars == <<issue, edits>>
cycleVars == <<cycle_pc, objective, unlinked, observed, submitted, change,
               outcome, disturbed>>
objectiveVars == <<schedulerVars, trackerVars, cycleVars>>

Status == {"InProgress", "NeedsDecision", "Resolved"}

(* existing_record names an item, or nothing; a report has one proposal at
   most (MAX_WORK_ITEMS_PER_CYCLE, enforced when it is submitted). *)
Proposal == [existing_record : Item \cup {None}, status : Status]

Report == {{}} \cup {{p} : p \in Proposal}

Change == [kind : {"update", "create", "skip"}, item : Item \cup {None},
           status : Status, relabel : BOOLEAN, closing : BOOLEAN]

NoChange == [kind |-> "skip", item |-> None, status |-> "InProgress",
             relabel |-> FALSE, closing |-> FALSE]

Listing == {"listUnlinked", "linking", "listOpen", "listClosed"}

Writing == {"creating", "commenting", "relabelling", "closing"}

Working == {"working", "timedOut", "shuttingDown"}

CyclePlaces == {"none", "ended", "notifying"} \cup Listing \cup Working \cup Writing

Outcomes == {"none", "Reported", "Ended", "Cancelled", "Error", "Panicked"}

CycleTypeOK ==
  /\ TrackerTypeOK
  /\ is_up \in BOOLEAN
  /\ shutdown \in BOOLEAN
  /\ due \in SUBSET Objective
  /\ ticking \in SUBSET Objective
  /\ running \in SUBSET Objective
  /\ cycle_pc \in [Cycle -> CyclePlaces]
  /\ objective \in [Cycle -> Objective \cup {None}]
  /\ unlinked \in [Cycle -> SUBSET Item]
  /\ observed \in [Cycle -> [Item -> WorkItems \cup {None}]]
  /\ submitted \in [Cycle -> Report \cup {None}]
  /\ change \in [Cycle -> Change]
  /\ outcome \in [Cycle -> Outcomes]
  /\ disturbed \in [Cycle -> SUBSET Item]

Nothing == [i \in Item |-> None]

ObjectiveInit ==
  /\ TrackerInit
  /\ is_up = FALSE
  /\ shutdown = FALSE
  /\ due = {} /\ ticking = {} /\ running = {}
  /\ cycle_pc = [k \in Cycle |-> "none"]
  /\ objective = [k \in Cycle |-> None]
  /\ unlinked = [k \in Cycle |-> {}]
  /\ observed = [k \in Cycle |-> Nothing]
  /\ submitted = [k \in Cycle |-> None]
  /\ change = [k \in Cycle |-> NoChange]
  /\ outcome = [k \in Cycle |-> "none"]
  /\ disturbed = [k \in Cycle |-> {}]
-----------------------------------------------------------------------------
(***************************************************************************)
(* The process.  start() sets last_checked to the current time, so what    *)
(* was due before is not caught up.  stop() cancels the shutdown token and *)
(* main returns; then, or in a crash, every cycle is gone where it is.     *)
(***************************************************************************)
Start ==
  /\ ~is_up
  /\ is_up' = TRUE
  /\ UNCHANGED <<shutdown, due, ticking, running, trackerVars, cycleVars>>

Stop ==
  /\ is_up /\ ~shutdown
  /\ shutdown' = TRUE
  /\ UNCHANGED <<is_up, due, ticking, running, trackerVars, cycleVars>>

Exit ==
  /\ is_up
  /\ is_up' = FALSE
  /\ shutdown' = FALSE
  /\ due' = {} /\ ticking' = {} /\ running' = {}
  /\ cycle_pc' = [k \in Cycle |-> "none"]
  /\ objective' = [k \in Cycle |-> None]
  /\ unlinked' = [k \in Cycle |-> {}]
  /\ observed' = [k \in Cycle |-> Nothing]
  /\ submitted' = [k \in Cycle |-> None]
  /\ change' = [k \in Cycle |-> NoChange]
  /\ outcome' = [k \in Cycle |-> "none"]
  /\ disturbed' = [k \in Cycle |-> {}]
  /\ UNCHANGED trackerVars
-----------------------------------------------------------------------------
(* The clock passes a scheduled time of o; several missed ones are one. *)
SlotPasses(o) ==
  /\ is_up
  /\ o \notin due
  /\ due' = due \cup {o}
  /\ UNCHANGED <<is_up, shutdown, ticking, running, trackerVars, cycleVars>>

(* last_checked is moved to now, and the objectives are looked at in turn. *)
Tick ==
  /\ is_up /\ ~shutdown
  /\ ticking = {} /\ due # {}
  /\ ticking' = due
  /\ due' = {}
  /\ UNCHANGED <<is_up, shutdown, running, trackerVars, cycleVars>>

(* Mutant: the cycle is spawned without asking for the mark. *)
StartCycleUnmarked(o, k) ==
  /\ o \in ticking
  /\ cycle_pc[k] = "none"
  /\ ticking' = ticking \ {o}
  /\ running' = running \cup {o}
  /\ objective' = [objective EXCEPT ![k] = o]
  /\ cycle_pc' = [cycle_pc EXCEPT ![k] =
                    IF o = Default THEN "listUnlinked" ELSE "listOpen"]
  /\ UNCHANGED <<is_up, shutdown, due, trackerVars, unlinked, observed,
                 submitted, change, outcome, disturbed>>

(* mark_running succeeds, and the cycle is spawned. *)
StartCycle(o, k) ==
  /\ o \in ticking \ running
  /\ cycle_pc[k] = "none"
  /\ ticking' = ticking \ {o}
  /\ running' = running \cup {o}
  /\ objective' = [objective EXCEPT ![k] = o]
  /\ cycle_pc' = [cycle_pc EXCEPT ![k] =
                    IF o = Default THEN "listUnlinked" ELSE "listOpen"]
  /\ UNCHANGED <<is_up, shutdown, due, trackerVars, unlinked, observed,
                 submitted, change, outcome, disturbed>>

(* Mutant: a running objective ends the tick for the ones after it. *)
SkipCycleEndsTick(o) ==
  /\ o \in ticking \cap running
  /\ ticking' = {}
  /\ UNCHANGED <<is_up, shutdown, due, running, trackerVars, cycleVars>>

(* "the previous cycle is still running": the slot is skipped. *)
SkipCycle(o) ==
  /\ o \in ticking \cap running
  /\ ticking' = ticking \ {o}
  /\ UNCHANGED <<is_up, shutdown, due, running, trackerVars, cycleVars>>

(* Mutant: the mark is released by hand, which a panic skips. *)
ReleaseMarkUnlessPanicked(k) ==
  /\ cycle_pc[k] = "ended"
  /\ running' = IF outcome[k] = "Panicked" THEN running
                ELSE running \ {objective[k]}
  /\ cycle_pc' = [cycle_pc EXCEPT ![k] = "none"]
  /\ objective' = [objective EXCEPT ![k] = None]
  /\ outcome' = [outcome EXCEPT ![k] = "none"]
  /\ UNCHANGED <<is_up, shutdown, due, ticking, trackerVars, unlinked,
                 observed, submitted, change, disturbed>>

(* The cycle task is over, and its RunningGuard is dropped. *)
ReleaseMark(k) ==
  /\ cycle_pc[k] = "ended"
  /\ running' = running \ {objective[k]}
  /\ cycle_pc' = [cycle_pc EXCEPT ![k] = "none"]
  /\ objective' = [objective EXCEPT ![k] = None]
  /\ outcome' = [outcome EXCEPT ![k] = "none"]
  /\ UNCHANGED <<is_up, shutdown, due, ticking, trackerVars, unlinked,
                 observed, submitted, change, disturbed>>
-----------------------------------------------------------------------------
Goto(k, from, to) ==
  /\ cycle_pc[k] = from
  /\ cycle_pc' = [cycle_pc EXCEPT ![k] = to]

(* Everything a cycle holds is dropped, but its outcome. *)
DropCycle(k, how) ==
  /\ cycle_pc' = [cycle_pc EXCEPT ![k] = "ended"]
  /\ outcome' = [outcome EXCEPT ![k] = how]
  /\ unlinked' = [unlinked EXCEPT ![k] = {}]
  /\ observed' = [observed EXCEPT ![k] = Nothing]
  /\ submitted' = [submitted EXCEPT ![k] = None]
  /\ change' = [change EXCEPT ![k] = NoChange]
  /\ UNCHANGED objective

EndCycle(k, how) ==
  /\ DropCycle(k, how)
  /\ disturbed' = [disturbed EXCEPT ![k] = {}]

(* A request fails: the error ends the cycle. *)
RequestFails(k, from) ==
  /\ TrackerMayFail
  /\ cycle_pc[k] = from
  /\ EndCycle(k, "Error")

(* Issue i becomes "written"; whoever else listed it did so before. *)
Disturb(k, i) ==
  [c \in Cycle |-> IF c = k \/ cycle_pc[c] \in {"none", "ended"}
                     THEN disturbed[c] ELSE disturbed[c] \cup {i}]

WriteIssue(k, i, written) ==
  /\ issue' = [issue EXCEPT ![i] = written]
  /\ disturbed' = Disturb(k, i)

(* Of a request that fails it is not known whether it was done. *)
WriteFails(k, from, i, written) ==
  /\ TrackerMayFail
  /\ cycle_pc[k] = from
  /\ DropCycle(k, "Error")
  /\ \/ /\ issue' = [issue EXCEPT ![i] = written]
        /\ disturbed' = [Disturb(k, i) EXCEPT ![k] = {}]
     \/ /\ UNCHANGED issue
        /\ disturbed' = [disturbed EXCEPT ![k] = {}]
  /\ UNCHANGED <<schedulerVars, edits>>
-----------------------------------------------------------------------------
(* take_unlinked_work *)
ListUnlinked(k) ==
  /\ \/ /\ Goto(k, "listUnlinked", "linking")
        /\ unlinked' = [unlinked EXCEPT ![k] = UnlinkedReiliWork]
        /\ disturbed' = [disturbed EXCEPT ![k] = {}]
        /\ UNCHANGED <<objective, observed, submitted, change, outcome>>
     \/ RequestFails(k, "listUnlinked")
  /\ UNCHANGED <<schedulerVars, trackerVars>>

LinkOne(k, i) ==
  LET linked == LinkedTo(i, objective[k]) IN
  /\ cycle_pc[k] = "linking" /\ i \in unlinked[k]
  /\ \/ /\ unlinked' = [unlinked EXCEPT ![k] = @ \ {i}]
        /\ WriteIssue(k, i, linked)
        /\ UNCHANGED <<schedulerVars, edits, cycle_pc, objective, observed,
                       submitted, change, outcome>>
     \/ WriteFails(k, "linking", i, linked)

LinkedAll(k) ==
  /\ unlinked[k] = {}
  /\ Goto(k, "linking", "listOpen")
  /\ UNCHANGED <<schedulerVars, trackerVars, objective, unlinked, observed,
                 submitted, change, outcome, disturbed>>

(* observe: list_work_items asks for the open items, and then for the closed
   ones; an item that is in both listings keeps its first reading.  The items
   closed more than 30 days ago are left out: any of them may be. *)
ListOpen(k) ==
  /\ \/ /\ Goto(k, "listOpen", "listClosed")
        /\ observed' = [observed EXCEPT ![k] =
             [i \in Item |-> IF i \in OpenItems(objective[k])
                               THEN WorkItem(i) ELSE None]]
        /\ disturbed' = [disturbed EXCEPT ![k] = {}]
        /\ UNCHANGED <<objective, unlinked, submitted, change, outcome>>
     \/ RequestFails(k, "listOpen")
  /\ UNCHANGED <<schedulerVars, trackerVars>>

(* The comments of its items, and the memories, are only read, for the brief. *)
ListClosed(k) ==
  /\ \/ /\ Goto(k, "listClosed", "working")
        /\ \E recent \in SUBSET ClosedItems(objective[k]) :
             observed' = [observed EXCEPT ![k] =
               [i \in Item |-> IF @[i] = None /\ i \in recent
                                 THEN WorkItem(i) ELSE @[i]]]
        /\ UNCHANGED <<objective, unlinked, submitted, change, outcome, disturbed>>
     \/ RequestFails(k, "listClosed")
  /\ UNCHANGED <<schedulerVars, trackerVars>>
-----------------------------------------------------------------------------
(* submit_cycle_report; a second report replaces the first. *)
SubmitReport(k) ==
  /\ cycle_pc[k] \in Working
  /\ \E report \in Report : submitted' = [submitted EXCEPT ![k] = report]
  /\ UNCHANGED <<schedulerVars, trackerVars, cycle_pc, objective, unlinked,
                 observed, change, outcome, disturbed>>

(***************************************************************************)
(* plan_change, for the one proposal p of a report: the items the cycle    *)
(* observed decide, not the tracker as it is by now.                       *)
(***************************************************************************)
Skips(items, p) ==
  LET i == p.existing_record IN
  IF i = None THEN p.status = "Resolved"
  ELSE \/ items[i] = None
       \/ items[i].state = "Open" /\ ~items[i].assigned
       \/ items[i].state = "NotPlanned"
       \/ items[i].state = "Done" /\ p.status = "Resolved"

(* Mutants: whoever opened it, a resolved item is closed; the label is put on,
   and never taken off. *)
UpdateClosesAny(items, p) ==
  LET i == p.existing_record IN
  [kind |-> "update", item |-> i, status |-> p.status,
   relabel |-> (p.status = "NeedsDecision") # items[i].needs_decision,
   closing |-> p.status = "Resolved"]

UpdateNeverUnlabels(items, p) ==
  LET i == p.existing_record IN
  [kind |-> "update", item |-> i, status |-> p.status,
   relabel |-> p.status = "NeedsDecision" /\ ~items[i].needs_decision,
   closing |-> p.status = "Resolved" /\ items[i].created_by_reili]

(* The update of an item that is open and Reili's. *)
Update(items, p) ==
  LET i == p.existing_record IN
  [kind |-> "update", item |-> i, status |-> p.status,
   relabel |-> (p.status = "NeedsDecision") # items[i].needs_decision,
   closing |-> p.status = "Resolved" /\ items[i].created_by_reili]

PlanChange(items, p) ==
  LET i == p.existing_record IN
  IF Skips(items, p) THEN NoChange
  ELSE IF i # None /\ IsReiliWork(items[i]) THEN Update(items, p)
  ELSE IF MaxNewWorkItems > 0
  THEN [NoChange EXCEPT !.kind = "create", !.status = p.status]
  ELSE NoChange

PlanChanges(items, report) ==
  IF report = {} THEN NoChange
  ELSE PlanChange(items, CHOOSE p \in report : TRUE)

FirstWrite(planned) ==
  CASE planned.kind = "update" -> "commenting"
    [] planned.kind = "create" -> "creating"
    [] planned.kind = "skip"   -> "notifying"

(* select! takes the result of the agent: a report is applied, even when the
   agent failed after it was submitted. *)
AgentFinishes(k) ==
  /\ cycle_pc[k] = "working"
  /\ \/ /\ submitted[k] # None
        /\ LET planned == PlanChanges(observed[k], submitted[k]) IN
             /\ change' = [change EXCEPT ![k] = planned]
             /\ Goto(k, "working", FirstWrite(planned))
        /\ observed' = [observed EXCEPT ![k] = Nothing]
        /\ submitted' = [submitted EXCEPT ![k] = None]
        /\ UNCHANGED <<objective, unlinked, outcome, disturbed>>
     \/ submitted[k] = None /\ EndCycle(k, "Ended")
  /\ UNCHANGED <<schedulerVars, trackerVars>>

(* max_cycle_duration passes, or the shutdown is seen: the run is cancelled,
   and what was observed is not used any more ... *)
CancelRun(k, why) ==
  /\ Goto(k, "working", why)
  /\ observed' = [observed EXCEPT ![k] = Nothing]
  /\ UNCHANGED <<schedulerVars, trackerVars, objective, unlinked, submitted,
                 change, outcome, disturbed>>

DeadlinePasses(k) == CancelRun(k, "timedOut")

ShutdownSeen(k) == shutdown /\ CancelRun(k, "shuttingDown")

(* Mutant: at the deadline the run is awaited for as long as it takes. *)
GraceUnbounded(k) ==
  /\ cycle_pc[k] = "shuttingDown"
  /\ EndCycle(k, "Cancelled")
  /\ UNCHANGED <<schedulerVars, trackerVars>>

(* ... and awaited for CANCEL_GRACE at most; what it returns is dropped. *)
GraceEnds(k) ==
  /\ \/ cycle_pc[k] = "timedOut" /\ EndCycle(k, "Ended")
     \/ cycle_pc[k] = "shuttingDown" /\ EndCycle(k, "Cancelled")
  /\ UNCHANGED <<schedulerVars, trackerVars>>
-----------------------------------------------------------------------------
(* continue_item: the progress comment, then the needs-decision label when it
   differs from what was observed, then the close of an item Reili opened. *)
AfterRelabel(planned) == IF planned.closing THEN "closing" ELSE "notifying"

AfterComment(planned) ==
  IF planned.relabel THEN "relabelling" ELSE AfterRelabel(planned)

KeepCycle ==
  UNCHANGED <<objective, unlinked, observed, submitted, change, outcome>>

AddComment(k) ==
  /\ \/ /\ Goto(k, "commenting", AfterComment(change[k]))
        /\ KeepCycle
        /\ UNCHANGED disturbed
     \/ RequestFails(k, "commenting")
  /\ UNCHANGED <<schedulerVars, trackerVars>>

SetNeedsDecision(k) ==
  LET i == change[k].item
      relabelled == WithNeedsDecision(i, change[k].status = "NeedsDecision")
  IN
  \/ /\ Goto(k, "relabelling", AfterRelabel(change[k]))
     /\ WriteIssue(k, i, relabelled)
     /\ KeepCycle
     /\ UNCHANGED <<schedulerVars, edits>>
  \/ WriteFails(k, "relabelling", i, relabelled)

CloseWorkItem(k) ==
  LET i == change[k].item IN
  \/ /\ Goto(k, "closing", "notifying")
     /\ WriteIssue(k, i, ClosedAsDone(i))
     /\ KeepCycle
     /\ UNCHANGED <<schedulerVars, edits>>
  \/ WriteFails(k, "closing", i, ClosedAsDone(i))

(* open_item.  With no issue left to open (the bound Item) the request fails. *)
CreateWorkItem(k) ==
  \/ \E i \in Item :
       LET created == NewWorkItem(objective[k], change[k].status = "NeedsDecision")
       IN
       /\ issue[i].state = "absent"
       /\ \/ /\ Goto(k, "creating", "notifying")
             /\ WriteIssue(k, i, created)
             /\ KeepCycle
             /\ UNCHANGED <<schedulerVars, edits>>
          \/ WriteFails(k, "creating", i, created)
  \/ /\ cycle_pc[k] = "creating"
     /\ \A i \in Item : issue[i].state # "absent"
     /\ EndCycle(k, "Error")
     /\ UNCHANGED <<schedulerVars, trackerVars>>

(* notify and learn: the message to Slack and the facts for the Canvas, whose
   failures are logged and change nothing. *)
Notify(k) ==
  /\ cycle_pc[k] = "notifying"
  /\ EndCycle(k, "Reported")
  /\ UNCHANGED <<schedulerVars, trackerVars>>

(* A cycle that panics is joined like one that ended. *)
Panics(k) ==
  /\ cycle_pc[k] \notin {"none", "ended"}
  /\ EndCycle(k, "Panicked")
  /\ UNCHANGED <<schedulerVars, trackerVars>>
-----------------------------------------------------------------------------
(* What a cycle does without waiting for its agent. *)
CycleProgress(k) ==
  \/ ListUnlinked(k) \/ (\E i \in Item : LinkOne(k, i)) \/ LinkedAll(k)
  \/ ListOpen(k) \/ ListClosed(k)
  \/ DeadlinePasses(k) \/ ShutdownSeen(k) \/ GraceEnds(k)
  \/ AddComment(k) \/ SetNeedsDecision(k) \/ CloseWorkItem(k)
  \/ CreateWorkItem(k) \/ Notify(k) \/ ReleaseMark(k)

CycleStep(k) == CycleProgress(k) \/ SubmitReport(k) \/ AgentFinishes(k) \/ Panics(k)

LookAt(o) == (\E k \in Cycle : StartCycle(o, k)) \/ SkipCycle(o)

TeamEdit(i) ==
  /\ TeamStep(i)
  /\ disturbed' = Disturb(None, i)
  /\ UNCHANGED <<schedulerVars, cycle_pc, objective, unlinked, observed,
                 submitted, change, outcome>>

ObjectiveNext ==
  \/ Start \/ Stop \/ Exit \/ Tick
  \/ \E o \in Objective : SlotPasses(o) \/ LookAt(o)
  \/ \E k \in Cycle : CycleStep(k)
  \/ \E i \in Item : TeamEdit(i)

ObjectiveSpec == ObjectiveInit /\ [][ObjectiveNext]_objectiveVars

(***************************************************************************)
(* While the process lives and is not being stopped: the tick loop and the *)
(* cycle tasks are polled, timers fire, and every request to GitHub        *)
(* returns or fails.  The agent may run forever.                           *)
(***************************************************************************)
ObjectiveFairness ==
  /\ WF_objectiveVars(is_up /\ ~shutdown /\ Tick)
  /\ \A o \in Objective : WF_objectiveVars(is_up /\ ~shutdown /\ LookAt(o))
  /\ \A k \in Cycle : WF_objectiveVars(is_up /\ ~shutdown /\ CycleProgress(k))

ObjectiveFairSpec == ObjectiveSpec /\ ObjectiveFairness
-----------------------------------------------------------------------------
Active == {k \in Cycle : cycle_pc[k] # "none"}

(* Two cycles of one objective are never under way together (they would work on
   the same items), and an objective is marked as running exactly while it has a
   cycle: a mark left behind by a cycle that failed or panicked would skip
   every later slot of the objective. *)
OneCyclePerObjective ==
  /\ \A k, c \in Active : objective[k] = objective[c] => k = c
  /\ running = {objective[k] : k \in Active}

(* Reili only closes the items it created. *)
OnlyOwnItemsClosed ==
  [][\A i \in Item :
       /\ edits' = edits
       /\ issue[i].state # issue'[i].state
       /\ issue'[i].state # "Open"
       => issue[i].created_by_reili]_objectiveVars

Undisturbed(k) == change[k].item \notin disturbed[k]

(* A write to an item that nobody else changed since the cycle listed it goes to
   an open item that is Reili's, of the cycle's own objective; and an item that
   is linked had no objective. *)
WritesGoToOwnItems ==
  \A k \in Cycle :
    /\ cycle_pc[k] \in Writing \ {"creating"} /\ Undisturbed(k) =>
         /\ IsReiliWork(issue[change[k].item])
         /\ objective[k] \in issue[change[k].item].objectives
    /\ \A i \in unlinked[k] \ disturbed[k] : i \in UnlinkedReiliWork

(* After an update of an item that nobody else changed, the tracker says what
   the report said: the label is on it exactly when a decision is needed, and it
   is closed exactly when Reili created it and it is resolved. *)
UpdateMatchesReport ==
  \A k \in Cycle :
    LET done == change[k] IN
    /\ cycle_pc[k] = "notifying"
    /\ done.kind = "update"
    /\ Undisturbed(k)
    => /\ issue[done.item].needs_decision = (done.status = "NeedsDecision")
       /\ (issue[done.item].state = "Done") =
            (done.status = "Resolved" /\ issue[done.item].created_by_reili)

(* A scheduled time is never lost: the objective gets a cycle, or has one. *)
DueObjectiveRuns ==
  \A o \in Objective :
    o \in due ~> (\E k \in Active : objective[k] = o) \/ ~is_up \/ shutdown

(* Every cycle ends and releases its mark, even when the agent never returns. *)
CyclesEnd ==
  \A o \in Objective : o \in running ~> o \notin running \/ ~is_up \/ shutdown
-----------------------------------------------------------------------------
(* README.md: the team "takes it back by removing it" (the assignee label), and
   the scenario "The team's decisions win": items taken away or rejected are
   left alone.  An item that is to be updated is Reili's when the report on it
   is taken up. *)
TakenBackIsLeftAlone ==
  [][\A k \in Cycle :
       cycle_pc[k] = "working" /\ cycle_pc'[k] = "commenting"
         => IsReiliWork(issue[change'[k].item])]_objectiveVars
=============================================================================
