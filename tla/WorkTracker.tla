---------------------------- MODULE WorkTracker ----------------------------
(***************************************************************************)
(* The team's issue tracker as Reili uses it: the port of                  *)
(* core/src/work/port.rs, implemented over GitHub Issues by                *)
(* adapters/src/outbound/github/work_state/repository.rs, and the team     *)
(* that edits the same issues at any time.                                 *)
(*                                                                         *)
(* A request to GitHub is one atomic change of one issue.  The requests    *)
(* are written as the value the issue takes, for the caller to apply, lose *)
(* or see fail; the labels are created first where they are missing, which *)
(* changes no issue.                                                       *)
(***************************************************************************)
EXTENDS Naturals, FiniteSets

CONSTANTS
  Objective,  \* the enabled objectives
  Item,       \* the issues that may ever exist
  MaxEdits    \* bound: how many times the team edits an issue

ASSUME TrackerAssumption == MaxEdits \in Nat

VARIABLES
  issue,   \* the issues, the ones still to be opened included
  edits    \* how many edits the team has made

WorkItemState == {"Open", "Done", "NotPlanned"}

Issue == [state : WorkItemState \cup {"absent"},
          objectives : SUBSET Objective,   \* its reili-objective:<id> labels
          assigned : BOOLEAN,              \* reili:assignee
          needs_decision : BOOLEAN,        \* reili:needs-decision
          created_by_reili : BOOLEAN]

TrackerTypeOK == issue \in [Item -> Issue] /\ edits \in 0..MaxEdits

Absent == [state |-> "absent", objectives |-> {}, assigned |-> FALSE,
           needs_decision |-> FALSE, created_by_reili |-> FALSE]

TrackerInit == issue = [i \in Item |-> Absent] /\ edits = 0
-----------------------------------------------------------------------------
(* What the listings tell of an issue: to_work_item, without its texts. *)
WorkItem(i) ==
  [state |-> issue[i].state, assigned |-> issue[i].assigned,
   needs_decision |-> issue[i].needs_decision,
   created_by_reili |-> issue[i].created_by_reili]

WorkItems ==
  [state : WorkItemState, assigned : BOOLEAN, needs_decision : BOOLEAN,
   created_by_reili : BOOLEAN]

IsReiliWork(item) == item.state = "Open" /\ item.assigned

(* Mutant: the listing is not restricted to the objective. *)
OpenItemsOfAny(o) == {i \in Item : issue[i].state = "Open"}

OpenItems(o) == {i \in Item : issue[i].state = "Open" /\ o \in issue[i].objectives}

ClosedItems(o) ==
  {i \in Item : issue[i].state \in {"Done", "NotPlanned"} /\ o \in issue[i].objectives}

UnlinkedReiliWork ==
  {i \in Item : IsReiliWork(issue[i]) /\ issue[i].objectives = {}}

LinkedTo(i, o) == [issue[i] EXCEPT !.objectives = @ \cup {o}]

WithNeedsDecision(i, needs_decision) ==
  [issue[i] EXCEPT !.needs_decision = needs_decision]

(* PATCH state=closed, state_reason=completed, whatever the state was. *)
ClosedAsDone(i) == [issue[i] EXCEPT !.state = "Done"]

NewWorkItem(o, needs_decision) ==
  [state |-> "Open", objectives |-> {o}, assigned |-> TRUE,
   needs_decision |-> needs_decision, created_by_reili |-> TRUE]
-----------------------------------------------------------------------------
(***************************************************************************)
(* The team opens an issue, and closes, reopens, hands over, takes back,   *)
(* relabels or decides one; every edit is one request of theirs.           *)
(***************************************************************************)
TeamOpens(i, edited) ==
  /\ issue[i].state = "absent"
  /\ edited.state = "Open"
  /\ ~edited.created_by_reili
  /\ Cardinality(edited.objectives) <= 1

TeamEdits(i, edited) ==
  /\ issue[i].state # "absent"
  /\ \/ \E s \in WorkItemState : edited = [issue[i] EXCEPT !.state = s]
     \/ \E b \in BOOLEAN : \/ edited = [issue[i] EXCEPT !.assigned = b]
                           \/ edited = [issue[i] EXCEPT !.needs_decision = b]
     \/ \E o \in Objective : \/ edited = [issue[i] EXCEPT !.objectives = @ \cup {o}]
                             \/ edited = [issue[i] EXCEPT !.objectives = @ \ {o}]
  /\ edited # issue[i]

TeamStep(i) ==
  /\ edits < MaxEdits
  /\ edits' = edits + 1
  /\ \E edited \in Issue :
       /\ TeamOpens(i, edited) \/ TeamEdits(i, edited)
       /\ issue' = [issue EXCEPT ![i] = edited]
=============================================================================
