--------------------------- MODULE ProgressSteps ---------------------------
(***************************************************************************)
(* The steps a task shows in its thread while agents work on it:           *)
(* application/src/progress/projector.rs over the ProgressStreamState of   *)
(* progress/state.rs.                                                      *)
(*                                                                         *)
(* An owner is the lead agent or a sub-agent.  It announces steps with     *)
(* report_progress; its tool calls run within its active step, several at  *)
(* once.  Each event of an owner yields the updates that the session       *)
(* applies to the Slack stream, one after the other (see ProgressStream).  *)
(*                                                                         *)
(* A step is the number create_progress_step_identifier gave it, 0 is no   *)
(* step.  Titles and details are left out: a summary with a blank title is *)
(* dropped by the handler, and the title a new step of a tool call takes   *)
(* from the last completed step is text.  A tool_completed for a call that *)
(* was never announced (a denied one) is logged and changes nothing.       *)
(***************************************************************************)
EXTENDS Integers, SequencesExt

CONSTANTS
  Owner,     \* the agents that report progress
  Tool,      \* tool call ids of an owner
  MaxSteps   \* bound on the steps that are created

VARIABLES
  steps,         \* progress_step_by_id
  active_step,   \* active_progress_step_id_by_owner_id
  step_of_task,  \* progress_step_id_by_task_key: owner, tool call -> step
  updates        \* what the projector returned and the session has not applied

projectorVars == <<steps, active_step, step_of_task, updates>>

StepId == 1..MaxSteps

StepsInit ==
  /\ steps = <<>>
  /\ active_step = [o \in Owner |-> 0]
  /\ step_of_task = [o \in Owner |-> [t \in Tool |-> 0]]
  /\ updates = <<>>

\* ScopeStarted and ScopeUpdated are the same to the stream: the step goes on.
\* The projector sends no ScopeUpdated with the status Complete.
Update(s, o, status) == [step |-> s, owner |-> o, status |-> status]

NewStep(o) ==
  [owner |-> o, completed |-> FALSE, tools |-> [t \in Tool |-> "unseen"]]

HasToolInProgress(step) == \E t \in Tool : step.tools[t] = "in_progress"

\* complete_active_progress_step_if_idle completes this set of steps.
IdleSteps(o) ==
  {s \in {active_step[o]} \ {0} :
     ~steps[s].completed /\ ~HasToolInProgress(steps[s])}

OpenSteps(o) ==
  {s \in 1..Len(steps) : steps[s].owner = o /\ ~steps[s].completed}

MarkCompleted(ids) ==
  [s \in 1..Len(steps) |->
     IF s \in ids THEN [steps[s] EXCEPT !.completed = TRUE] ELSE steps[s]]

\* report_progress: the active step ends, unless a tool call is still running
\* in it, and a new one becomes active.
ProgressSummary(o) ==
  LET new == Len(steps) + 1 IN
  /\ new \in StepId
  /\ steps' = Append(MarkCompleted(IdleSteps(o)), NewStep(o))
  /\ active_step' = [active_step EXCEPT ![o] = new]
  /\ updates' = [i \in 1..Cardinality(IdleSteps(o)) |->
                   Update(active_step[o], o, "complete")]
                \o <<Update(new, o, "in_progress")>>
  /\ UNCHANGED step_of_task

\* resolve_progress_step_for_tool_started: the step the call was seen in, else
\* the active step of its owner, else a new one, which becomes active.
StepForTool(o, t) ==
  IF step_of_task[o][t] # 0 THEN step_of_task[o][t]
  ELSE IF active_step[o] # 0 THEN active_step[o]
  ELSE Len(steps) + 1

\* Mutant: mark_progress_step_incomplete forgotten.
ToolStartedNotReopened(o, t) ==
  LET s == StepForTool(o, t)
      known == IF s > Len(steps) THEN Append(steps, NewStep(o)) ELSE steps
  IN
  /\ s \in StepId
  /\ steps' = [known EXCEPT ![s].tools[t] = "in_progress"]
  /\ active_step' = [active_step EXCEPT
                       ![o] = IF s > Len(steps) THEN s ELSE @]
  /\ step_of_task' = [step_of_task EXCEPT ![o][t] = s]
  /\ updates' = <<Update(s, o, "in_progress")>>

ToolStarted(o, t) ==
  LET s == StepForTool(o, t)
      known == IF s > Len(steps) THEN Append(steps, NewStep(o)) ELSE steps
  IN
  /\ s \in StepId
  /\ steps' = [known EXCEPT ![s].tools[t] = "in_progress",
                            ![s].completed = FALSE]
  /\ active_step' = [active_step EXCEPT
                       ![o] = IF s > Len(steps) THEN s ELSE @]
  /\ step_of_task' = [step_of_task EXCEPT ![o][t] = s]
  /\ updates' = <<Update(s, o, "in_progress")>>

\* Nothing is sent for the last call of a step: the step ends with the next
\* summary, or with the output.
ToolCompleted(o, t) ==
  LET s == step_of_task[o][t] IN
  /\ steps' = [steps EXCEPT ![s].tools[t] = "complete"]
  /\ updates' = IF HasToolInProgress(steps'[s])
                THEN <<Update(s, o, "in_progress")>> ELSE <<>>
  /\ UNCHANGED <<active_step, step_of_task>>

\* Mutant: only the active step ends with the output.
MessageOutputEndsActive(o) ==
  /\ steps' = MarkCompleted(OpenSteps(o) \cap {active_step[o]})
  /\ active_step' = [active_step EXCEPT ![o] = 0]
  /\ updates' = [i \in 1..Cardinality(OpenSteps(o) \cap {active_step[o]}) |->
                   Update(active_step[o], o, "complete")]
  /\ UNCHANGED step_of_task

\* The owner has answered: all its steps end, in the order of a HashMap.
MessageOutputCreated(o) ==
  /\ steps' = MarkCompleted(OpenSteps(o))
  /\ active_step' = [active_step EXCEPT ![o] = 0]
  /\ \E order \in SetToSeqs(OpenSteps(o)) :
       updates' = [i \in 1..Len(order) |-> Update(order[i], o, "complete")]
  /\ UNCHANGED step_of_task
=============================================================================
