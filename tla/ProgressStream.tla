--------------------------- MODULE ProgressStream ---------------------------
(***************************************************************************)
(* The progress stream of one attempt of a task, from its first update to  *)
(* the end of the session:                                                 *)
(*                                                                         *)
(*   - the agents whose hooks publish events (adapters/src/outbound/       *)
(*     agents/runner/execution_hook.rs, tools/spawn_agent.rs);             *)
(*   - the projector of ProgressSteps;                                     *)
(*   - SlackProgressReporterSession, which knows the active scope of each  *)
(*     owner (adapters/src/outbound/slack/progress_stream/                 *)
(*     progress_reporter.rs);                                              *)
(*   - SlackProgressStreamLifecycle, which keeps one streaming message     *)
(*     alive and rotates to a new one before Slack ends it                 *)
(*     (progress_stream/stream_lifecycle.rs);                              *)
(*   - the messages in Slack.                                              *)
(*                                                                         *)
(* The events of all agents go through one unbounded channel to one loop,  *)
(* which holds the session while it handles one, and the session is ended  *)
(* after the channel is drained: an event is handled as it is published,   *)
(* and only the calls to Slack are steps of their own.  A call succeeds,   *)
(* fails without effect, or takes effect and loses its answer.             *)
(***************************************************************************)
EXTENDS ProgressSteps

CONSTANTS
  Lead,            \* the owner task_runner
  SpawnCall,       \* sub-agent -> the tool call of the lead it runs in
  CharacterLimit,  \* STREAM_ROTATION_CHARACTER_LIMIT, in chunks
  MaxEvents,       \* bound on the events of the agents
  MaxFaults        \* bound on the calls to Slack that fail

ASSUME StreamAssumption ==
  /\ Lead \in Owner
  /\ SpawnCall \in [Owner \ {Lead} -> Tool]
  /\ {MaxSteps, CharacterLimit, MaxEvents, MaxFaults} \subseteq Nat

VARIABLES
  agent,            \* what each agent is doing
  outcome,          \* how the session was ended, or "running"
  active_scopes,    \* owner -> the step the reporter holds for it
  stream_ts,        \* the current message, 0 for none
  stream_stopped,   \* the session was stopped
  character_count,  \* current_stream_character_count
  aged,             \* is the stream STREAM_ROTATION_MAX_AGE old?
  call,             \* the call to Slack under way
  messages,         \* the streamed messages in Slack
  faults,           \* calls that failed
  events,           \* events that were handled
  abandoned,        \* auxiliary: messages a failed call left behind
  crowded           \* auxiliary: owners that had two open steps at a time

reporterVars == <<active_scopes>>
lifecycleVars == <<stream_ts, stream_stopped, character_count, aged>>
slackVars == <<messages, faults, abandoned>>
agentVars == <<agent, outcome, events, crowded>>
streamVars == <<projectorVars, reporterVars, lifecycleVars, call, slackVars,
                agentVars>>

SubAgent == Owner \ {Lead}
NoScopes == [o \in Owner |-> 0]

\* What is being asked of Slack: the update it is for, and the scopes that
\* were active before that update (active_scopes_before_update).
Call(op, update, before) == [op |-> op, update |-> update, before |-> before]
NoUpdate == Update(0, Lead, "none")
NoCall == Call("none", NoUpdate, NoScopes)

StreamInit ==
  /\ StepsInit
  /\ agent = [o \in Owner |-> IF o = Lead THEN "running" ELSE "idle"]
  /\ outcome = "running"
  /\ active_scopes = NoScopes
  /\ stream_ts = 0
  /\ stream_stopped = FALSE
  /\ character_count = 0
  /\ aged = FALSE
  /\ call = NoCall
  /\ messages = <<>>
  /\ faults = 0
  /\ events = 0
  /\ abandoned = {}
  /\ crowded = {}

-----------------------------------------------------------------------------
(* The agents. *)

ToolRunning(o, t) ==
  /\ step_of_task[o][t] # 0
  /\ steps[step_of_task[o][t]].tools[t] = "in_progress"

\* The sub-agents that run in a tool call of an owner.
SpawnedIn(o, t) == IF o = Lead THEN {a \in SubAgent : SpawnCall[a] = t} ELSE {}

Publishing(o) ==
  /\ outcome = "running"
  /\ updates = <<>>
  /\ call = NoCall
  /\ agent[o] = "running"
  /\ events < MaxEvents

Published(o) ==
  /\ events' = events + 1
  /\ crowded' = IF \E r, s \in 1..Len(steps') :
                     /\ r # s
                     /\ steps'[r].owner = o /\ ~steps'[r].completed
                     /\ steps'[s].owner = o /\ ~steps'[s].completed
                THEN crowded \cup {o} ELSE crowded
  /\ UNCHANGED <<outcome, reporterVars, lifecycleVars, call, slackVars>>

\* report_progress is a tool like any other: it may run next to tool calls of
\* the same turn.
ReportProgress(o) ==
  /\ Publishing(o)
  /\ ProgressSummary(o)
  /\ Published(o)
  /\ UNCHANGED agent

\* A provider may reuse a call id ("unknown" for a native web search), but a
\* sub-agent runs once.
StartTool(o, t) ==
  /\ Publishing(o)
  /\ ~ToolRunning(o, t)
  /\ \A a \in SpawnedIn(o, t) : agent[a] = "idle"
  /\ ToolStarted(o, t)
  /\ Published(o)
  /\ agent' = [a \in Owner |->
                 IF a \in SpawnedIn(o, t) THEN "running" ELSE agent[a]]

FinishTool(o, t) ==
  /\ Publishing(o)
  /\ ToolRunning(o, t)
  /\ \A a \in SpawnedIn(o, t) : agent[a] \in {"done", "failed"}
  /\ ToolCompleted(o, t)
  /\ Published(o)
  /\ UNCHANGED agent

\* An agent answers when its tool calls have returned.
Answer(o) ==
  /\ Publishing(o)
  /\ \A t \in Tool : ~ToolRunning(o, t)
  /\ MessageOutputCreated(o)
  /\ Published(o)
  /\ agent' = [agent EXCEPT ![o] = "done"]

\* SpawnAgentTool::call returns the error of its agent, and publishes nothing.
SubAgentFails(a) ==
  /\ outcome = "running"
  /\ agent[a] = "running"
  /\ agent' = [agent EXCEPT ![a] = "failed"]
  /\ UNCHANGED <<projectorVars, reporterVars, lifecycleVars, call, slackVars,
                 outcome, events, crowded>>

-----------------------------------------------------------------------------
(* Slack.  A message shows each step at most once, with its last status.    *)

NewMessage == [open |-> TRUE, ended_by |-> "none",
               shown |-> [s \in StepId |-> "absent"]]

Shows(message, chunks) ==
  [message EXCEPT !.shown = [s \in StepId |->
     IF \E u \in chunks : u.step = s
     THEN (CHOOSE u \in chunks : u.step = s).status ELSE @[s]]]

\* chat.startStream: no message, a message, or a message nobody knows of.
Started(chunks) == messages' = Append(messages, Shows(NewMessage, chunks))
Orphaned(chunks) ==
  /\ Started(chunks)
  /\ abandoned' = abandoned \cup {Len(messages) + 1}
NotStarted == UNCHANGED <<messages, abandoned>>

\* chat.stopStream: what ended it is recorded when the answer arrives.
Stopped(m, chunks, by) ==
  messages' = [messages EXCEPT
    ![m] = [Shows(@, chunks) EXCEPT !.open = FALSE, !.ended_by = by]]

Failed == faults < MaxFaults /\ faults' = faults + 1

-----------------------------------------------------------------------------
(* SlackProgressReporterSession. *)

\* upsert_active_scope, remove_active_scope: one scope for each owner.
ScopesAfter(u) ==
  [active_scopes EXCEPT ![u.owner] =
     IF u.status = "in_progress" THEN u.step
     ELSE IF @ = u.step THEN 0 ELSE @]

ScopeChunks(scopes, owners, status) ==
  {Update(scopes[o], o, status) : o \in {a \in owners : scopes[a] # 0}}

\* Mutant: the stop chunks are taken after the update was recorded.
StopChunksAfterUpdate == ScopeChunks(active_scopes, Owner, "complete")

\* The scopes a rotation closes in the old message: all that were active.
StopChunks == ScopeChunks(call.before, Owner, "complete")

\* Mutant: a rotation resumes the scope of the update only.
ResumeChunksOfUpdate ==
  ScopeChunks(call.before,
              {o \in {call.update.owner} : active_scopes[o] = call.before[o]},
              "in_progress")

\* The scopes it resumes in the new one: those that are still active.
ResumeChunks ==
  ScopeChunks(call.before, {o \in Owner : active_scopes[o] = call.before[o]},
              "in_progress")

\* rotation_reason: the age, or the count with the chunk to come.
RotationDue == aged \/ character_count + 1 > CharacterLimit

\* apply, up to its first call.
Apply ==
  LET u == Head(updates) IN
  /\ updates # <<>>
  /\ call = NoCall
  /\ updates' = Tail(updates)
  /\ active_scopes' = ScopesAfter(u)
  /\ call' = Call(IF stream_ts = 0 THEN "start"
                  ELSE IF RotationDue THEN "rotate_stop" ELSE "append",
                  u, active_scopes)
  /\ UNCHANGED <<steps, active_step, step_of_task, lifecycleVars, slackVars,
                 agentVars>>

-----------------------------------------------------------------------------
(* SlackProgressStreamLifecycle.  UNCHANGED in all of its actions: *)

Lifecycle == UNCHANGED <<projectorVars, reporterVars, agentVars>>

RecordStarted(count) ==
  /\ stream_ts' = Len(messages')
  /\ character_count' = count
  /\ aged' = FALSE
  /\ UNCHANGED stream_stopped

\* disable_stream forgets the message.  It does not stop the session: the
\* next update starts another stream.
DisableStream ==
  /\ stream_ts' = 0
  /\ character_count' = 0
  /\ aged' = FALSE
  /\ UNCHANGED stream_stopped

Then(op) == call' = IF op = "none" THEN NoCall ELSE [call EXCEPT !.op = op]

\* start, with the update as its first chunk.
StartOk ==
  /\ call.op = "start"
  /\ Started({call.update})
  /\ RecordStarted(1)
  /\ Then("none")
  /\ Lifecycle
  /\ UNCHANGED <<faults, abandoned>>

StartFails ==
  /\ call.op = "start"
  /\ Failed
  /\ NotStarted \/ Orphaned({call.update})
  /\ Then("none")
  /\ Lifecycle
  /\ UNCHANGED lifecycleVars

\* append_chunks_to_current_stream, also for the second part of a rotation.
Appending == call.op \in {"append", "rotated_append"}

AppendOk ==
  /\ Appending
  /\ messages[stream_ts].open
  /\ messages' = [messages EXCEPT ![stream_ts] = Shows(@, {call.update})]
  /\ character_count' = character_count + 1
  /\ Then("none")
  /\ Lifecycle
  /\ UNCHANGED <<stream_ts, stream_stopped, aged, faults, abandoned>>

\* message_not_in_streaming_state: Slack has ended the stream.
AppendFindsStreamEnded ==
  /\ Appending
  /\ Failed
  /\ messages' = [messages EXCEPT ![stream_ts].open = FALSE]
  /\ Then("restart")
  /\ Lifecycle
  /\ UNCHANGED <<lifecycleVars, abandoned>>

\* msg_too_long: rotate; within a rotation there is no other way out.
AppendTooLong ==
  /\ call.op = "append"
  /\ Then("rotate_stop")
  /\ Lifecycle
  /\ UNCHANGED <<lifecycleVars, slackVars>>

RotatedAppendTooLong ==
  /\ call.op = "rotated_append"
  /\ Failed
  /\ abandoned' = abandoned \cup {stream_ts}
  /\ DisableStream
  /\ Then("none")
  /\ Lifecycle
  /\ UNCHANGED messages

\* is_permanent_stream_append_error.
AppendFailsForGood ==
  /\ Appending
  /\ Failed
  /\ abandoned' = abandoned \cup {stream_ts}
  /\ DisableStream
  /\ Then("none")
  /\ Lifecycle
  /\ UNCHANGED messages

\* Any other error: the update is dropped, or its answer was.
AppendFails ==
  /\ Appending
  /\ Failed
  /\ \/ UNCHANGED messages
     \/ messages' = [messages EXCEPT ![stream_ts] = Shows(@, {call.update})]
  /\ Then("none")
  /\ Lifecycle
  /\ UNCHANGED <<lifecycleVars, abandoned>>

\* restart_stream_with_chunks: the update alone.
RestartOk ==
  /\ call.op = "restart"
  /\ Started({call.update})
  /\ RecordStarted(1)
  /\ Then("none")
  /\ Lifecycle
  /\ UNCHANGED <<faults, abandoned>>

RestartFails ==
  /\ call.op = "restart"
  /\ Failed
  /\ NotStarted \/ Orphaned({call.update})
  /\ DisableStream
  /\ Then("none")
  /\ Lifecycle

\* stop_current_stream_for_rotation: a failure is logged.
RotateStop ==
  /\ call.op = "rotate_stop"
  /\ \/ /\ Stopped(stream_ts, StopChunks, "rotation")
        /\ UNCHANGED <<faults, abandoned>>
     \/ /\ Failed
        /\ UNCHANGED messages
        /\ abandoned' = abandoned \cup {stream_ts}
     \/ /\ Failed
        /\ Stopped(stream_ts, StopChunks, "rotation")
        /\ UNCHANGED abandoned
  /\ Then("rotate_start")
  /\ Lifecycle
  /\ UNCHANGED lifecycleVars

\* The new message starts with the scopes that go on, and the update follows;
\* without such scopes it starts with the update.
RotateStart ==
  LET resumed == ResumeChunks
      first == IF resumed = {} THEN {call.update} ELSE resumed
  IN
  /\ call.op = "rotate_start"
  /\ \/ /\ Started(first)
        /\ RecordStarted(Cardinality(first))
        /\ Then(IF resumed = {} THEN "none" ELSE "rotated_append")
        /\ UNCHANGED <<faults, abandoned>>
     \/ /\ Failed
        /\ NotStarted \/ Orphaned(first)
        /\ DisableStream
        /\ Then("none")
  /\ Lifecycle

\* Time.
StreamAges ==
  /\ stream_ts # 0
  /\ ~aged
  /\ aged' = TRUE
  /\ UNCHANGED <<projectorVars, reporterVars, stream_ts, stream_stopped,
                 character_count, call, slackVars, agentVars>>

-----------------------------------------------------------------------------
(* The end: execute_task_job drains the channel and stops the session. *)

\* Mutant: a session that ends forgets its message.
EndSessionWithoutStop(status) ==
  /\ outcome = "running"
  /\ updates = <<>>
  /\ call = NoCall
  /\ status = "succeeded" => agent[Lead] = "done"
  /\ outcome' = status
  /\ stream_stopped' = TRUE
  /\ UNCHANGED <<projectorVars, reporterVars, stream_ts, character_count, aged,
                 call, slackVars, agent, events, crowded>>

EndSession(status) ==
  /\ outcome = "running"
  /\ updates = <<>>
  /\ call = NoCall
  /\ status = "succeeded" => agent[Lead] = "done"
  /\ outcome' = status
  /\ call' = IF stream_ts = 0 THEN NoCall ELSE Call("stop", NoUpdate, NoScopes)
  /\ stream_stopped' = (stream_ts = 0)
  /\ UNCHANGED <<projectorVars, reporterVars, stream_ts, character_count, aged,
                 slackVars, agent, events, crowded>>

\* build_stop_chunks: the plan's title aside, only a cancellation touches the
\* steps, as errors.
EndChunks ==
  IF outcome = "cancelled" THEN ScopeChunks(active_scopes, Owner, "error")
  ELSE {}

StopSession ==
  /\ call.op = "stop"
  /\ \/ /\ Stopped(stream_ts, EndChunks, outcome)
        /\ UNCHANGED <<faults, abandoned>>
     \/ /\ Failed
        /\ UNCHANGED messages
        /\ abandoned' = abandoned \cup {stream_ts}
     \/ /\ Failed
        /\ Stopped(stream_ts, EndChunks, outcome)
        /\ UNCHANGED abandoned
  /\ stream_stopped' = TRUE
  /\ Then("none")
  /\ Lifecycle
  /\ UNCHANGED <<stream_ts, character_count, aged>>

StreamNext ==
  \/ \E o \in Owner : ReportProgress(o) \/ Answer(o)
  \/ \E o \in Owner, t \in Tool : StartTool(o, t) \/ FinishTool(o, t)
  \/ \E a \in SubAgent : SubAgentFails(a)
  \/ Apply \/ StartOk \/ StartFails
  \/ AppendOk \/ AppendFindsStreamEnded \/ AppendTooLong
  \/ RotatedAppendTooLong \/ AppendFailsForGood \/ AppendFails
  \/ RestartOk \/ RestartFails \/ RotateStop \/ RotateStart
  \/ StreamAges
  \/ \E s \in {"succeeded", "failed", "cancelled"} : EndSession(s)
  \/ StopSession

StreamSpec == StreamInit /\ [][StreamNext]_streamVars

-----------------------------------------------------------------------------
(* Properties. *)

Statuses == {"absent", "in_progress", "complete", "error"}

\* The types of the state, the bound on what a message takes (the limit, or
\* what a rotation starts it with and the update that follows), and that no
\* tool call, active step or scope of an owner is in a step of another
\* (state.rs, stream_lifecycle.rs).
ProgressTypeOK ==
  /\ Len(steps) <= MaxSteps
  /\ \A s \in 1..Len(steps) :
       steps[s] \in [owner : Owner, completed : BOOLEAN,
                     tools : [Tool -> {"unseen", "in_progress", "complete"}]]
  /\ \A o \in Owner :
       {active_step[o], active_scopes[o]} \cup {step_of_task[o][t] : t \in Tool}
         \subseteq {0} \cup {s \in 1..Len(steps) : steps[s].owner = o}
  /\ stream_ts \in 0..Len(messages)
  /\ character_count <= IF CharacterLimit > Cardinality(Owner)
                        THEN CharacterLimit ELSE Cardinality(Owner) + 1
  /\ \A m \in 1..Len(messages) : messages[m].shown \in [StepId -> Statuses]

Settled == updates = <<>> /\ call = NoCall

\* A scope the reporter holds is a step that goes on: a rotation never resumes
\* a finished step, which nobody would finish again.
ScopesAreOpenSteps ==
  Settled => \A o \in Owner : active_scopes[o] # 0 => ~steps[active_scopes[o]].completed

\* While no call fails, the current message shows the active scope of every
\* owner as in progress, whatever rotations came before and whichever update
\* caused them.
ActiveScopesAreShown ==
  faults = 0 /\ call = NoCall /\ outcome = "running" =>
    \A o \in Owner : active_scopes[o] # 0 =>
      /\ stream_ts # 0
      /\ messages[stream_ts].shown[active_scopes[o]] = "in_progress"

\* When a task has succeeded and no call failed, its last message shows
\* nothing in progress but what a failed sub-agent left.
SuccessLeavesNothingRunning ==
  faults = 0 /\ Settled /\ outcome = "succeeded" /\ stream_ts # 0 =>
    \A s \in 1..Len(steps) :
      messages[stream_ts].shown[s] = "in_progress" => agent[steps[s].owner] = "failed"

\* No message goes on streaming behind the current one, nor after the session,
\* unless a call failed on it or its start lost its answer.
NoStreamLeftOpen ==
  \A m \in 1..Len(messages) : messages[m].open =>
    \/ m \in abandoned
    \/ m = stream_ts /\ ~stream_stopped

RunningIn(m) ==
  {s \in 1..Len(steps) : messages[m].shown[s] = "in_progress"}

\* A message that a rotation or a cancellation has closed shows nothing in
\* progress of an owner that had one step at a time.
ClosedMessagesAreSettled ==
  faults = 0 =>
    \A m \in 1..Len(messages) :
      messages[m].ended_by \in {"rotation", "cancelled"} =>
        \A s \in RunningIn(m) : steps[s].owner \in crowded

\* The tests closes_old_scope_and_resumes_it_on_*_rotation
\* (progress_reporter.rs:548, 614, 683) expect a rotation to close what is in
\* progress in the old message.
RotationClosesOldSteps ==
  faults = 0 =>
    \A m \in 1..Len(messages) :
      messages[m].ended_by = "rotation" => RunningIn(m) = {}
=============================================================================
