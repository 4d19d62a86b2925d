----------------------- MODULE ProgressStream_proofs -----------------------
(***************************************************************************)
(* What holds of the progress stream of an attempt, with any number of      *)
(* agents, tool calls, steps and events: which steps the reporter and the    *)
(* messages in Slack show as running, and that no message is left open.      *)
(*                                                                         *)
(* An event changes the steps while nothing is under way to Slack, and a    *)
(* call to Slack changes the messages while the steps stay as they are.      *)
(* The invariant has two parts for the steps and the agents, StepsOK and     *)
(* AgentsOK; two for what is on its way, the updates of a batch and the      *)
(* call of the update that was applied last; and two for the messages.       *)
(***************************************************************************)
EXTENDS ProgressStream, FiniteSetTheorems, SequenceTheorems, TLAPS

Step == [owner : Owner, completed : BOOLEAN,
         tools : [Tool -> {"unseen", "in_progress", "complete"}]]
UpdateRecord == [step : StepId, owner : Owner, status : {"in_progress", "complete"}]
Ops == {"none", "start", "append", "rotate_stop", "rotate_start", "rotated_append",
        "restart", "stop"}
Outcomes == {"running", "succeeded", "failed", "cancelled"}
Message == [open : BOOLEAN, ended_by : {"none", "rotation"} \cup Outcomes,
            shown : [StepId -> Statuses]]

Steps == 1..Len(steps)
OwnedBy(o) == {s \in Steps : steps[s].owner = o}
Owners(scopes) == \A o \in Owner : scopes[o] \in {0} \cup OwnedBy(o)

StepsOK ==
  /\ steps \in Seq(Step) /\ Len(steps) <= MaxSteps
  /\ active_step \in [Owner -> Nat] /\ Owners(active_step)
  /\ step_of_task \in [Owner -> [Tool -> Nat]]
  /\ \A o \in Owner, t \in Tool : step_of_task[o][t] \in {0} \cup OwnedBy(o)
  /\ \A s \in Steps, t \in Tool : steps[s].tools[t] = "in_progress" =>
       ~steps[s].completed /\ step_of_task[steps[s].owner][t] = s
  /\ crowded \subseteq Owner
  /\ \A r, s \in Steps :
       /\ ~steps[r].completed /\ ~steps[s].completed
       /\ steps[r].owner = steps[s].owner /\ steps[s].owner \notin crowded
       => r = s

\* An agent that has answered has ended its steps, and a sub-agent works
\* within a tool call of the lead.
AgentsOK ==
  /\ agent \in [Owner -> {"idle", "running", "done", "failed"}]
  /\ agent[Lead] \in {"running", "done"}
  /\ \A s \in Steps : /\ agent[steps[s].owner] # "idle"
                      /\ agent[steps[s].owner] = "done" => steps[s].completed
  /\ \A a \in SubAgent : agent[a] = "running" => ToolRunning(Lead, SpawnCall[a])
  /\ outcome \in Outcomes
  /\ outcome = "succeeded" => agent[Lead] = "done"

\* The updates that are still to be applied end the step s.
EndsIn(s) ==
  \E i \in 1..Len(updates) : updates[i] = Update(s, steps[s].owner, "complete")

UpdateOK(u) ==
  /\ u \in UpdateRecord
  /\ u.step \in Steps /\ steps[u.step].owner = u.owner
  /\ u.status = "in_progress" => ~steps[u.step].completed

BatchOK ==
  /\ updates \in Seq(UpdateRecord)
  /\ \A i \in 1..Len(updates) :
       UpdateOK(updates[i]) /\ (updates[i].status = "in_progress" => i = Len(updates))
  /\ active_scopes \in [Owner -> Nat] /\ Owners(active_scopes)
  /\ \A o \in Owner :
       active_scopes[o] # 0 /\ steps[active_scopes[o]].completed => EndsIn(active_scopes[o])
  /\ \A i \in 1..Len(updates) :
       LET o == updates[i].owner IN
       /\ updates[i].status = "in_progress" /\ o \notin crowded
       /\ active_scopes[o] \notin {0, updates[i].step}
       => EndsIn(active_scopes[o])
  /\ outcome # "running" => updates = <<>>

Updating == call.op \notin {"none", "stop"}

\* The scopes are those before the update of the call, changed by it.
CallOK ==
  /\ call.op \in Ops /\ call = Call(call.op, call.update, call.before)
  /\ call.op = "none" => call = NoCall
  /\ call.op = "stop" => outcome # "running" /\ call.update = NoUpdate
  /\ outcome # "running" => ~Updating
  /\ call.op = "start" => stream_ts = 0
  /\ call.op \in {"append", "rotated_append", "rotate_stop", "stop"} => stream_ts # 0
  /\ Updating =>
       LET u == call.update
           before == call.before
       IN
       /\ UpdateOK(u)
       /\ before \in [Owner -> Nat] /\ Owners(before)
       /\ \A o \in Owner \ {u.owner} : active_scopes[o] = before[o]
       /\ active_scopes[u.owner] = IF u.status = "in_progress" THEN u.step
                                   ELSE IF before[u.owner] = u.step THEN 0
                                   ELSE before[u.owner]
       /\ u.status = "in_progress" /\ u.owner \notin crowded => before[u.owner] \in {0, u.step}

AllAbandoned == \A m \in 1..Len(messages) : messages[m].open => m \in abandoned

MessagesOK ==
  /\ messages \in Seq(Message)
  /\ stream_ts \in 0..Len(messages)
  /\ stream_stopped \in BOOLEAN
  /\ faults \in Nat
  /\ \A m \in 1..Len(messages), s \in StepId :
       messages[m].shown[s] # "absent" => s \in Steps
  /\ NoStreamLeftOpen
  /\ call.op \in {"rotate_start", "restart"} => AllAbandoned
  /\ stream_stopped => outcome # "running" /\ call.op = "none"

Current(s) == messages[stream_ts].shown[s]

\* The scopes that the current message shows while a call is under way.
ShownScopes == IF Updating THEN call.before ELSE active_scopes

\* Every scope that is active is shown, what is shown goes on or is about to
\* end, and of an owner that has one step at a time only its scope is shown.
ShownOK ==
  faults = 0 =>
    /\ call.op # "restart"
    /\ call.op = "start" => \A o \in Owner : call.before[o] = 0
    /\ call.op = "none" /\ outcome = "running" =>
         \A o \in Owner : active_scopes[o] # 0 =>
           stream_ts # 0 /\ Current(active_scopes[o]) = "in_progress"
    /\ call.op \in {"append", "rotated_append"} =>
         \A o \in Owner : active_scopes[o] # 0 /\ active_scopes[o] = call.before[o] =>
           Current(active_scopes[o]) = "in_progress"
    /\ stream_ts # 0 => \A s \in Steps : Current(s) = "in_progress" =>
         /\ steps[s].completed => EndsIn(s) \/ call.update = Update(s, steps[s].owner, "complete")
         /\ steps[s].owner \notin crowded => ShownScopes[steps[s].owner] = s
    /\ stream_ts # 0 /\ call.op # "rotate_start" /\ ~stream_stopped =>
         messages[stream_ts].ended_by = "none"
    /\ ClosedMessagesAreSettled

StreamInv == StepsOK /\ AgentsOK /\ BatchOK /\ CallOK /\ MessagesOK /\ ShownOK

(***************************************************************************)
(* Sequences, chunks and messages.                                         *)
(***************************************************************************)

LEMMA FunctionIsSeq ==
  ASSUME NEW S, NEW n \in Nat, NEW f \in [1..n -> S]
  PROVE  f \in Seq(S) /\ Len(f) = n
<1>1. f \in Seq(S)
  BY SeqDef
<1>2. DOMAIN f = 1..n /\ DOMAIN f = 1..Len(f) /\ Len(f) \in Nat
  BY <1>1, LenProperties
<1>3. 1..n = 1..Len(f)
  BY <1>2
<1>4. Len(f) = n
  <2>1. CASE n = 0
    <3>1. 1 \notin 1..Len(f)
      BY <1>3, <2>1
    <3>2. QED
      BY <1>2, <2>1, <3>1
  <2>2. CASE n # 0
    <3>1. n \in 1..Len(f)
      BY <1>3, <2>2
    <3>2. Len(f) \in 1..n
      BY <1>2, <1>3, <3>1
    <3>3. QED
      BY <1>2, <3>1, <3>2
  <2>3. QED
    BY <2>1, <2>2
<1>5. QED
  BY <1>1, <1>4

\* A message shows the chunks it gets, if they are of one status.
LEMMA ShowsChunks ==
  ASSUME NEW message \in Message, NEW chunks, NEW k \in Statuses,
         \A u \in chunks : u.status = k
  PROVE  /\ Shows(message, chunks) \in Message
         /\ Shows(message, chunks).open = message.open
         /\ Shows(message, chunks).ended_by = message.ended_by
         /\ \A s \in StepId :
              Shows(message, chunks).shown[s] =
                IF \E u \in chunks : u.step = s THEN k ELSE message.shown[s]
<1> DEFINE after == [s \in StepId |->
                       IF \E u \in chunks : u.step = s
                       THEN (CHOOSE u \in chunks : u.step = s).status ELSE message.shown[s]]
<1>1. \A s \in StepId :
        (\E u \in chunks : u.step = s) => (CHOOSE u \in chunks : u.step = s).status = k
  OBVIOUS
<1>2. \A s \in StepId :
        after[s] = IF \E u \in chunks : u.step = s THEN k ELSE message.shown[s]
  BY <1>1
<1>3. message.shown \in [StepId -> Statuses]
  BY DEF Message
<1>4. after \in [StepId -> Statuses]
  BY <1>2, <1>3
<1>5. Shows(message, chunks) = [message EXCEPT !.shown = after]
  BY DEF Shows, Message
<1> HIDE DEF after
<1>6. QED
  BY <1>2, <1>4, <1>5 DEF Message

LEMMA NewMessageTyped ==
  /\ NewMessage \in Message /\ NewMessage.open /\ NewMessage.ended_by = "none"
  /\ \A s \in StepId : NewMessage.shown[s] = "absent"
BY DEF NewMessage, Message, Statuses

(***************************************************************************)
(* What a step keeps by what it leaves alone.                               *)
(***************************************************************************)

LEMMA StepsKept ==
  ASSUME StepsOK, UNCHANGED <<steps, active_step, step_of_task, crowded>>
  PROVE  StepsOK'
BY DEF StepsOK, Owners, OwnedBy, Steps

LEMMA AgentsKept ==
  ASSUME AgentsOK, UNCHANGED <<steps, step_of_task, agent>>, outcome' \in Outcomes,
         outcome' = "succeeded" => agent[Lead] = "done"
  PROVE  AgentsOK'
BY DEF AgentsOK, Steps, ToolRunning

LEMMA BatchKept ==
  ASSUME BatchOK, UNCHANGED <<steps, updates, active_scopes, crowded>>,
         outcome' # "running" => outcome # "running" \/ updates = <<>>
  PROVE  BatchOK'
BY DEF BatchOK, Owners, OwnedBy, Steps, UpdateOK, EndsIn

LEMMA CallKept ==
  ASSUME CallOK, UNCHANGED <<steps, active_scopes, crowded, call, stream_ts, outcome>>
  PROVE  CallOK'
BY DEF CallOK, Owners, OwnedBy, Steps, UpdateOK, Updating

LEMMA ShownKept ==
  ASSUME ShownOK,
         UNCHANGED <<steps, updates, active_scopes, crowded, call, stream_ts, outcome,
                     messages, faults, stream_stopped>>
  PROVE  ShownOK'
BY DEF ShownOK, Current, ShownScopes, Updating, EndsIn, Steps, ClosedMessagesAreSettled, RunningIn

LEMMA MessagesKept ==
  ASSUME MessagesOK, UNCHANGED <<steps, call, stream_ts, outcome, messages, faults, abandoned, stream_stopped>>
  PROVE  MessagesOK'
BY DEF MessagesOK, Steps, NoStreamLeftOpen, AllAbandoned

LEMMA StepsTyped ==
  ASSUME StepsOK
  PROVE  /\ Len(steps) \in Nat /\ MaxSteps \in Nat /\ Steps \subseteq StepId
         /\ steps \in [Steps -> Step]
         /\ \A s \in Steps : steps[s] \in Step /\ s \in Nat /\ s # 0
<1>1. Len(steps) \in Nat /\ steps \in [Steps -> Step]
  BY LenProperties DEF StepsOK, Steps
<1>2. MaxSteps \in Nat
  BY StreamAssumption
<1>3. QED
  BY <1>1, <1>2 DEF StepsOK, Steps, StepId

LEMMA StepIds == \A q \in Seq(Step) : Len(q) <= MaxSteps => 1..Len(q) \subseteq StepId
BY LenProperties, StreamAssumption DEF StepId

(***************************************************************************)
(* The events of the agents.                                               *)
(***************************************************************************)

\* What an event does to the steps and which updates it gives.
Projected ==
  /\ Steps \subseteq Steps'
  /\ \A s \in Steps : steps'[s].owner = steps[s].owner
  /\ crowded \subseteq crowded'
  /\ updates' \in Seq(UpdateRecord)
  /\ \A i \in 1..Len(updates') : UpdateOK(updates[i])'
  /\ \A i \in 1..Len(updates') : updates'[i].status = "in_progress" => i = Len(updates')
  /\ \A s \in Steps : ~steps[s].completed /\ steps'[s].completed => EndsIn(s)'

LEMMA EventKeepsRest ==
  ASSUME StreamInv, StepsOK', Projected, updates = <<>>, call = NoCall, outcome = "running",
         UNCHANGED <<outcome, active_scopes, stream_ts, stream_stopped, call, messages,
                     faults, abandoned>>
  PROVE  BatchOK' /\ CallOK' /\ MessagesOK' /\ ShownOK'
<1>0. /\ StepsOK /\ BatchOK /\ CallOK /\ MessagesOK /\ ShownOK
      /\ Len(updates) = 0 /\ ~Updating /\ call.op = "none" /\ call.update = NoUpdate
  BY DEF StreamInv, NoCall, Call, Updating
<1>1. \A s \in Steps : s \in Steps' /\ steps'[s].owner = steps[s].owner
  BY DEF Projected
<1>2. Owners(active_scopes)'
  BY <1>0, <1>1 DEF BatchOK, Owners, OwnedBy
<1>3. \A o \in Owner : active_scopes[o] # 0 =>
        active_scopes[o] \in Steps /\ ~steps[active_scopes[o]].completed
                                   /\ steps[active_scopes[o]].owner = o
  BY <1>0 DEF BatchOK, Owners, OwnedBy, EndsIn
<1>4. \A o \in Owner : active_scopes[o] # 0 /\ steps'[active_scopes[o]].completed =>
        EndsIn(active_scopes[o])'
  BY <1>3 DEF Projected
<1>5. BatchOK'
  <2>1. ASSUME NEW i \in 1..Len(updates'), NEW o, o = updates'[i].owner,
               updates'[i].status = "in_progress", o \notin crowded',
               active_scopes[o] \notin {0, updates'[i].step}
        PROVE  EndsIn(active_scopes[o])'
    <3>1. UpdateOK(updates[i])'
      BY DEF Projected
    <3>2. /\ o \in Owner /\ updates'[i].step \in Steps'
          /\ steps'[updates'[i].step].owner = o /\ ~steps'[updates'[i].step].completed
      BY <2>1, <3>1 DEF UpdateOK, UpdateRecord
    <3>3. /\ active_scopes[o] \in Steps' /\ steps'[active_scopes[o]].owner = o
      BY <1>1, <1>3, <2>1, <3>2
    <3>4. steps'[active_scopes[o]].completed
      BY <2>1, <3>2, <3>3 DEF StepsOK
    <3>5. QED
      BY <1>4, <2>1, <3>2, <3>4
  <2>2. \A i \in 1..Len(updates') :
           UpdateOK(updates[i])' /\ (updates'[i].status = "in_progress" => i = Len(updates'))
    BY DEF Projected
  <2>3. updates' \in Seq(UpdateRecord) /\ active_scopes' \in [Owner -> Nat]
    BY <1>0 DEF Projected, BatchOK
  <2>4. QED
    BY <1>2, <1>4, <2>1, <2>2, <2>3 DEF BatchOK
<1>6. CallOK'
  BY <1>0 DEF CallOK, Updating
<1>7. MessagesOK'
  BY <1>0, <1>1 DEF MessagesOK, NoStreamLeftOpen, AllAbandoned
<1>8. ShownOK'
  <2> SUFFICES ASSUME faults = 0
               PROVE  ShownOK'
    BY DEF ShownOK
  <2>1. \A m \in 1..Len(messages), s \in Steps' :
          messages[m].shown[s] = "in_progress" => s \in Steps
    <3>1. Steps' \subseteq StepId
      BY StepIds DEF StepsOK, Steps
    <3>2. QED
      BY <1>0, <3>1 DEF MessagesOK
  <2>2. ClosedMessagesAreSettled'
    BY <1>0, <1>1, <2>1 DEF ShownOK, ClosedMessagesAreSettled, RunningIn, Projected, Steps
  <2>3. ASSUME stream_ts # 0, NEW s \in Steps', Current(s) = "in_progress"
        PROVE  /\ s \in Steps
               /\ steps'[s].completed => EndsIn(s)'
               /\ steps'[s].owner \notin crowded' => active_scopes[steps'[s].owner] = s
    <3>1. s \in Steps
      BY <1>0, <2>1, <2>3 DEF MessagesOK, Current
    <3>2. ~steps[s].completed
      <4>1. call.update # Update(s, steps[s].owner, "complete")
        BY <1>0 DEF NoUpdate, Update
      <4>2. ~EndsIn(s)
        BY <1>0 DEF EndsIn
      <4>3. QED
        BY <2>3, <3>1, <4>1, <4>2, <1>0 DEF ShownOK
    <3>3. steps[s].owner \notin crowded => active_scopes[steps[s].owner] = s
      BY <1>0, <2>3, <3>1 DEF ShownOK, ShownScopes
    <3>4. QED
      BY <1>1, <3>1, <3>2, <3>3 DEF Projected
  <2>4. \A o \in Owner : active_scopes[o] # 0 =>
           stream_ts # 0 /\ Current(active_scopes[o]) = "in_progress"
    BY <1>0 DEF ShownOK
  <2>5. stream_ts # 0 /\ ~stream_stopped => messages[stream_ts].ended_by = "none"
    BY <1>0 DEF ShownOK
  <2>6. QED
    BY <1>0, <2>2, <2>3, <2>4, <2>5 DEF ShownOK, ShownScopes, Updating, Current
<1>9. QED
  BY <1>5, <1>6, <1>7, <1>8

\* Who has two open steps at a time is recorded, and the steps of the others
\* are as they were.
LEMMA CrowdedKept ==
  ASSUME StepsOK, NEW o \in Owner, Published(o),
         \A s \in Steps' : steps'[s].owner # o =>
           /\ s \in Steps /\ steps'[s].owner = steps[s].owner
           /\ ~steps'[s].completed => ~steps[s].completed
  PROVE  /\ crowded \subseteq crowded' /\ crowded' \subseteq Owner
         /\ \A r, s \in Steps' :
              /\ ~steps'[r].completed /\ ~steps'[s].completed
              /\ steps'[r].owner = steps'[s].owner /\ steps'[s].owner \notin crowded'
              => r = s
<1>1. crowded \subseteq crowded' /\ crowded' \subseteq Owner
  BY DEF Published, StepsOK
<1>2. ASSUME NEW r \in Steps', NEW s \in Steps',
             ~steps'[r].completed, ~steps'[s].completed,
             steps'[r].owner = steps'[s].owner, steps'[s].owner \notin crowded', r # s
      PROVE  FALSE
  <2>1. CASE steps'[s].owner = o
    BY <1>2, <2>1 DEF Published, Steps
  <2>2. CASE steps'[s].owner # o
    BY <1>1, <1>2, <2>2 DEF StepsOK
  <2>3. QED
    BY <2>1, <2>2
<1>3. QED
  BY <1>1, <1>2

LEMMA NewStepTyped ==
  ASSUME NEW o \in Owner
  PROVE  /\ NewStep(o) \in Step /\ NewStep(o).owner = o /\ ~NewStep(o).completed
         /\ \A t \in Tool : NewStep(o).tools[t] = "unseen"
BY DEF NewStep, Step

LEMMA MarkedCompleted ==
  ASSUME StepsOK, NEW ids
  PROVE  /\ MarkCompleted(ids) \in Seq(Step) /\ Len(MarkCompleted(ids)) = Len(steps)
         /\ \A s \in Steps :
              /\ MarkCompleted(ids)[s].owner = steps[s].owner
              /\ MarkCompleted(ids)[s].tools = steps[s].tools
              /\ MarkCompleted(ids)[s].completed <=> steps[s].completed \/ s \in ids
<1> DEFINE marked(s) == IF s \in ids THEN [steps[s] EXCEPT !.completed = TRUE] ELSE steps[s]
<1>1. \A s \in Steps : /\ marked(s) \in Step
                       /\ marked(s).owner = steps[s].owner
                       /\ marked(s).tools = steps[s].tools
                       /\ marked(s).completed <=> steps[s].completed \/ s \in ids
  BY StepsTyped DEF Step
<1>2. MarkCompleted(ids) = [s \in Steps |-> marked(s)]
  BY DEF MarkCompleted, Steps
<1> HIDE DEF marked
<1>3. MarkCompleted(ids) \in [1..Len(steps) -> Step]
  BY <1>1, <1>2 DEF Steps
<1>4. MarkCompleted(ids) \in Seq(Step) /\ Len(MarkCompleted(ids)) = Len(steps)
  BY <1>3, FunctionIsSeq, StepsTyped
<1>5. QED
  BY <1>1, <1>2, <1>4

LEMMA OneUpdate ==
  ASSUME NEW u \in UpdateRecord, updates' = <<u>>
  PROVE  /\ updates' \in Seq(UpdateRecord) /\ Len(updates') = 1
         /\ \A i \in 1..Len(updates') : i = Len(updates') /\ updates'[i] = u
OBVIOUS

\* The steps after a summary.
LEMMA SummarySteps ==
  ASSUME StepsOK, NEW o \in Owner, ProgressSummary(o)
  PROVE  LET new == Len(steps) + 1 IN
         /\ steps' \in Seq(Step) /\ Len(steps') = new /\ new \in StepId
         /\ Steps' = Steps \cup {new} /\ new \notin Steps
         /\ \A s \in Steps : /\ steps'[s].owner = steps[s].owner
                             /\ steps'[s].tools = steps[s].tools
                             /\ steps'[s].completed <=> steps[s].completed \/ s \in IdleSteps(o)
         /\ steps'[new].owner = o /\ ~steps'[new].completed
         /\ \A t \in Tool : steps'[new].tools[t] = "unseen"
<1> DEFINE new == Len(steps) + 1
           marked == MarkCompleted(IdleSteps(o))
<1>1. new \in StepId /\ steps' = Append(marked, NewStep(o))
  BY DEF ProgressSummary
<1>2. /\ marked \in Seq(Step) /\ Len(marked) = Len(steps) /\ Len(steps) \in Nat
      /\ \A s \in Steps : /\ marked[s].owner = steps[s].owner
                          /\ marked[s].tools = steps[s].tools
                          /\ marked[s].completed <=> steps[s].completed \/ s \in IdleSteps(o)
  BY MarkedCompleted, StepsTyped
<1> HIDE DEF marked
<1>3. /\ steps' \in Seq(Step) /\ Len(steps') = new
      /\ \A s \in Steps : steps'[s] = marked[s]
      /\ steps'[new] = NewStep(o)
  BY <1>1, <1>2, NewStepTyped, AppendProperties DEF Steps
<1>4. Steps' = Steps \cup {new} /\ new \notin Steps
  BY <1>2, <1>3 DEF Steps
<1>5. \A s \in Steps : /\ steps'[s].owner = steps[s].owner
                       /\ steps'[s].tools = steps[s].tools
                       /\ steps'[s].completed <=> steps[s].completed \/ s \in IdleSteps(o)
  BY <1>2, <1>3
<1>6. /\ steps'[new].owner = o /\ ~steps'[new].completed
      /\ \A t \in Tool : steps'[new].tools[t] = "unseen"
  BY <1>3, NewStepTyped
<1>7. QED
  BY <1>1, <1>3, <1>4, <1>5, <1>6

LEMMA SummaryUpdates ==
  ASSUME StepsOK, NEW o \in Owner, ProgressSummary(o)
  PROVE  /\ updates' \in Seq(UpdateRecord)
         /\ \A i \in 1..Len(updates') :
              \/ i = Len(updates') /\ updates'[i] = Update(Len(steps) + 1, o, "in_progress")
              \/ /\ updates'[i] = Update(active_step[o], o, "complete")
                 /\ IdleSteps(o) = {active_step[o]}
         /\ \A s \in IdleSteps(o) :
              \E i \in 1..Len(updates') : updates'[i] = Update(s, o, "complete")
<1> DEFINE n == Cardinality(IdleSteps(o))
           first == [i \in 1..n |-> Update(active_step[o], o, "complete")]
           last == Update(Len(steps) + 1, o, "in_progress")
<1>1. \/ IdleSteps(o) = {} /\ n = 0
      \/ IdleSteps(o) = {active_step[o]} /\ n = 1
  <2>1. IdleSteps(o) \subseteq {active_step[o]}
    BY DEF IdleSteps
  <2>2. Cardinality({}) = 0 /\ Cardinality({active_step[o]}) = 1
    BY FS_EmptySet, FS_Singleton
  <2> HIDE DEF n
  <2>3. CASE active_step[o] \in IdleSteps(o)
    <3>1. IdleSteps(o) = {active_step[o]}
      BY <2>1, <2>3
    <3>2. QED
      BY <2>2, <3>1 DEF n
  <2>4. CASE active_step[o] \notin IdleSteps(o)
    <3>1. IdleSteps(o) = {}
      BY <2>1, <2>4
    <3>2. QED
      BY <2>2, <3>1 DEF n
  <2>5. QED
    BY <2>3, <2>4
<1>2. IdleSteps(o) = {active_step[o]} => Update(active_step[o], o, "complete") \in UpdateRecord
  <2>1. active_step[o] \in {0} \cup Steps /\ Steps \subseteq StepId
    BY StepsTyped DEF StepsOK, Owners, OwnedBy
  <2>2. QED
    BY <2>1 DEF IdleSteps, Update, UpdateRecord
<1>3. last \in UpdateRecord
  BY DEF ProgressSummary, Update, UpdateRecord
<1>4. first \in [1..n -> UpdateRecord] /\ n \in Nat
  BY <1>1, <1>2
<1>5. first \in Seq(UpdateRecord) /\ Len(first) = n
  BY <1>4, FunctionIsSeq
<1>6. <<last>> \in Seq(UpdateRecord) /\ Len(<<last>>) = 1 /\ <<last>>[1] = last
  BY <1>3
<1>7. updates' = first \o <<last>>
  BY DEF ProgressSummary
<1>8. \A i \in 1..n : first[i] = Update(active_step[o], o, "complete")
  OBVIOUS
<1> HIDE DEF n, first, last
<1>9. /\ updates' \in Seq(UpdateRecord) /\ Len(updates') = n + 1
      /\ \A i \in 1..(n + 1) : updates'[i] = IF i <= n THEN first[i] ELSE <<last>>[i - n]
  BY <1>5, <1>6, <1>7, ConcatProperties
<1>10. \A i \in 1..n : updates'[i] = Update(active_step[o], o, "complete")
  BY <1>4, <1>8, <1>9
<1>11. updates'[n + 1] = last
  BY <1>4, <1>6, <1>9
<1>12. QED
  BY <1>1, <1>9, <1>10, <1>11 DEF last

LEMMA ReportProgressProjects ==
  ASSUME StepsOK, AgentsOK, NEW o \in Owner, ReportProgress(o)
  PROVE  StepsOK' /\ AgentsOK' /\ Projected
<1> DEFINE new == Len(steps) + 1
<1>0. /\ ProgressSummary(o) /\ Published(o) /\ UNCHANGED <<agent, step_of_task, outcome>>
      /\ agent[o] = "running"
      /\ active_step' = [active_step EXCEPT ![o] = new]
  BY DEF ReportProgress, ProgressSummary, Publishing, Published
<1>1. /\ steps' \in Seq(Step) /\ Len(steps') = new /\ new \in StepId
      /\ Steps' = Steps \cup {new} /\ new \notin Steps
      /\ \A s \in Steps : /\ steps'[s].owner = steps[s].owner
                          /\ steps'[s].tools = steps[s].tools
                          /\ steps'[s].completed <=> steps[s].completed \/ s \in IdleSteps(o)
      /\ steps'[new].owner = o /\ ~steps'[new].completed
      /\ \A t \in Tool : steps'[new].tools[t] = "unseen"
  BY <1>0, SummarySteps
<1>2. \A s \in IdleSteps(o) : s \in Steps /\ steps[s].owner = o /\ s = active_step[o]
                              /\ \A t \in Tool : steps[s].tools[t] # "in_progress"
  BY DEF IdleSteps, HasToolInProgress, StepsOK, Owners, OwnedBy
<1>3. new \in Nat /\ MaxSteps \in Nat /\ new <= MaxSteps
  BY <1>1, StepsTyped DEF StepId
<1>4. \A p \in Owner : OwnedBy(p) \subseteq OwnedBy(p)'
  BY <1>1 DEF OwnedBy
<1>5. /\ crowded \subseteq crowded' /\ crowded' \subseteq Owner
      /\ \A r, s \in Steps' :
           /\ ~steps'[r].completed /\ ~steps'[s].completed
           /\ steps'[r].owner = steps'[s].owner /\ steps'[s].owner \notin crowded'
           => r = s
  <2>1. \A s \in Steps' : steps'[s].owner # o =>
          /\ s \in Steps /\ steps'[s].owner = steps[s].owner
          /\ ~steps'[s].completed => ~steps[s].completed
    BY <1>1
  <2>2. QED
    BY <1>0, <2>1, CrowdedKept
<1>6. StepsOK'
  <2>1. active_step' \in [Owner -> Nat] /\ Owners(active_step)'
    <3>1. new \in OwnedBy(o)'
      BY <1>1 DEF OwnedBy
    <3>2. QED
      BY <1>0, <1>3, <1>4, <3>1 DEF StepsOK, Owners
  <2>2. \A p \in Owner, t \in Tool : step_of_task'[p][t] \in {0} \cup OwnedBy(p)'
    BY <1>0, <1>4 DEF StepsOK
  <2>3. \A s \in Steps', t \in Tool : steps'[s].tools[t] = "in_progress" =>
          ~steps'[s].completed /\ step_of_task'[steps'[s].owner][t] = s
    <3> SUFFICES ASSUME NEW s \in Steps', NEW t \in Tool, steps'[s].tools[t] = "in_progress"
                 PROVE  ~steps'[s].completed /\ step_of_task'[steps'[s].owner][t] = s
      OBVIOUS
    <3>1. s \in Steps /\ steps[s].tools[t] = "in_progress"
      BY <1>1
    <3>2. s \notin IdleSteps(o)
      BY <1>2, <3>1
    <3>3. ~steps[s].completed /\ step_of_task[steps[s].owner][t] = s
      BY <3>1 DEF StepsOK
    <3>4. QED
      BY <1>0, <1>1, <3>1, <3>2, <3>3
  <2>4. QED
    BY <1>0, <1>1, <1>3, <1>5, <2>1, <2>2, <2>3 DEF StepsOK
<1>7. AgentsOK'
  <2>1. \A s \in Steps' : /\ agent[steps'[s].owner] # "idle"
                          /\ agent[steps'[s].owner] = "done" => steps'[s].completed
    BY <1>0, <1>1 DEF AgentsOK
  <2>2. \A t \in Tool : ToolRunning(Lead, t) => ToolRunning(Lead, t)'
    BY <1>0, <1>1, StreamAssumption DEF ToolRunning, StepsOK, OwnedBy
  <2>3. \A a \in SubAgent : SpawnCall[a] \in Tool
    BY StreamAssumption DEF SubAgent
  <2>4. QED
    BY <1>0, <2>1, <2>2, <2>3 DEF AgentsOK
<1>8. Projected
  <2>1. /\ updates' \in Seq(UpdateRecord)
        /\ \A i \in 1..Len(updates') :
             \/ i = Len(updates') /\ updates'[i] = Update(new, o, "in_progress")
             \/ /\ updates'[i] = Update(active_step[o], o, "complete")
                /\ IdleSteps(o) = {active_step[o]}
        /\ \A s \in IdleSteps(o) :
             \E i \in 1..Len(updates') : updates'[i] = Update(s, o, "complete")
    BY <1>0, SummaryUpdates
  <2>2. ASSUME NEW i \in 1..Len(updates')
        PROVE  UpdateOK(updates[i])' /\ (updates'[i].status = "in_progress" => i = Len(updates'))
    <3>1. updates'[i] \in UpdateRecord
      BY <2>1, <2>2, ElementOfSeq
    <3>2. CASE i = Len(updates') /\ updates'[i] = Update(new, o, "in_progress")
      BY <1>1, <3>1, <3>2 DEF UpdateOK, Update
    <3>3. CASE /\ updates'[i] = Update(active_step[o], o, "complete")
               /\ IdleSteps(o) = {active_step[o]}
      BY <1>1, <1>2, <3>1, <3>3 DEF UpdateOK, Update
    <3>4. QED
      BY <2>1, <3>2, <3>3
  <2>3. \A s \in Steps : ~steps[s].completed /\ steps'[s].completed => EndsIn(s)'
    BY <1>1, <1>2, <2>1 DEF EndsIn
  <2>4. QED
    BY <1>1, <1>5, <2>1, <2>2, <2>3 DEF Projected
<1>9. QED
  BY <1>6, <1>7, <1>8

\* The steps after a tool call has started: its step is open.
LEMMA StartedSteps ==
  ASSUME StepsOK, NEW o \in Owner, NEW t \in Tool, ToolStarted(o, t)
  PROVE  LET s == StepForTool(o, t) IN
         /\ s \in StepId /\ steps' \in Seq(Step) /\ Len(steps') <= MaxSteps
         /\ Steps' = Steps \cup {s}
         /\ s \in Steps => steps[s].owner = o
         /\ s \notin Steps => step_of_task[o][t] = 0 /\ active_step[o] = 0
         /\ step_of_task[o][t] # 0 => s = step_of_task[o][t]
         /\ \A r \in Steps \ {s} : steps'[r] = steps[r]
         /\ steps'[s].owner = o /\ ~steps'[s].completed /\ steps'[s].tools[t] = "in_progress"
         /\ \A u \in Tool \ {t} :
              steps'[s].tools[u] = IF s \in Steps THEN steps[s].tools[u] ELSE "unseen"
<1> DEFINE s == StepForTool(o, t)
           known == IF s > Len(steps) THEN Append(steps, NewStep(o)) ELSE steps
           started == [known[s] EXCEPT !.tools = [@ EXCEPT ![t] = "in_progress"],
                                       !.completed = FALSE]
<1>1. Len(steps) \in Nat /\ MaxSteps \in Nat /\ steps \in Seq(Step) /\ s \in StepId
  BY StepsTyped DEF StepsOK, ToolStarted
<1>2. /\ (s \in Steps /\ steps[s].owner = o) \/ s = Len(steps) + 1
      /\ s = Len(steps) + 1 => step_of_task[o][t] = 0 /\ active_step[o] = 0
      /\ step_of_task[o][t] # 0 => s = step_of_task[o][t]
  <2>1. step_of_task[o][t] \in {0} \cup OwnedBy(o) /\ active_step[o] \in {0} \cup OwnedBy(o)
    BY DEF StepsOK, Owners
  <2>2. Len(steps) + 1 \notin Steps
    BY <1>1 DEF Steps
  <2>3. QED
    BY <2>1, <2>2 DEF StepForTool, OwnedBy
<1>3. s > Len(steps) <=> s \notin Steps
  BY <1>1, <1>2 DEF Steps
<1> HIDE DEF s
<1>4. /\ known \in Seq(Step) /\ Len(known) = (IF s \in Steps THEN Len(steps) ELSE s)
      /\ s \in 1..Len(known)
      /\ \A r \in Steps : known[r] = steps[r]
      /\ s \notin Steps => known[s] = NewStep(o)
  <2>1. CASE s \in Steps
    BY <1>1, <1>3, <2>1 DEF Steps
  <2>2. CASE s \notin Steps
    <3>1. known = Append(steps, NewStep(o)) /\ s = Len(steps) + 1
      BY <1>2, <1>3, <2>2
    <3>2. QED
      BY <1>1, <2>2, <3>1, NewStepTyped, AppendProperties DEF Steps
  <2>3. QED
    BY <2>1, <2>2
<1>5. known[s].owner = o
  BY <1>2, <1>4, NewStepTyped DEF Steps
<1>6. known[s] \in Step
  BY <1>4, ElementOfSeq
<1>7. steps' = [known EXCEPT ![s] = started]
  BY <1>4 DEF ToolStarted, s
<1> HIDE DEF known
<1>8. /\ started \in Step /\ started.owner = o /\ ~started.completed
      /\ started.tools[t] = "in_progress"
      /\ \A u \in Tool \ {t} : started.tools[u] = known[s].tools[u]
  BY <1>5, <1>6 DEF Step
<1> HIDE DEF started
<1>9. /\ steps' \in Seq(Step) /\ Len(steps') = Len(known)
      /\ \A r \in 1..Len(known) : steps'[r] = IF r = s THEN started ELSE known[r]
  BY <1>4, <1>7, <1>8, ExceptSeq
<1>10. Steps' = Steps \cup {s} /\ Len(steps') <= MaxSteps
  BY <1>1, <1>2, <1>4, <1>9 DEF Steps, StepId, StepsOK
<1>11. \A r \in Steps \ {s} : steps'[r] = steps[r]
  BY <1>4, <1>9, <1>10 DEF Steps
<1>12. steps'[s] = started
  BY <1>4, <1>9
<1>13. \A u \in Tool \ {t} :
         steps'[s].tools[u] = IF s \in Steps THEN steps[s].tools[u] ELSE "unseen"
  BY <1>4, <1>8, <1>12, NewStepTyped
<1>14. QED
  BY <1>1, <1>2, <1>3, <1>8, <1>9, <1>10, <1>11, <1>12, <1>13 DEF s

LEMMA StartToolProjects ==
  ASSUME StepsOK, AgentsOK, NEW o \in Owner, NEW t \in Tool, StartTool(o, t)
  PROVE  StepsOK' /\ AgentsOK' /\ Projected
<1> DEFINE s == StepForTool(o, t)
<1>0. /\ ToolStarted(o, t) /\ Published(o) /\ UNCHANGED outcome
      /\ agent[o] = "running" /\ \A a \in SpawnedIn(o, t) : agent[a] = "idle"
      /\ agent' = [a \in Owner |-> IF a \in SpawnedIn(o, t) THEN "running" ELSE agent[a]]
      /\ active_step' = [active_step EXCEPT ![o] = IF s > Len(steps) THEN s ELSE @]
      /\ step_of_task' = [step_of_task EXCEPT ![o][t] = s]
      /\ updates' = <<Update(s, o, "in_progress")>>
  BY DEF StartTool, ToolStarted, Publishing, Published
<1>1. /\ s \in StepId /\ steps' \in Seq(Step) /\ Len(steps') <= MaxSteps
      /\ Steps' = Steps \cup {s}
      /\ s \in Steps => steps[s].owner = o
      /\ s \notin Steps => step_of_task[o][t] = 0 /\ active_step[o] = 0
      /\ step_of_task[o][t] # 0 => s = step_of_task[o][t]
      /\ \A r \in Steps \ {s} : steps'[r] = steps[r]
      /\ steps'[s].owner = o /\ ~steps'[s].completed /\ steps'[s].tools[t] = "in_progress"
      /\ \A u \in Tool \ {t} :
           steps'[s].tools[u] = IF s \in Steps THEN steps[s].tools[u] ELSE "unseen"
  BY <1>0, StartedSteps
<1> HIDE DEF s
<1>2. s \in Nat /\ s # 0 /\ s \in Steps'
  BY <1>1, StepsTyped DEF StepId
<1>3. \A r \in Steps : r \in Steps' /\ steps'[r].owner = steps[r].owner
  BY <1>1
<1>4. \A p \in Owner : OwnedBy(p) \subseteq OwnedBy(p)'
  BY <1>3 DEF OwnedBy
<1>5. s \in OwnedBy(o)'
  BY <1>1, <1>2 DEF OwnedBy
<1>6. /\ crowded \subseteq crowded' /\ crowded' \subseteq Owner
      /\ \A r, q \in Steps' :
           /\ ~steps'[r].completed /\ ~steps'[q].completed
           /\ steps'[r].owner = steps'[q].owner /\ steps'[q].owner \notin crowded'
           => r = q
  <2>1. \A r \in Steps' : steps'[r].owner # o =>
          /\ r \in Steps /\ steps'[r].owner = steps[r].owner
          /\ ~steps'[r].completed => ~steps[r].completed
    BY <1>1
  <2>2. QED
    BY <1>0, <2>1, CrowdedKept
<1>7. /\ step_of_task' \in [Owner -> [Tool -> Nat]]
      /\ step_of_task'[o][t] = s
      /\ \A p \in Owner, u \in Tool : (p # o \/ u # t) => step_of_task'[p][u] = step_of_task[p][u]
  BY <1>0, <1>2 DEF StepsOK
<1>8. StepsOK'
  <2>1. active_step' \in [Owner -> Nat] /\ Owners(active_step)'
    <3>1. /\ active_step \in [Owner -> Nat]
          /\ \A p \in Owner : active_step[p] \in {0} \cup OwnedBy(p)
      BY DEF StepsOK, Owners
    <3>2. /\ active_step' \in [Owner -> Nat]
          /\ \A p \in Owner :
               active_step'[p] = active_step[p] \/ (p = o /\ active_step'[p] = s)
      <4> DEFINE v == IF s > Len(steps) THEN s ELSE active_step[o]
      <4>1. active_step' = [active_step EXCEPT ![o] = v]
        BY <1>0
      <4>2. v \in {active_step[o], s}
        OBVIOUS
      <4> HIDE DEF v
      <4>3. v \in Nat
        BY <1>2, <3>1, <4>2
      <4>4. active_step' \in [Owner -> Nat]
        BY <3>1, <4>1, <4>3
      <4>5. active_step \in [Owner -> Nat]
        BY <3>1
      <4>6. active_step'[o] = v
        BY <4>1, <4>5
      <4>7. ASSUME NEW p \in Owner, p # o
            PROVE  active_step'[p] = active_step[p]
        BY <4>1, <4>5, <4>7
      <4>8. QED
        BY <4>2, <4>4, <4>6, <4>7
    <3>3. \A p \in Owner : active_step'[p] \in {0} \cup OwnedBy(p)'
      BY <1>4, <1>5, <3>1, <3>2
    <3>4. QED
      BY <3>2, <3>3 DEF Owners
  <2>2. ASSUME NEW p \in Owner, NEW u \in Tool
        PROVE  step_of_task'[p][u] \in {0} \cup OwnedBy(p)'
    <3>1. CASE p = o /\ u = t
      BY <1>5, <1>7, <3>1
    <3>2. CASE p # o \/ u # t
      <4>1. step_of_task'[p][u] = step_of_task[p][u]
        BY <1>7, <3>2
      <4>2. step_of_task[p][u] \in {0} \cup OwnedBy(p)
        BY DEF StepsOK
      <4>3. QED
        BY <1>4, <4>1, <4>2
    <3>3. QED
      BY <3>1, <3>2
  <2>3. ASSUME NEW r \in Steps', NEW u \in Tool, steps'[r].tools[u] = "in_progress"
        PROVE  ~steps'[r].completed /\ step_of_task'[steps'[r].owner][u] = r
    <3>1. CASE r = s /\ u = t
      BY <1>1, <1>7, <3>1
    <3>2. CASE r = s /\ u # t
      <4>1. s \in Steps /\ steps[s].tools[u] = "in_progress"
        BY <1>1, <2>3, <3>2
      <4>2. step_of_task[o][u] = s
        BY <1>1, <4>1 DEF StepsOK
      <4>3. QED
        BY <1>1, <1>7, <3>2, <4>2
    <3>3. CASE r # s
      <4>1. r \in Steps /\ steps[r].tools[u] = "in_progress" /\ steps'[r] = steps[r]
        BY <1>1, <2>3, <3>3
      <4>2. /\ ~steps[r].completed /\ step_of_task[steps[r].owner][u] = r
            /\ steps[r].owner \in Owner /\ r # 0
        BY <4>1, StepsTyped DEF StepsOK, Step
      <4>3. steps[r].owner # o \/ u # t
        BY <1>1, <3>3, <4>2
      <4>4. QED
        BY <1>7, <4>1, <4>2, <4>3
    <3>4. QED
      BY <3>1, <3>2, <3>3
  <2>4. QED
    BY <1>1, <1>6, <1>7, <2>1, <2>2, <2>3 DEF StepsOK
<1>9. AgentsOK'
  <2>1. agent' \in [Owner -> {"idle", "running", "done", "failed"}]
    BY <1>0 DEF AgentsOK
  <2>2. agent'[Lead] = agent[Lead] /\ Lead \in Owner
    BY <1>0, StreamAssumption DEF SpawnedIn, SubAgent
  <2>3. agent'[o] = "running"
    BY <1>0
  <2>4. ASSUME NEW r \in Steps'
        PROVE  /\ agent'[steps'[r].owner] # "idle"
               /\ agent'[steps'[r].owner] = "done" => steps'[r].completed
    <3>1. CASE steps'[r].owner = o
      BY <2>3, <3>1
    <3>2. CASE steps'[r].owner # o
      <4>1. r \in Steps /\ steps'[r] = steps[r] /\ steps[r].owner \in Owner
        BY <1>1, <2>4, <3>2, StepsTyped DEF Step
      <4>2. QED
        BY <1>0, <4>1 DEF AgentsOK
    <3>3. QED
      BY <3>1, <3>2
  <2>5. ASSUME NEW a \in SubAgent, agent'[a] = "running"
        PROVE  ToolRunning(Lead, SpawnCall[a])'
    <3>0. SpawnCall[a] \in Tool /\ a \in Owner
      BY StreamAssumption DEF SubAgent
    <3>1. CASE o = Lead /\ SpawnCall[a] = t
      BY <1>1, <1>2, <1>7, <3>1 DEF ToolRunning
    <3>2. CASE ~(o = Lead /\ SpawnCall[a] = t)
      <4>1. agent[a] = "running"
        BY <1>0, <2>5, <3>0, <3>2 DEF SpawnedIn
      <4>2. ToolRunning(Lead, SpawnCall[a])
        BY <4>1 DEF AgentsOK
      <4> DEFINE r == step_of_task[Lead][SpawnCall[a]]
      <4>3. r \in Steps /\ r # 0 /\ steps[r].tools[SpawnCall[a]] = "in_progress"
            /\ steps[r].owner = Lead
        BY <2>2, <3>0, <4>2 DEF ToolRunning, StepsOK, OwnedBy
      <4>4. step_of_task'[Lead][SpawnCall[a]] = r
        BY <1>7, <2>2, <3>0, <3>2
      <4> HIDE DEF r
      <4>5. steps'[r].tools[SpawnCall[a]] = "in_progress"
        BY <1>1, <3>0, <4>3
      <4>6. QED
        BY <4>3, <4>4, <4>5 DEF ToolRunning
    <3>3. QED
      BY <3>1, <3>2
  <2>6. QED
    BY <1>0, <2>1, <2>2, <2>4, <2>5 DEF AgentsOK
<1>10. Projected
  <2>1. Update(s, o, "in_progress") \in UpdateRecord
    BY <1>1 DEF Update, UpdateRecord
  <2>2. /\ updates' \in Seq(UpdateRecord) /\ Len(updates') = 1
        /\ \A i \in 1..Len(updates') :
             i = Len(updates') /\ updates'[i] = Update(s, o, "in_progress")
    BY <1>0, <2>1, OneUpdate
  <2>3. \A i \in 1..Len(updates') : UpdateOK(updates[i])'
    BY <1>1, <1>2, <2>1, <2>2 DEF UpdateOK, Update
  <2>4. QED
    BY <1>1, <1>3, <1>6, <2>2, <2>3 DEF Projected
<1>11. QED
  BY <1>8, <1>9, <1>10

LEMMA FinishToolProjects ==
  ASSUME StepsOK, AgentsOK, NEW o \in Owner, NEW t \in Tool, FinishTool(o, t)
  PROVE  StepsOK' /\ AgentsOK' /\ Projected
<1> DEFINE s == step_of_task[o][t]
           finished == [steps[s] EXCEPT !.tools = [@ EXCEPT ![t] = "complete"]]
<1>0. /\ ToolCompleted(o, t) /\ Published(o)
      /\ UNCHANGED <<outcome, agent, active_step, step_of_task>>
      /\ ToolRunning(o, t) /\ agent[o] = "running"
      /\ \A a \in SpawnedIn(o, t) : agent[a] \in {"done", "failed"}
  BY DEF FinishTool, ToolCompleted, Publishing, Published
<1>1. /\ s \in Steps /\ steps[s].owner = o /\ s # 0
      /\ steps[s].tools[t] = "in_progress" /\ ~steps[s].completed
      /\ s \in StepId
  BY <1>0, StepsTyped DEF ToolRunning, StepsOK, OwnedBy
<1>2. steps' = [steps EXCEPT ![s] = finished]
  BY <1>0 DEF ToolCompleted
<1>3. /\ finished \in Step /\ finished.owner = o /\ ~finished.completed
      /\ \A u \in Tool : finished.tools[u] = IF u = t THEN "complete" ELSE steps[s].tools[u]
  BY <1>1, StepsTyped DEF Step
<1> HIDE DEF finished
<1>4. /\ steps' \in Seq(Step) /\ Len(steps') = Len(steps) /\ Steps' = Steps
      /\ \A r \in Steps : steps'[r] = IF r = s THEN finished ELSE steps[r]
  BY <1>1, <1>2, <1>3, ExceptSeq DEF Steps, StepsOK
<1>5. /\ \A r \in Steps : /\ steps'[r].owner = steps[r].owner
                          /\ steps'[r].completed <=> steps[r].completed
      /\ \A r \in Steps, u \in Tool : (r # s \/ u # t) => steps'[r].tools[u] = steps[r].tools[u]
      /\ steps'[s].tools[t] = "complete"
  BY <1>1, <1>3, <1>4
<1>6. \A p \in Owner : OwnedBy(p)' = OwnedBy(p)
  BY <1>4, <1>5 DEF OwnedBy
<1>7. /\ crowded \subseteq crowded' /\ crowded' \subseteq Owner
      /\ \A r, q \in Steps' :
           /\ ~steps'[r].completed /\ ~steps'[q].completed
           /\ steps'[r].owner = steps'[q].owner /\ steps'[q].owner \notin crowded'
           => r = q
  <2>1. \A r \in Steps' : steps'[r].owner # o =>
          /\ r \in Steps /\ steps'[r].owner = steps[r].owner
          /\ ~steps'[r].completed => ~steps[r].completed
    BY <1>4, <1>5
  <2>2. QED
    BY <1>0, <2>1, CrowdedKept
<1>8. StepsOK'
  <2>1. active_step' \in [Owner -> Nat] /\ Owners(active_step)'
    BY <1>0, <1>6 DEF StepsOK, Owners
  <2>2. \A p \in Owner, u \in Tool : step_of_task'[p][u] \in {0} \cup OwnedBy(p)'
    BY <1>0, <1>6 DEF StepsOK
  <2>3. ASSUME NEW r \in Steps', NEW u \in Tool, steps'[r].tools[u] = "in_progress"
        PROVE  ~steps'[r].completed /\ step_of_task'[steps'[r].owner][u] = r
    <3>1. r \in Steps /\ steps[r].tools[u] = "in_progress"
      BY <1>4, <1>5, <2>3
    <3>2. ~steps[r].completed /\ step_of_task[steps[r].owner][u] = r
      BY <3>1 DEF StepsOK
    <3>3. QED
      BY <1>0, <1>5, <3>1, <3>2
  <2>4. QED
    BY <1>0, <1>4, <1>7, <2>1, <2>2, <2>3 DEF StepsOK
<1>9. AgentsOK'
  <2>1. \A r \in Steps' : /\ agent[steps'[r].owner] # "idle"
                          /\ agent[steps'[r].owner] = "done" => steps'[r].completed
    BY <1>4, <1>5 DEF AgentsOK
  <2>2. ASSUME NEW a \in SubAgent, agent[a] = "running"
        PROVE  ToolRunning(Lead, SpawnCall[a])'
    <3>0. SpawnCall[a] \in Tool /\ Lead \in Owner
      BY StreamAssumption DEF SubAgent
    <3>1. ~(o = Lead /\ SpawnCall[a] = t)
      BY <1>0, <2>2 DEF SpawnedIn
    <3>2. ToolRunning(Lead, SpawnCall[a])
      BY <2>2 DEF AgentsOK
    <3> DEFINE r == step_of_task[Lead][SpawnCall[a]]
    <3>3. r \in Steps /\ r # 0 /\ steps[r].tools[SpawnCall[a]] = "in_progress"
          /\ steps[r].owner = Lead
      BY <3>0, <3>2 DEF ToolRunning, StepsOK, OwnedBy
    <3>4. step_of_task'[Lead][SpawnCall[a]] = r
      BY <1>0
    <3> HIDE DEF r
    <3>5. steps'[r].tools[SpawnCall[a]] = "in_progress"
      BY <1>1, <1>5, <3>0, <3>1, <3>3
    <3>6. QED
      BY <3>3, <3>4, <3>5 DEF ToolRunning
  <2>3. QED
    BY <1>0, <2>1, <2>2 DEF AgentsOK
<1>10. Projected
  <2>1. Update(s, o, "in_progress") \in UpdateRecord
    BY <1>1 DEF Update, UpdateRecord
  <2>2. /\ updates' \in Seq(UpdateRecord)
        /\ \A i \in 1..Len(updates') :
             i = Len(updates') /\ updates'[i] = Update(s, o, "in_progress")
    <3>1. updates' = <<Update(s, o, "in_progress")>> \/ updates' = <<>>
      BY <1>0 DEF ToolCompleted
    <3>2. CASE updates' = <<Update(s, o, "in_progress")>>
      BY <2>1, <3>2, OneUpdate
    <3>3. CASE updates' = <<>>
      BY <3>3
    <3>4. QED
      BY <3>1, <3>2, <3>3
  <2>3. \A i \in 1..Len(updates') : UpdateOK(updates[i])'
    BY <1>1, <1>4, <1>5, <2>1, <2>2 DEF UpdateOK, Update
  <2>4. QED
    BY <1>4, <1>5, <1>7, <2>2, <2>3 DEF Projected
<1>11. QED
  BY <1>8, <1>9, <1>10

\* An order of a set has each of its elements.
LEMMA OrderHasAll ==
  ASSUME NEW S, IsFiniteSet(S), NEW order \in SetToSeqs(S)
  PROVE  /\ order \in Seq(S)
         /\ \A s \in S : \E i \in 1..Len(order) : order[i] = s
<1> DEFINE n == Cardinality(S)
           D == 1..n
<1>1. n \in Nat
  BY FS_CardinalityType
<1>2. order \in [D -> S] /\ \A i, j \in D : i # j => order[i] # order[j]
  BY DEF SetToSeqs
<1>3. order \in Seq(S) /\ Len(order) = n
  BY <1>1, <1>2, FunctionIsSeq
<1>4. IsFiniteSet(D) /\ Cardinality(D) = n
  <2>1. IsFiniteSet(1..n) /\ Cardinality(1..n) = IF 1 > n THEN 0 ELSE n - 1 + 1
    BY <1>1, FS_Interval
  <2> HIDE DEF n
  <2>2. QED
    BY <1>1, <2>1
<1>5. ASSUME NEW s \in S, \A i \in D : order[i] # s
      PROVE  FALSE
  <2>1. order \in [D -> S \ {s}]
    BY <1>2, <1>5
  <2>2. IsFiniteSet(S \ {s}) /\ Cardinality(S \ {s}) = n - 1
    BY <1>5, FS_RemoveElement
  <2> HIDE DEF n, D
  <2>3. Cardinality(S \ {s}) < Cardinality(D)
    BY <1>1, <1>4, <2>2
  <2>4. \E x, y \in D : x # y /\ order[x] = order[y]
    BY <1>4, <2>1, <2>2, <2>3, FS_PigeonHole
  <2>5. QED
    BY <1>2, <2>4
<1>6. QED
  BY <1>3, <1>5

LEMMA AnswerProjects ==
  ASSUME StepsOK, AgentsOK, NEW o \in Owner, Answer(o)
  PROVE  StepsOK' /\ AgentsOK' /\ Projected
<1>0. /\ MessageOutputCreated(o) /\ Published(o) /\ UNCHANGED <<outcome, step_of_task>>
      /\ outcome = "running" /\ agent[o] = "running"
      /\ \A t \in Tool : ~ToolRunning(o, t)
      /\ agent' = [agent EXCEPT ![o] = "done"]
      /\ steps' = MarkCompleted(OpenSteps(o))
      /\ active_step' = [active_step EXCEPT ![o] = 0]
  BY DEF Answer, MessageOutputCreated, Publishing, Published
<1>1. \A s \in Steps : s \in OpenSteps(o) <=> steps[s].owner = o /\ ~steps[s].completed
  BY DEF OpenSteps, Steps
<1>2. /\ steps' \in Seq(Step) /\ Len(steps') = Len(steps) /\ Steps' = Steps
      /\ \A s \in Steps : /\ steps'[s].owner = steps[s].owner
                          /\ steps'[s].tools = steps[s].tools
                          /\ steps'[s].completed <=> steps[s].completed \/ s \in OpenSteps(o)
  BY <1>0, MarkedCompleted DEF Steps
<1>3. \A s \in Steps, t \in Tool : steps[s].tools[t] = "in_progress" => steps[s].owner # o
  <2> SUFFICES ASSUME NEW s \in Steps, NEW t \in Tool, steps[s].tools[t] = "in_progress",
                      steps[s].owner = o
               PROVE  FALSE
    OBVIOUS
  <2>1. step_of_task[o][t] = s /\ s # 0
    BY StepsTyped DEF StepsOK
  <2>2. QED
    BY <1>0, <2>1 DEF ToolRunning
<1>4. \A p \in Owner : OwnedBy(p)' = OwnedBy(p)
  BY <1>2 DEF OwnedBy
<1>5. /\ crowded \subseteq crowded' /\ crowded' \subseteq Owner
      /\ \A r, s \in Steps' :
           /\ ~steps'[r].completed /\ ~steps'[s].completed
           /\ steps'[r].owner = steps'[s].owner /\ steps'[s].owner \notin crowded'
           => r = s
  <2>1. \A s \in Steps' : steps'[s].owner # o =>
          /\ s \in Steps /\ steps'[s].owner = steps[s].owner
          /\ ~steps'[s].completed => ~steps[s].completed
    BY <1>2
  <2>2. QED
    BY <1>0, <2>1, CrowdedKept
<1>6. StepsOK'
  <2>1. active_step' \in [Owner -> Nat] /\ Owners(active_step)'
    BY <1>0, <1>4 DEF StepsOK, Owners
  <2>2. \A p \in Owner, t \in Tool : step_of_task'[p][t] \in {0} \cup OwnedBy(p)'
    BY <1>0, <1>4 DEF StepsOK
  <2>3. ASSUME NEW s \in Steps', NEW t \in Tool, steps'[s].tools[t] = "in_progress"
        PROVE  ~steps'[s].completed /\ step_of_task'[steps'[s].owner][t] = s
    <3>1. s \in Steps /\ steps[s].tools[t] = "in_progress" /\ steps[s].owner # o
      BY <1>2, <1>3, <2>3
    <3>2. ~steps[s].completed /\ step_of_task[steps[s].owner][t] = s
      BY <3>1 DEF StepsOK
    <3>3. QED
      BY <1>0, <1>1, <1>2, <3>1, <3>2
  <2>4. QED
    BY <1>0, <1>2, <1>5, <2>1, <2>2, <2>3 DEF StepsOK
<1>7. AgentsOK'
  <2>1. /\ agent' \in [Owner -> {"idle", "running", "done", "failed"}]
        /\ agent'[o] = "done" /\ \A p \in Owner \ {o} : agent'[p] = agent[p]
    BY <1>0 DEF AgentsOK
  <2>2. ASSUME NEW s \in Steps'
        PROVE  /\ agent'[steps'[s].owner] # "idle"
               /\ agent'[steps'[s].owner] = "done" => steps'[s].completed
    <3>1. s \in Steps /\ steps'[s].owner = steps[s].owner /\ steps[s].owner \in Owner
      BY <1>2, StepsTyped DEF Step
    <3>2. CASE steps[s].owner = o
      BY <1>1, <1>2, <2>1, <3>1, <3>2
    <3>3. CASE steps[s].owner # o
      BY <1>2, <2>1, <3>1, <3>3 DEF AgentsOK
    <3>4. QED
      BY <3>2, <3>3
  <2>3. ASSUME NEW a \in SubAgent, agent'[a] = "running"
        PROVE  ToolRunning(Lead, SpawnCall[a])'
    <3>0. SpawnCall[a] \in Tool /\ Lead \in Owner /\ a \in Owner
      BY StreamAssumption DEF SubAgent
    <3>1. agent[a] = "running"
      BY <2>1, <2>3, <3>0
    <3>2. ToolRunning(Lead, SpawnCall[a])
      BY <3>1 DEF AgentsOK
    <3> DEFINE r == step_of_task[Lead][SpawnCall[a]]
    <3>3. r \in Steps /\ r # 0 /\ steps[r].tools[SpawnCall[a]] = "in_progress"
      BY <3>0, <3>2 DEF ToolRunning, StepsOK, OwnedBy
    <3>4. step_of_task'[Lead][SpawnCall[a]] = r
      BY <1>0
    <3> HIDE DEF r
    <3>5. steps'[r].tools[SpawnCall[a]] = "in_progress"
      BY <1>2, <3>3
    <3>6. QED
      BY <3>3, <3>4, <3>5 DEF ToolRunning
  <2>4. agent'[Lead] \in {"running", "done"}
    BY <2>1, StreamAssumption DEF AgentsOK
  <2>5. QED
    BY <1>0, <2>1, <2>2, <2>3, <2>4 DEF AgentsOK
<1>8. Projected
  <2>1. PICK order \in SetToSeqs(OpenSteps(o)) :
          updates' = [i \in 1..Len(order) |-> Update(order[i], o, "complete")]
    BY <1>0 DEF MessageOutputCreated
  <2>2. IsFiniteSet(OpenSteps(o)) /\ OpenSteps(o) \subseteq Steps
    <3>1. IsFiniteSet(1..Len(steps))
      BY FS_Interval, StepsTyped
    <3>2. OpenSteps(o) \subseteq 1..Len(steps)
      BY DEF OpenSteps
    <3>3. QED
      BY <3>1, <3>2, FS_Subset DEF Steps
  <2>3. /\ order \in Seq(OpenSteps(o))
        /\ \A s \in OpenSteps(o) : \E i \in 1..Len(order) : order[i] = s
    BY <2>2, OrderHasAll
  <2>4. Len(order) \in Nat /\ \A i \in 1..Len(order) : order[i] \in OpenSteps(o)
    BY <2>3, LenProperties, ElementOfSeq
  <2>5. \A i \in 1..Len(order) : Update(order[i], o, "complete") \in UpdateRecord
    BY <2>2, <2>4, StepsTyped DEF Update, UpdateRecord
  <2>6. updates' \in [1..Len(order) -> UpdateRecord]
    BY <2>1, <2>5
  <2>7. updates' \in Seq(UpdateRecord) /\ Len(updates') = Len(order)
    BY <2>4, <2>6, FunctionIsSeq
  <2>8. \A i \in 1..Len(updates') : updates'[i] = Update(order[i], o, "complete")
    BY <2>1, <2>7
  <2>9. ASSUME NEW i \in 1..Len(updates')
        PROVE  UpdateOK(updates[i])' /\ updates'[i].status # "in_progress"
    <3>1. /\ order[i] \in Steps /\ steps[order[i]].owner = o
          /\ updates'[i] \in UpdateRecord /\ updates'[i] = Update(order[i], o, "complete")
      BY <1>1, <2>2, <2>4, <2>5, <2>7, <2>8
    <3>2. QED
      BY <1>2, <3>1 DEF UpdateOK, Update
  <2>10. \A s \in Steps : ~steps[s].completed /\ steps'[s].completed => EndsIn(s)'
    <3> SUFFICES ASSUME NEW s \in Steps, ~steps[s].completed, steps'[s].completed
                 PROVE  EndsIn(s)'
      OBVIOUS
    <3>1. s \in OpenSteps(o) /\ steps'[s].owner = o
      BY <1>1, <1>2
    <3>2. PICK i \in 1..Len(order) : order[i] = s
      BY <2>3, <3>1
    <3>3. QED
      BY <2>7, <2>8, <3>1, <3>2 DEF EndsIn
  <2>11. QED
    BY <1>2, <1>5, <2>7, <2>9, <2>10 DEF Projected
<1>9. QED
  BY <1>6, <1>7, <1>8

LEMMA EventKeepsInv ==
  ASSUME StreamInv, NEW o \in Owner,
         ReportProgress(o) \/ Answer(o) \/ \E t \in Tool : StartTool(o, t) \/ FinishTool(o, t)
  PROVE  StreamInv'
<1>1. StepsOK' /\ AgentsOK' /\ Projected
  BY ReportProgressProjects, AnswerProjects, StartToolProjects, FinishToolProjects DEF StreamInv
<1>2. /\ updates = <<>> /\ call = NoCall /\ outcome = "running"
      /\ UNCHANGED <<outcome, active_scopes, stream_ts, stream_stopped, call, messages,
                     faults, abandoned>>
  BY DEF ReportProgress, Answer, StartTool, FinishTool, Publishing, Published,
         reporterVars, lifecycleVars, slackVars
<1>3. QED
  BY <1>1, <1>2, EventKeepsRest DEF StreamInv

(***************************************************************************)
(* An update is applied: it is the call that is under way.                  *)
(***************************************************************************)

\* What the reporter has done when it turns to Slack.
Applied ==
  LET u == call'.update IN
  /\ UpdateOK(u) /\ outcome = "running" /\ call = NoCall
  /\ updates' \in Seq(UpdateRecord) /\ Len(updates) = Len(updates') + 1
  /\ updates[1] = u
  /\ \A i \in 1..Len(updates') : updates'[i] = updates[i + 1]
  /\ u.status = "in_progress" => Len(updates') = 0
  /\ active_scopes' \in [Owner -> Nat]
  /\ \A o \in Owner \ {u.owner} : active_scopes'[o] = active_scopes[o]
  /\ active_scopes'[u.owner] = IF u.status = "in_progress" THEN u.step
                               ELSE IF active_scopes[u.owner] = u.step THEN 0
                               ELSE active_scopes[u.owner]
  /\ call' = Call(call'.op, u, active_scopes)
  /\ call'.op \in {"start", "append", "rotate_stop"}
  /\ call'.op = "start" <=> stream_ts = 0
  /\ UNCHANGED <<steps, active_step, step_of_task, stream_ts, stream_stopped, messages,
                 faults, abandoned, agent, outcome, crowded>>

LEMMA ApplyApplies ==
  ASSUME StepsOK, BatchOK, Apply
  PROVE  Applied
<1> DEFINE u == Head(updates)
<1>1. /\ updates \in Seq(UpdateRecord) /\ updates # <<>> /\ updates' = Tail(updates)
      /\ active_scopes \in [Owner -> Nat]
      /\ \A i \in 1..Len(updates) :
           UpdateOK(updates[i]) /\ (updates[i].status = "in_progress" => i = Len(updates))
      /\ outcome = "running"
  BY DEF Apply, BatchOK
<1>2. /\ u \in UpdateRecord /\ updates[1] = u
      /\ updates' \in Seq(UpdateRecord) /\ Len(updates') \in Nat
      /\ Len(updates) = Len(updates') + 1
      /\ \A i \in 1..Len(updates') : updates'[i] = updates[i + 1]
  BY <1>1, HeadTailProperties
<1>3. active_scopes' = ScopesAfter(u) /\ call = NoCall
  BY DEF Apply
<1> DEFINE op == IF stream_ts = 0 THEN "start" ELSE IF RotationDue THEN "rotate_stop" ELSE "append"
<1>4. call' = Call(op, u, active_scopes)
  BY DEF Apply
<1>5. /\ op \in {"start", "append", "rotate_stop"}
      /\ op = "start" <=> stream_ts = 0
  OBVIOUS
<1>6. UNCHANGED <<steps, active_step, step_of_task, stream_ts, stream_stopped, messages,
                  faults, abandoned, agent, outcome, crowded>>
  BY DEF Apply, lifecycleVars, slackVars, agentVars
<1> HIDE DEF u, op
<1>7. UpdateOK(u) /\ (u.status = "in_progress" => Len(updates') = 0)
  <2>1. 1 \in 1..Len(updates)
    BY <1>2
  <2>2. UpdateOK(updates[1]) /\ (updates[1].status = "in_progress" => 1 = Len(updates))
    BY <1>1, <2>1
  <2>3. QED
    BY <1>2, <2>2
<1>8. call'.op = op /\ call'.update = u /\ call'.before = active_scopes
  BY <1>4 DEF Call
<1>9. u.owner \in Owner /\ u.step \in Nat
  BY <1>2, StreamAssumption DEF UpdateRecord, StepId
<1>10. /\ active_scopes' \in [Owner -> Nat]
       /\ \A o \in Owner \ {u.owner} : active_scopes'[o] = active_scopes[o]
       /\ active_scopes'[u.owner] = IF u.status = "in_progress" THEN u.step
                                    ELSE IF active_scopes[u.owner] = u.step THEN 0
                                    ELSE active_scopes[u.owner]
  BY <1>1, <1>3, <1>9 DEF ScopesAfter
<1>11. QED
  BY <1>1, <1>2, <1>3, <1>4, <1>5, <1>6, <1>7, <1>8, <1>10 DEF Applied

\* The update that is applied is no longer to come; the others are.
StillEndsIn(s) ==
  \E i \in 1..Len(updates') : updates'[i] = Update(s, steps[s].owner, "complete")

LEMMA StillToCome ==
  ASSUME Applied
  PROVE  \A s : EndsIn(s) =>
           StillEndsIn(s) \/ call'.update = Update(s, steps[s].owner, "complete")
<1>1. /\ Len(updates') \in Nat /\ Len(updates) = Len(updates') + 1
      /\ updates[1] = call'.update
      /\ \A i \in 1..Len(updates') : updates'[i] = updates[i + 1]
      /\ steps' = steps
  BY LenProperties DEF Applied
<1>2. \A i \in 1..Len(updates) :
        \/ updates[i] = call'.update
        \/ \E j \in 1..Len(updates') : updates'[j] = updates[i]
  <2> SUFFICES ASSUME NEW i \in 1..Len(updates), i # 1
               PROVE  \E j \in 1..Len(updates') : updates'[j] = updates[i]
    BY <1>1
  <2>1. i - 1 \in 1..Len(updates') /\ updates'[i - 1] = updates[i]
    BY <1>1
  <2>2. QED
    BY <2>1
<1>3. QED
  BY <1>1, <1>2 DEF EndsIn, StillEndsIn

LEMMA ApplyKeepsInv ==
  ASSUME StreamInv, Apply
  PROVE  StreamInv'
<1> DEFINE u == call'.update
<1>0. /\ StepsOK /\ AgentsOK /\ BatchOK /\ CallOK /\ MessagesOK /\ ShownOK
      /\ Applied
  BY ApplyApplies DEF StreamInv
<1>1. /\ UpdateOK(u) /\ outcome = "running" /\ ~Updating /\ call.op = "none"
      /\ call.update = NoUpdate
      /\ u.owner \in Owner /\ u.step \in Steps /\ steps[u.step].owner = u.owner
      /\ u.status = "in_progress" => ~steps[u.step].completed
      /\ call' = Call(call'.op, u, call'.before)
      /\ call'.op \in {"start", "append", "rotate_stop"}
      /\ call'.op = "start" <=> stream_ts = 0
      /\ call'.before = active_scopes
      /\ Updating'
  BY <1>0 DEF Applied, Updating, UpdateOK, UpdateRecord, NoCall, Call
<1>2. UNCHANGED <<steps, active_step, step_of_task, stream_ts, stream_stopped, messages,
                  faults, abandoned, agent, outcome, crowded>>
  BY <1>0 DEF Applied
<1>3. /\ active_scopes \in [Owner -> Nat] /\ active_scopes' \in [Owner -> Nat]
      /\ \A o \in Owner \ {u.owner} : active_scopes'[o] = active_scopes[o]
      /\ active_scopes'[u.owner] = IF u.status = "in_progress" THEN u.step
                                   ELSE IF active_scopes[u.owner] = u.step THEN 0
                                   ELSE active_scopes[u.owner]
  BY <1>0 DEF Applied, BatchOK
<1>4. \A o \in Owner : active_scopes[o] # 0 => active_scopes[o] \in OwnedBy(o)
  BY <1>0 DEF BatchOK, Owners
<1>5. \A s : EndsIn(s) => StillEndsIn(s) \/ u = Update(s, steps[s].owner, "complete")
  BY <1>0, StillToCome
\* A scope that is still there was not ended by the update.
<1>6. \A o \in Owner : active_scopes'[o] # 0 =>
        \/ o = u.owner /\ active_scopes'[o] = u.step /\ u.status = "in_progress"
        \/ /\ active_scopes'[o] = active_scopes[o]
           /\ ~(u.owner = o /\ u.status = "in_progress")
           /\ u # Update(active_scopes[o], o, "complete")
  BY <1>3 DEF Update
<1>7. StepsOK' /\ AgentsOK'
  BY <1>0, <1>2, StepsKept, AgentsKept DEF AgentsOK
<1>8. BatchOK'
  <2>1. /\ updates' \in Seq(UpdateRecord) /\ Len(updates') \in Nat
        /\ Len(updates) = Len(updates') + 1 /\ updates[1] = u
        /\ \A i \in 1..Len(updates') : updates'[i] = updates[i + 1]
        /\ u.status = "in_progress" => Len(updates') = 0
    BY <1>0, LenProperties DEF Applied
  <2>2. \A i \in 1..Len(updates') :
          UpdateOK(updates[i])' /\ (updates'[i].status = "in_progress" => i = Len(updates'))
    <3> SUFFICES ASSUME NEW i \in 1..Len(updates')
                 PROVE  UpdateOK(updates[i])' /\ (updates'[i].status = "in_progress" => i = Len(updates'))
      OBVIOUS
    <3>1. /\ i + 1 \in 1..Len(updates) /\ updates'[i] = updates[i + 1]
          /\ i + 1 = Len(updates) => i = Len(updates')
      BY <2>1
    <3>2. UpdateOK(updates[i + 1]) /\ (updates[i + 1].status = "in_progress" => i + 1 = Len(updates))
      BY <1>0, <3>1 DEF BatchOK
    <3>3. UpdateOK(updates[i])'
      BY <1>2, <3>1, <3>2 DEF UpdateOK, Steps
    <3>4. QED
      BY <3>1, <3>2, <3>3
  <2>3. Owners(active_scopes)'
    <3>1. \A o \in Owner : active_scopes'[o] # 0 => active_scopes'[o] \in OwnedBy(o)
      BY <1>1, <1>4, <1>6 DEF OwnedBy
    <3>2. QED
      BY <1>2, <3>1 DEF Owners, OwnedBy, Steps
  <2>4. ASSUME NEW o \in Owner, active_scopes'[o] # 0, steps'[active_scopes'[o]].completed
        PROVE  EndsIn(active_scopes[o])'
    <3>1. /\ active_scopes'[o] = active_scopes[o]
          /\ ~(u.owner = o /\ u.status = "in_progress")
          /\ u # Update(active_scopes[o], o, "complete")
      BY <1>1, <1>2, <1>6, <2>4
    <3>2. steps[active_scopes[o]].owner = o
      BY <1>4, <2>4, <3>1 DEF OwnedBy
    <3>3. EndsIn(active_scopes[o])
      BY <1>0, <1>2, <2>4, <3>1 DEF BatchOK
    <3>4. StillEndsIn(active_scopes'[o])
      BY <1>5, <3>1, <3>2, <3>3
    <3>5. QED
      BY <1>2, <3>4 DEF EndsIn, StillEndsIn
  <2>5. ASSUME NEW i \in 1..Len(updates'), NEW o, o = updates'[i].owner,
               updates'[i].status = "in_progress", o \notin crowded',
               active_scopes'[o] \notin {0, updates'[i].step}
        PROVE  EndsIn(active_scopes[o])'
    <3>1. o \in Owner
      <4>1. updates'[i] \in UpdateRecord
        BY <2>1, <2>5, ElementOfSeq
      <4>2. QED
        BY <2>5, <4>1 DEF UpdateRecord
    <3>2. u.status # "in_progress"
      BY <2>1, <2>5
    <3>3. /\ active_scopes'[o] = active_scopes[o] /\ active_scopes[o] # 0
          /\ u # Update(active_scopes[o], o, "complete")
      BY <1>6, <2>5, <3>1, <3>2
    <3>4. steps[active_scopes[o]].owner = o
      BY <1>4, <3>1, <3>3 DEF OwnedBy
    <3>5. i + 1 \in 1..Len(updates) /\ updates'[i] = updates[i + 1]
      BY <2>1
    <3>6. EndsIn(active_scopes[o])
      BY <1>0, <1>2, <2>5, <3>3, <3>5 DEF BatchOK
    <3>7. StillEndsIn(active_scopes'[o])
      BY <1>5, <3>3, <3>4, <3>6
    <3>8. QED
      BY <1>2, <3>7 DEF EndsIn, StillEndsIn
  <2>6. QED
    BY <1>1, <1>2, <1>3, <2>1, <2>2, <2>3, <2>4, <2>5 DEF BatchOK
<1>9. CallOK'
  <2>1. UpdateOK(call.update)'
    BY <1>1, <1>2 DEF UpdateOK, Steps
  <2>2. Owners(active_scopes) /\ Owners(call.before)'
    BY <1>0, <1>1, <1>2 DEF BatchOK, Owners, OwnedBy, Steps
  <2>3. ASSUME u.status = "in_progress", u.owner \notin crowded
        PROVE  active_scopes[u.owner] \in {0, u.step}
    <3>1. Len(updates) = 1 /\ updates[1] = u
      BY <1>0, <2>3 DEF Applied
    <3>2. ~EndsIn(active_scopes[u.owner])
      BY <2>3, <3>1 DEF EndsIn, Update
    <3>3. QED
      BY <1>0, <2>3, <3>1, <3>2 DEF BatchOK
  <2>4. call'.op \in Ops /\ call'.op # "none" /\ call'.op # "stop"
    BY <1>1 DEF Ops
  <2>5. QED
    BY <1>1, <1>2, <1>3, <2>1, <2>2, <2>3, <2>4 DEF CallOK
<1>10. MessagesOK'
  BY <1>0, <1>1, <1>2 DEF MessagesOK, NoStreamLeftOpen, AllAbandoned, Steps
<1>11. ShownOK'
  <2> SUFFICES ASSUME faults = 0
               PROVE  ShownOK'
    BY <1>2 DEF ShownOK
  <2>1. \A o \in Owner : active_scopes[o] # 0 =>
           stream_ts # 0 /\ Current(active_scopes[o]) = "in_progress"
    BY <1>0, <1>1 DEF ShownOK
  <2>2. call'.op = "start" => \A o \in Owner : call'.before[o] = 0
    BY <1>1, <2>1
  <2>3. call'.op = "append" =>
          \A o \in Owner : active_scopes'[o] # 0 /\ active_scopes'[o] = call'.before[o] =>
            messages'[stream_ts'].shown[active_scopes'[o]] = "in_progress"
    BY <1>1, <1>2, <2>1 DEF Current
  <2>4. ASSUME stream_ts # 0, NEW s \in Steps, Current(s) = "in_progress"
        PROVE  /\ steps[s].completed =>
                    StillEndsIn(s) \/ u = Update(s, steps[s].owner, "complete")
               /\ steps[s].owner \notin crowded => active_scopes[steps[s].owner] = s
    <3>1. call.update # Update(s, steps[s].owner, "complete")
      BY <1>1 DEF NoUpdate, Update
    <3>2. steps[s].completed => EndsIn(s)
      BY <1>0, <2>4, <3>1 DEF ShownOK
    <3>3. steps[s].owner \notin crowded => active_scopes[steps[s].owner] = s
      BY <1>0, <1>1, <2>4 DEF ShownOK, ShownScopes
    <3>4. QED
      BY <1>5, <3>2, <3>3
  <2>5. stream_ts # 0 /\ ~stream_stopped => messages[stream_ts].ended_by = "none"
    BY <1>0, <1>1 DEF ShownOK
  <2>6. ClosedMessagesAreSettled'
    BY <1>0, <1>2 DEF ShownOK, ClosedMessagesAreSettled, RunningIn
  <2>7. call'.op \notin {"none", "restart", "rotated_append"}
    BY <1>1
  <2>8. stream_ts' # 0 => \A s \in Steps' : Current(s)' = "in_progress" =>
          /\ steps'[s].completed => EndsIn(s)' \/ call'.update = Update(s, steps'[s].owner, "complete")
          /\ steps'[s].owner \notin crowded' => ShownScopes'[steps'[s].owner] = s
    BY <1>1, <1>2, <2>4 DEF ShownScopes, Current, Steps, EndsIn, StillEndsIn
  <2>9. QED
    BY <1>1, <1>2, <2>2, <2>3, <2>5, <2>6, <2>7, <2>8 DEF ShownOK, Current
<1>12. QED
  BY <1>7, <1>8, <1>9, <1>10, <1>11 DEF StreamInv

(***************************************************************************)
(* The calls to Slack.  Each changes one message, or adds one.              *)
(***************************************************************************)

\* Chunks of one status, for steps that are there.
ChunksOK(chunks, k) ==
  /\ k \in Statuses
  /\ \A u \in chunks : u.status = k /\ u.step \in Steps

\* What the message m shows after the chunks.
ShowsAfter(m, before, chunks, k) ==
  \A s \in StepId :
    messages'[m].shown[s] = IF \E u \in chunks : u.step = s THEN k ELSE before[s]

MessagesTyped ==
  /\ messages \in Seq(Message)
  /\ \A m \in 1..Len(messages), s \in StepId :
       messages[m].shown[s] # "absent" => s \in Steps

LEMMA StartedMessage ==
  ASSUME MessagesTyped, NEW chunks, NEW k, ChunksOK(chunks, k), Started(chunks),
         UNCHANGED steps
  PROVE  LET n == Len(messages) + 1 IN
         /\ MessagesTyped' /\ Len(messages') = n /\ Len(messages) \in Nat
         /\ \A m \in 1..Len(messages) : messages'[m] = messages[m]
         /\ messages'[n].open /\ messages'[n].ended_by = "none"
         /\ ShowsAfter(n, [s \in StepId |-> "absent"], chunks, k)
<1> DEFINE n == Len(messages) + 1
           new == Shows(NewMessage, chunks)
<1>1. /\ new \in Message /\ new.open /\ new.ended_by = "none"
      /\ \A s \in StepId : new.shown[s] = IF \E u \in chunks : u.step = s THEN k ELSE "absent"
  BY NewMessageTyped, ShowsChunks DEF ChunksOK
<1>2. messages' = Append(messages, new)
  BY DEF Started
<1> HIDE DEF new
<1>3. /\ messages' \in Seq(Message) /\ Len(messages') = n /\ Len(messages) \in Nat
      /\ \A m \in 1..Len(messages) : messages'[m] = messages[m]
      /\ messages'[n] = new
  BY <1>1, <1>2, AppendProperties, LenProperties DEF MessagesTyped
<1>4. ASSUME NEW m \in 1..n, NEW s \in StepId, messages'[m].shown[s] # "absent"
      PROVE  s \in Steps
  <2>1. CASE m = n
    BY <1>1, <1>3, <1>4, <2>1 DEF ChunksOK
  <2>2. CASE m # n
    <3>1. m \in 1..Len(messages)
      BY <1>3, <2>2
    <3>2. QED
      BY <1>3, <1>4, <3>1 DEF MessagesTyped
  <2>3. QED
    BY <2>1, <2>2
<1>5. Steps' = Steps
  BY DEF Steps
<1>6. QED
  BY <1>1, <1>3, <1>4, <1>5 DEF MessagesTyped, ShowsAfter

LEMMA ChangedMessage ==
  ASSUME MessagesTyped, NEW m \in 1..Len(messages), NEW chunks, NEW k, ChunksOK(chunks, k),
         NEW new \in Message,
         new.shown = Shows(messages[m], chunks).shown,
         messages' = [messages EXCEPT ![m] = new], UNCHANGED steps
  PROVE  /\ MessagesTyped' /\ Len(messages') = Len(messages)
         /\ \A i \in 1..Len(messages) : i # m => messages'[i] = messages[i]
         /\ messages'[m].open = new.open /\ messages'[m].ended_by = new.ended_by
         /\ ShowsAfter(m, messages[m].shown, chunks, k)
<1>1. messages[m] \in Message
  BY ElementOfSeq DEF MessagesTyped
<1>2. \A s \in StepId :
        new.shown[s] = IF \E u \in chunks : u.step = s THEN k ELSE messages[m].shown[s]
  BY <1>1, ShowsChunks DEF ChunksOK
<1>3. /\ messages' \in Seq(Message) /\ Len(messages') = Len(messages)
      /\ \A i \in 1..Len(messages) : messages'[i] = IF i = m THEN new ELSE messages[i]
  BY ExceptSeq DEF MessagesTyped
<1>4. ASSUME NEW i \in 1..Len(messages), NEW s \in StepId, messages'[i].shown[s] # "absent"
      PROVE  s \in Steps
  <2>1. CASE i = m /\ \E u \in chunks : u.step = s
    BY <2>1 DEF ChunksOK
  <2>2. CASE ~(i = m /\ \E u \in chunks : u.step = s)
    BY <1>2, <1>3, <1>4, <2>2 DEF MessagesTyped
  <2>3. QED
    BY <2>1, <2>2
<1>5. Steps' = Steps
  BY DEF Steps
<1>6. QED
  BY <1>2, <1>3, <1>4, <1>5 DEF MessagesTyped, ShowsAfter

LEMMA AppendedMessage ==
  ASSUME MessagesTyped, stream_ts \in 1..Len(messages), NEW chunks, NEW k,
         ChunksOK(chunks, k),
         messages' = [messages EXCEPT ![stream_ts] = Shows(@, chunks)], UNCHANGED steps
  PROVE  /\ MessagesTyped' /\ Len(messages') = Len(messages)
         /\ \A i \in 1..Len(messages) : i # stream_ts => messages'[i] = messages[i]
         /\ messages'[stream_ts].open = messages[stream_ts].open
         /\ messages'[stream_ts].ended_by = messages[stream_ts].ended_by
         /\ ShowsAfter(stream_ts, messages[stream_ts].shown, chunks, k)
<1> DEFINE new == Shows(messages[stream_ts], chunks)
<1>1. messages[stream_ts] \in Message
  BY ElementOfSeq DEF MessagesTyped
<1>2. /\ new \in Message /\ new.open = messages[stream_ts].open
      /\ new.ended_by = messages[stream_ts].ended_by
  BY <1>1, ShowsChunks DEF ChunksOK
<1>3. messages' = [messages EXCEPT ![stream_ts] = new]
  OBVIOUS
<1>4. /\ MessagesTyped' /\ Len(messages') = Len(messages)
      /\ \A i \in 1..Len(messages) : i # stream_ts => messages'[i] = messages[i]
      /\ messages'[stream_ts].open = new.open /\ messages'[stream_ts].ended_by = new.ended_by
      /\ ShowsAfter(stream_ts, messages[stream_ts].shown, chunks, k)
  BY <1>2, <1>3, ChangedMessage
<1>5. QED
  BY <1>2, <1>4

LEMMA StoppedMessage ==
  ASSUME MessagesTyped, stream_ts \in 1..Len(messages), NEW chunks, NEW k,
         ChunksOK(chunks, k), NEW by \in {"rotation"} \cup Outcomes,
         Stopped(stream_ts, chunks, by), UNCHANGED steps
  PROVE  /\ MessagesTyped' /\ Len(messages') = Len(messages)
         /\ \A i \in 1..Len(messages) : i # stream_ts => messages'[i] = messages[i]
         /\ ~messages'[stream_ts].open /\ messages'[stream_ts].ended_by = by
         /\ ShowsAfter(stream_ts, messages[stream_ts].shown, chunks, k)
<1> DEFINE shows == Shows(messages[stream_ts], chunks)
           new == [shows EXCEPT !.open = FALSE, !.ended_by = by]
<1>1. messages[stream_ts] \in Message
  BY ElementOfSeq DEF MessagesTyped
<1>2. shows \in Message
  BY <1>1, ShowsChunks DEF ChunksOK
<1>3. messages' = [messages EXCEPT ![stream_ts] = new]
  BY DEF Stopped
<1>4. /\ new \in Message /\ new.shown = shows.shown /\ ~new.open /\ new.ended_by = by
  <2> HIDE DEF shows
  <2>1. QED
    BY <1>2 DEF Message
<1> HIDE DEF new
<1>5. /\ MessagesTyped' /\ Len(messages') = Len(messages)
      /\ \A i \in 1..Len(messages) : i # stream_ts => messages'[i] = messages[i]
      /\ messages'[stream_ts].open = new.open /\ messages'[stream_ts].ended_by = new.ended_by
      /\ ShowsAfter(stream_ts, messages[stream_ts].shown, chunks, k)
  BY <1>3, <1>4, ChangedMessage
<1>6. QED
  BY <1>4, <1>5

\* Slack has ended the stream of the current message.
LEMMA EndedMessage ==
  ASSUME MessagesTyped, stream_ts \in 1..Len(messages),
         messages' = [messages EXCEPT ![stream_ts].open = FALSE], UNCHANGED steps
  PROVE  /\ MessagesTyped' /\ Len(messages') = Len(messages)
         /\ \A i \in 1..Len(messages) : i # stream_ts => messages'[i] = messages[i]
         /\ ~messages'[stream_ts].open
<1> DEFINE new == [messages[stream_ts] EXCEPT !.open = FALSE]
<1>1. messages[stream_ts] \in Message
  BY ElementOfSeq DEF MessagesTyped
<1>2. new \in Message /\ ~new.open /\ new.shown = messages[stream_ts].shown
  BY <1>1 DEF Message
<1>3. messages' = [messages EXCEPT ![stream_ts] = new]
  OBVIOUS
<1> HIDE DEF new
<1>4. /\ messages' \in Seq(Message) /\ Len(messages') = Len(messages)
      /\ \A i \in 1..Len(messages) : messages'[i] = IF i = stream_ts THEN new ELSE messages[i]
  <2>1. messages \in Seq(Message)
    BY DEF MessagesTyped
  <2> DEFINE changed == [messages EXCEPT ![stream_ts] = new]
  <2>2. /\ changed \in Seq(Message) /\ Len(changed) = Len(messages)
        /\ \A i \in 1..Len(messages) : changed[i] = IF i = stream_ts THEN new ELSE messages[i]
    BY <1>2, <2>1, ExceptSeq
  <2>3. messages' = changed
    BY <1>3
  <2> HIDE DEF changed
  <2>4. QED
    BY <2>2, <2>3
<1>5. Steps' = Steps
  BY DEF Steps
<1>6. QED
  BY <1>2, <1>4, <1>5 DEF MessagesTyped

LEMMA LifecycleKeeps ==
  ASSUME StreamInv, Lifecycle
  PROVE  /\ StepsOK' /\ AgentsOK' /\ BatchOK'
         /\ UNCHANGED <<steps, active_step, step_of_task, updates, active_scopes, agent,
                        outcome, events, crowded>>
<1>1. UNCHANGED <<steps, active_step, step_of_task, updates, active_scopes, agent,
                  outcome, events, crowded>>
  BY DEF Lifecycle, projectorVars, reporterVars, agentVars
<1>2. outcome' \in Outcomes /\ (outcome' = "succeeded" => agent[Lead] = "done")
  BY <1>1 DEF StreamInv, AgentsOK
<1>3. QED
  BY <1>1, <1>2, StepsKept, AgentsKept, BatchKept DEF StreamInv

LEMMA CallEnds ==
  ASSUME Then("none")
  PROVE  /\ CallOK' /\ ~Updating' /\ call'.op = "none" /\ call'.update = NoUpdate
<1>1. call' = NoCall
  BY DEF Then
<1>2. call'.op = "none" /\ call'.update = NoUpdate /\ call' = Call(call'.op, call'.update, call'.before)
  BY <1>1 DEF NoCall, Call
<1>3. QED
  BY <1>1, <1>2 DEF CallOK, Updating, Ops

\* The call of an update goes on as another one.
LEMMA CallGoesOn ==
  ASSUME CallOK, Updating, NEW op \in {"rotate_stop", "rotate_start", "rotated_append", "restart"},
         Then(op), Lifecycle, op \in {"rotated_append", "rotate_stop"} => stream_ts' # 0
  PROVE  /\ CallOK' /\ Updating' /\ call'.op = op
         /\ call'.update = call.update /\ call'.before = call.before
<1>1. /\ call = Call(call.op, call.update, call.before)
      /\ call' = [call EXCEPT !.op = op]
  BY DEF CallOK, Then
<1>2. /\ call' = Call(op, call.update, call.before)
  BY <1>1 DEF Call
<1>3. /\ call'.op = op /\ call'.update = call.update /\ call'.before = call.before
  BY <1>2 DEF Call
<1>4. UNCHANGED <<steps, active_scopes, crowded, outcome>>
  BY DEF Lifecycle, projectorVars, reporterVars, agentVars
<1>5. UpdateOK(call.update)' /\ Owners(call.before)'
  BY <1>3, <1>4 DEF CallOK, UpdateOK, Owners, OwnedBy, Steps
<1>6. QED
  BY <1>2, <1>3, <1>4, <1>5 DEF CallOK, Updating, Ops

LEMMA FailuresCount ==
  ASSUME MessagesOK, Failed
  PROVE  faults' \in Nat /\ faults' # 0 /\ ShownOK'
BY DEF MessagesOK, Failed, ShownOK

\* The update of a call is for a step that is there, and its session goes on.
LEMMA UpdateUnderWay ==
  ASSUME StreamInv, Updating
  PROVE  LET u == call.update
             before == call.before
         IN
         /\ u.step \in Steps /\ u.step \in StepId /\ u.step # 0
         /\ steps[u.step].owner = u.owner /\ u.owner \in Owner
         /\ u.status \in {"in_progress", "complete"}
         /\ u.status = "in_progress" => ~steps[u.step].completed
         /\ ChunksOK({u}, u.status)
         /\ outcome = "running" /\ ~stream_stopped
         /\ \A o \in Owner : before[o] \in {0} \cup OwnedBy(o)
         /\ \A o \in Owner \ {u.owner} : active_scopes[o] = before[o]
         /\ active_scopes[u.owner] = IF u.status = "in_progress" THEN u.step
                                     ELSE IF before[u.owner] = u.step THEN 0
                                     ELSE before[u.owner]
         /\ u.status = "in_progress" /\ u.owner \notin crowded => before[u.owner] \in {0, u.step}
<1> DEFINE u == call.update
<1>1. /\ UpdateOK(u) /\ outcome = "running" /\ ~stream_stopped
      /\ \A o \in Owner : call.before[o] \in {0} \cup OwnedBy(o)
      /\ \A o \in Owner \ {u.owner} : active_scopes[o] = call.before[o]
      /\ active_scopes[u.owner] = IF u.status = "in_progress" THEN u.step
                                  ELSE IF call.before[u.owner] = u.step THEN 0
                                  ELSE call.before[u.owner]
      /\ u.status = "in_progress" /\ u.owner \notin crowded => call.before[u.owner] \in {0, u.step}
  BY DEF StreamInv, CallOK, MessagesOK, Updating, Owners
<1>2. /\ u.step \in Steps /\ steps[u.step].owner = u.owner /\ u.owner \in Owner
      /\ u.status \in {"in_progress", "complete"}
      /\ u.status = "in_progress" => ~steps[u.step].completed
  BY <1>1 DEF UpdateOK, UpdateRecord
<1>3. u.step \in StepId /\ u.step # 0
  BY <1>2, StepsTyped DEF StreamInv
<1>4. ChunksOK({u}, u.status)
  BY <1>2 DEF ChunksOK, Statuses
<1>5. QED
  BY <1>1, <1>2, <1>3, <1>4

LEMMA TypedMessages ==
  ASSUME MessagesOK
  PROVE  /\ MessagesTyped /\ Len(messages) \in Nat /\ stream_ts \in 0..Len(messages)
         /\ stream_ts # 0 => stream_ts \in 1..Len(messages)
         /\ faults \in Nat /\ stream_stopped \in BOOLEAN
BY LenProperties DEF MessagesOK, MessagesTyped

\* A stream has been started with the update alone, for a message that was
\* not there or that had ended.
LEMMA StartedKeepsMessages ==
  ASSUME StreamInv, Updating, NEW chunks, NEW k, ChunksOK(chunks, k), Started(chunks),
         Lifecycle, UNCHANGED <<faults, abandoned, stream_stopped>>, AllAbandoned,
         stream_ts' = Len(messages'), call'.op \in {"none", "rotated_append"}
  PROVE  MessagesOK'
<1>1. /\ MessagesOK /\ MessagesTyped /\ Len(messages) \in Nat /\ faults \in Nat
      /\ ~stream_stopped /\ UNCHANGED steps
  BY TypedMessages, UpdateUnderWay DEF StreamInv, Lifecycle, projectorVars
<1>2. /\ MessagesTyped' /\ Len(messages') = Len(messages) + 1
      /\ \A m \in 1..Len(messages) : messages'[m] = messages[m]
  BY <1>1, StartedMessage
<1>3. /\ stream_ts' \in 0..Len(messages') /\ faults' \in Nat
      /\ ~stream_stopped' /\ stream_stopped' \in BOOLEAN
  BY <1>1, <1>2, TypedMessages
<1>4. NoStreamLeftOpen'
  BY <1>1, <1>2 DEF NoStreamLeftOpen, AllAbandoned
<1>5. QED
  BY <1>2, <1>3, <1>4 DEF MessagesOK, MessagesTyped

\* No stream is the current one any more, and all that are open are known to
\* be left behind.
LEMMA FailedStartKeepsMessages ==
  ASSUME StreamInv, Updating, NEW chunks, NEW k, ChunksOK(chunks, k),
         NotStarted \/ Orphaned(chunks), Lifecycle, faults' \in Nat, AllAbandoned,
         stream_ts' = 0, UNCHANGED stream_stopped
  PROVE  MessagesOK'
<1>1. /\ MessagesOK /\ MessagesTyped /\ Len(messages) \in Nat
      /\ ~stream_stopped /\ UNCHANGED steps
  BY TypedMessages, UpdateUnderWay DEF StreamInv, Lifecycle, projectorVars
<1>2. MessagesTyped' /\ Len(messages') \in Nat /\ AllAbandoned'
  <2>1. CASE NotStarted
    BY <1>1, <2>1 DEF NotStarted, MessagesTyped, AllAbandoned, Steps
  <2>2. CASE Orphaned(chunks)
    <3>1. Started(chunks) /\ abandoned' = abandoned \cup {Len(messages) + 1}
      BY <2>2 DEF Orphaned
    <3>2. /\ MessagesTyped' /\ Len(messages') = Len(messages) + 1
          /\ \A m \in 1..Len(messages) : messages'[m] = messages[m]
      BY <1>1, <3>1, StartedMessage
    <3>3. AllAbandoned'
      BY <1>1, <3>1, <3>2 DEF AllAbandoned
    <3>4. QED
      BY <1>1, <3>2, <3>3
  <2>3. QED
    BY <2>1, <2>2
<1>3. QED
  BY <1>1, <1>2 DEF MessagesOK, MessagesTyped, NoStreamLeftOpen, AllAbandoned

\* The closed messages stay as they are but for the one that is changed.
LEMMA OthersStaySettled ==
  ASSUME ClosedMessagesAreSettled, UNCHANGED <<steps, crowded, faults>>, NEW n,
         \A m \in 1..Len(messages') :
           m # n => m \in 1..Len(messages) /\ messages'[m] = messages[m],
         messages'[n].ended_by \in {"rotation", "cancelled"} =>
           \A s \in Steps : messages'[n].shown[s] = "in_progress" => steps[s].owner \in crowded
  PROVE  ClosedMessagesAreSettled'
BY DEF ClosedMessagesAreSettled, RunningIn, Steps

\* A stream that starts with the update shows the scopes, if no other is
\* active.
LEMMA StartedShowsUpdate ==
  ASSUME StreamInv, Updating, Started({call.update}), Lifecycle,
         stream_ts' = Len(messages'), Then("none"), UNCHANGED <<faults, stream_stopped>>,
         faults = 0 =>
           \A o \in Owner : active_scopes[o] # 0 =>
             active_scopes[o] = call.update.step /\ call.update.status = "in_progress"
  PROVE  ShownOK'
<1> DEFINE u == call.update
           n == Len(messages) + 1
<1>0. /\ StepsOK /\ MessagesOK /\ ShownOK /\ MessagesTyped /\ Len(messages) \in Nat
      /\ UNCHANGED <<steps, updates, active_scopes, outcome, crowded>>
  BY TypedMessages, LifecycleKeeps DEF StreamInv
<1>1. /\ u.step \in Steps /\ u.step \in StepId
      /\ steps[u.step].owner = u.owner /\ u.owner \in Owner
      /\ u.status = "in_progress" => ~steps[u.step].completed
      /\ ChunksOK({u}, u.status) /\ ~stream_stopped
      /\ u.status = "in_progress" => active_scopes[u.owner] = u.step
  BY UpdateUnderWay
<1>2. /\ Len(messages') = n /\ n # 0
      /\ \A m \in 1..Len(messages) : messages'[m] = messages[m]
      /\ messages'[n].ended_by = "none"
      /\ ShowsAfter(n, [s \in StepId |-> "absent"], {u}, u.status)
  BY <1>0, <1>1, StartedMessage
<1>3. Steps \subseteq StepId /\ Steps' = Steps
  BY <1>0, StepsTyped DEF Steps
<1>4. /\ messages'[n].shown[u.step] = u.status
      /\ \A s \in Steps : messages'[n].shown[s] = "in_progress" =>
           s = u.step /\ u.status = "in_progress"
  BY <1>1, <1>2, <1>3 DEF ShowsAfter
<1>5. ~Updating' /\ call'.op = "none"
  BY CallEnds
<1> SUFFICES ASSUME faults = 0
             PROVE  ShownOK'
  BY DEF ShownOK
<1>6. ClosedMessagesAreSettled'
  <2>1. \A m \in 1..Len(messages') : m # n => m \in 1..Len(messages) /\ messages'[m] = messages[m]
    BY <1>0, <1>2
  <2>2. ClosedMessagesAreSettled
    BY <1>0 DEF ShownOK
  <2> HIDE DEF n
  <2>3. QED
    BY <1>0, <1>2, <2>1, <2>2, OthersStaySettled
<1>7. \A o \in Owner : active_scopes[o] # 0 => messages'[n].shown[active_scopes[o]] = "in_progress"
  BY <1>4
<1>8. \A s \in Steps : messages'[n].shown[s] = "in_progress" =>
        ~steps[s].completed /\ active_scopes[steps[s].owner] = s
  BY <1>1, <1>4
<1>9. stream_ts' = n
  BY <1>2
<1> HIDE DEF n
<1>10. QED
  BY <1>0, <1>2, <1>3, <1>5, <1>6, <1>7, <1>8, <1>9 DEF ShownOK, Current, ShownScopes

\* The start of the first stream, or of one after a stream that was given up.
LEMMA StartKeepsInv ==
  ASSUME StreamInv, StartOk \/ StartFails
  PROVE  StreamInv'
<1>0. /\ call.op = "start" /\ Lifecycle /\ Then("none") /\ UNCHANGED stream_stopped
      /\ Updating
  BY DEF StartOk, StartFails, RecordStarted, lifecycleVars, Updating
<1>1. StepsOK' /\ AgentsOK' /\ BatchOK' /\ CallOK' /\ call'.op = "none"
  BY <1>0, LifecycleKeeps, CallEnds
<1>2. stream_ts = 0 /\ AllAbandoned /\ MessagesOK /\ ShownOK
  BY <1>0 DEF StreamInv, CallOK, MessagesOK, NoStreamLeftOpen, AllAbandoned
<1>3. ChunksOK({call.update}, call.update.status)
  BY <1>0, UpdateUnderWay
<1>4. CASE StartOk
  <2>1. /\ Started({call.update}) /\ stream_ts' = Len(messages')
        /\ UNCHANGED <<faults, abandoned, stream_stopped>>
    BY <1>4 DEF StartOk, RecordStarted
  <2>2. MessagesOK'
    BY <1>0, <1>1, <1>2, <1>3, <2>1, StartedKeepsMessages
  <2>3. faults = 0 => \A o \in Owner : active_scopes[o] # 0 =>
          active_scopes[o] = call.update.step /\ call.update.status = "in_progress"
    <3>1. faults = 0 => \A o \in Owner : call.before[o] = 0
      BY <1>0, <1>2 DEF ShownOK
    <3>2. QED
      BY <1>0, <3>1, UpdateUnderWay
  <2>4. ShownOK'
    BY <1>0, <2>1, <2>3, StartedShowsUpdate
  <2>5. QED
    BY <1>1, <2>2, <2>4 DEF StreamInv
<1>5. CASE StartFails
  <2>1. /\ Failed /\ (NotStarted \/ Orphaned({call.update}))
        /\ UNCHANGED <<stream_ts, stream_stopped>>
    BY <1>5 DEF StartFails, lifecycleVars
  <2>2. faults' \in Nat /\ ShownOK'
    BY <1>2, <2>1, FailuresCount
  <2>3. MessagesOK'
    BY <1>0, <1>2, <1>3, <2>1, <2>2, FailedStartKeepsMessages
  <2>4. QED
    BY <1>1, <2>2, <2>3 DEF StreamInv
<1>6. QED
  BY <1>4, <1>5

\* A stream that had ended is started again, or not.
LEMMA RestartKeepsInv ==
  ASSUME StreamInv, RestartOk \/ RestartFails
  PROVE  StreamInv'
<1>0. /\ call.op = "restart" /\ Lifecycle /\ Then("none") /\ UNCHANGED stream_stopped
      /\ Updating
  BY DEF RestartOk, RestartFails, RecordStarted, DisableStream, Updating
<1>1. StepsOK' /\ AgentsOK' /\ BatchOK' /\ CallOK' /\ call'.op = "none"
  BY <1>0, LifecycleKeeps, CallEnds
<1>2. AllAbandoned /\ MessagesOK /\ faults # 0
  BY <1>0 DEF StreamInv, MessagesOK, ShownOK
<1>3. ChunksOK({call.update}, call.update.status)
  BY <1>0, UpdateUnderWay
<1>4. CASE RestartOk
  <2>1. /\ Started({call.update}) /\ stream_ts' = Len(messages')
        /\ UNCHANGED <<faults, abandoned, stream_stopped>>
    BY <1>4 DEF RestartOk, RecordStarted
  <2>2. MessagesOK'
    BY <1>0, <1>1, <1>2, <1>3, <2>1, StartedKeepsMessages
  <2>3. ShownOK'
    BY <1>2, <2>1 DEF ShownOK
  <2>4. QED
    BY <1>1, <2>2, <2>3 DEF StreamInv
<1>5. CASE RestartFails
  <2>1. /\ Failed /\ (NotStarted \/ Orphaned({call.update}))
        /\ stream_ts' = 0
    BY <1>5 DEF RestartFails, DisableStream
  <2>2. faults' \in Nat /\ ShownOK'
    BY <1>2, <2>1, FailuresCount
  <2>3. MessagesOK'
    BY <1>0, <1>2, <1>3, <2>1, <2>2, FailedStartKeepsMessages
  <2>4. QED
    BY <1>1, <2>2, <2>3 DEF StreamInv
<1>6. QED
  BY <1>4, <1>5

\* A rotation resumes the scopes the update has left as they were.
LEMMA ResumedScopes ==
  ASSUME StreamInv, Updating
  PROVE  /\ ChunksOK(ResumeChunks, "in_progress")
         /\ \A s : (\E u \in ResumeChunks : u.step = s) <=>
                   s # 0 /\ \E o \in Owner : active_scopes[o] = s /\ call.before[o] = s
<1> DEFINE kept == {o \in Owner : active_scopes[o] = call.before[o] /\ call.before[o] # 0}
<1>1. ResumeChunks = {Update(call.before[o], o, "in_progress") : o \in kept}
  BY DEF ResumeChunks, ScopeChunks
<1>2. \A o \in kept : /\ Update(call.before[o], o, "in_progress").step = call.before[o]
                      /\ Update(call.before[o], o, "in_progress").status = "in_progress"
  BY DEF Update
<1>3. \A o \in kept : call.before[o] \in Steps
  BY UpdateUnderWay DEF OwnedBy
<1>4. ChunksOK(ResumeChunks, "in_progress")
  BY <1>1, <1>2, <1>3 DEF ChunksOK, Statuses
<1>5. \A s : (\E u \in ResumeChunks : u.step = s) <=> \E o \in kept : call.before[o] = s
  BY <1>1, <1>2
<1>6. QED
  BY <1>4, <1>5

LEMMA RotatedShowsScopes ==
  ASSUME StreamInv, Updating, Started(ResumeChunks), Lifecycle,
         stream_ts' = Len(messages'), Then("rotated_append"),
         UNCHANGED <<faults, stream_stopped>>
  PROVE  ShownOK'
<1> DEFINE n == Len(messages) + 1
           before == call.before
<1>0. /\ StepsOK /\ BatchOK /\ CallOK /\ MessagesOK /\ ShownOK
      /\ MessagesTyped /\ Len(messages) \in Nat
      /\ UNCHANGED <<steps, updates, active_scopes, outcome, crowded>>
  BY TypedMessages, LifecycleKeeps DEF StreamInv
<1>1. /\ ChunksOK(ResumeChunks, "in_progress")
      /\ \A s : (\E u \in ResumeChunks : u.step = s) <=>
                s # 0 /\ \E o \in Owner : active_scopes[o] = s /\ before[o] = s
  BY ResumedScopes
<1>2. /\ Len(messages') = n /\ n # 0
      /\ \A m \in 1..Len(messages) : messages'[m] = messages[m]
      /\ messages'[n].ended_by = "none"
      /\ ShowsAfter(n, [s \in StepId |-> "absent"], ResumeChunks, "in_progress")
  BY <1>0, <1>1, StartedMessage
<1>3. Steps \subseteq StepId /\ Steps' = Steps
  BY <1>0, StepsTyped DEF Steps
<1>4. \A s \in Steps : messages'[n].shown[s] = "in_progress" <=>
                       s # 0 /\ \E o \in Owner : active_scopes[o] = s /\ before[o] = s
  <2>1. \A s \in Steps : messages'[n].shown[s] = "in_progress" <=>
                         \E u \in ResumeChunks : u.step = s
    BY <1>2, <1>3 DEF ShowsAfter
  <2>2. QED
    BY <1>1, <2>1
<1>5. \A o \in Owner : before[o] # 0 => before[o] \in Steps /\ steps[before[o]].owner = o
  BY UpdateUnderWay DEF OwnedBy
<1>6. stream_ts' = n /\ n # 0
  BY <1>2
<1>7. Updating' /\ call'.op = "rotated_append" /\ call'.before = before
  BY <1>0, <1>6, CallGoesOn
<1> SUFFICES ASSUME faults = 0
             PROVE  ShownOK'
  BY DEF ShownOK
<1>8. ClosedMessagesAreSettled'
  <2>1. \A m \in 1..Len(messages') : m # n => m \in 1..Len(messages) /\ messages'[m] = messages[m]
    BY <1>0, <1>2
  <2>2. ClosedMessagesAreSettled
    BY <1>0 DEF ShownOK
  <2> HIDE DEF n
  <2>3. QED
    BY <1>0, <1>2, <2>1, <2>2, OthersStaySettled
<1>9. \A o \in Owner : active_scopes[o] # 0 /\ active_scopes[o] = before[o] =>
        messages'[n].shown[active_scopes[o]] = "in_progress"
  BY <1>4, <1>5
<1>10. ASSUME NEW s \in Steps, messages'[n].shown[s] = "in_progress"
       PROVE  /\ steps[s].completed => EndsIn(s)'
              /\ before[steps[s].owner] = s
  <2>1. PICK o \in Owner : active_scopes[o] = s /\ before[o] = s /\ s # 0
    BY <1>4, <1>10
  <2>2. steps[s].owner = o
    BY <1>5, <2>1
  <2>3. steps[s].completed => EndsIn(s)
    BY <1>0, <2>1 DEF BatchOK
  <2>4. QED
    BY <1>0, <2>1, <2>2, <2>3 DEF EndsIn
<1> HIDE DEF n, before
<1>11. QED
  BY <1>0, <1>2, <1>3, <1>6, <1>7, <1>8, <1>9, <1>10 DEF ShownOK, Current, ShownScopes

LEMMA RotateStartKeepsInv ==
  ASSUME StreamInv, RotateStart
  PROVE  StreamInv'
<1> DEFINE first == IF ResumeChunks = {} THEN {call.update} ELSE ResumeChunks
           k == IF ResumeChunks = {} THEN call.update.status ELSE "in_progress"
<1>0. /\ call.op = "rotate_start" /\ Lifecycle /\ Updating
      /\ \/ /\ Started(first) /\ RecordStarted(Cardinality(first))
            /\ Then(IF ResumeChunks = {} THEN "none" ELSE "rotated_append")
            /\ UNCHANGED <<faults, abandoned>>
         \/ /\ Failed /\ (NotStarted \/ Orphaned(first)) /\ DisableStream
            /\ Then("none")
  BY DEF RotateStart, Updating
<1>1. /\ StepsOK' /\ AgentsOK' /\ BatchOK' /\ CallOK /\ MessagesOK /\ AllAbandoned
  BY <1>0, LifecycleKeeps DEF StreamInv, MessagesOK
<1>2. ChunksOK(first, k)
  BY <1>0, ResumedScopes, UpdateUnderWay
<1>3. CASE /\ Started(first) /\ RecordStarted(Cardinality(first))
           /\ Then(IF ResumeChunks = {} THEN "none" ELSE "rotated_append")
           /\ UNCHANGED <<faults, abandoned>>
  <2> HIDE DEF k
  <2>1. stream_ts' = Len(messages') /\ UNCHANGED <<faults, abandoned, stream_stopped>>
    BY <1>3 DEF RecordStarted
  <2>2. CASE ResumeChunks = {}
    <3>1. Then("none") /\ Started({call.update})
      BY <1>3, <2>2
    <3>2. CallOK' /\ call'.op = "none"
      BY <3>1, CallEnds
    <3>3. \A o \in Owner : active_scopes[o] # 0 =>
            active_scopes[o] = call.update.step /\ call.update.status = "in_progress"
      <4> SUFFICES ASSUME NEW o \in Owner, active_scopes[o] # 0
                   PROVE  active_scopes[o] = call.update.step /\ call.update.status = "in_progress"
        OBVIOUS
      <4>1. active_scopes[o] # call.before[o]
        BY <1>0, <2>2, ResumedScopes
      <4>2. QED
        BY <1>0, <4>1, UpdateUnderWay
    <3>4. ShownOK'
      BY <1>0, <2>1, <3>1, <3>3, StartedShowsUpdate
    <3>5. MessagesOK'
      BY <1>0, <1>1, <1>2, <1>3, <2>1, <3>2, StartedKeepsMessages
    <3>6. QED
      BY <1>1, <3>2, <3>4, <3>5 DEF StreamInv
  <2>3. CASE ResumeChunks # {}
    <3>1. Then("rotated_append") /\ Started(ResumeChunks)
      BY <1>3, <2>3
    <3>2. stream_ts' # 0
      <4>1. MessagesTyped /\ Len(messages) \in Nat /\ UNCHANGED steps
        BY <1>0, <1>1, TypedMessages, LifecycleKeeps
      <4>2. Started(first)
        BY <1>3
      <4> HIDE DEF first
      <4>3. Len(messages') = Len(messages) + 1
        BY <1>2, <4>1, <4>2, StartedMessage
      <4>4. QED
        BY <2>1, <4>1, <4>3
    <3>3. CallOK' /\ call'.op = "rotated_append"
      BY <1>0, <1>1, <3>1, <3>2, CallGoesOn
    <3>4. ShownOK'
      BY <1>0, <2>1, <3>1, RotatedShowsScopes
    <3>5. MessagesOK'
      BY <1>0, <1>1, <1>2, <1>3, <2>1, <3>3, StartedKeepsMessages
    <3>6. QED
      BY <1>1, <3>3, <3>4, <3>5 DEF StreamInv
  <2>4. QED
    BY <2>2, <2>3
<1>4. CASE /\ Failed /\ (NotStarted \/ Orphaned(first)) /\ DisableStream
           /\ Then("none")
  <2> HIDE DEF first, k
  <2>1. stream_ts' = 0 /\ UNCHANGED stream_stopped
    BY <1>4 DEF DisableStream
  <2>2. faults' \in Nat /\ ShownOK'
    BY <1>1, <1>4, FailuresCount
  <2>3. MessagesOK'
    BY <1>0, <1>1, <1>2, <1>4, <2>1, <2>2, FailedStartKeepsMessages
  <2>4. CallOK'
    BY <1>4, CallEnds
  <2>5. QED
    BY <1>1, <2>2, <2>3, <2>4 DEF StreamInv
<1>5. QED
  BY <1>0, <1>3, <1>4

(***************************************************************************)
(* Appending to the current message.                                        *)
(***************************************************************************)

LEMMA AppendUnderWay ==
  ASSUME StreamInv, Appending
  PROVE  /\ Updating /\ stream_ts # 0 /\ stream_ts \in 1..Len(messages)
         /\ Len(messages) \in Nat /\ MessagesTyped /\ ~stream_stopped
         /\ ChunksOK({call.update}, call.update.status)
<1>1. Updating /\ stream_ts # 0
  BY DEF StreamInv, CallOK, Appending, Updating
<1>2. QED
  BY <1>1, UpdateUnderWay, TypedMessages DEF StreamInv

LEMMA AppendedKeepsMessages ==
  ASSUME StreamInv, Appending, Lifecycle,
         messages' = [messages EXCEPT ![stream_ts] = Shows(@, {call.update})],
         UNCHANGED <<stream_ts, stream_stopped, abandoned>>, faults' \in Nat,
         call'.op = "none"
  PROVE  MessagesOK'
<1>1. /\ stream_ts \in 1..Len(messages) /\ Len(messages) \in Nat /\ MessagesTyped
      /\ ChunksOK({call.update}, call.update.status) /\ UNCHANGED steps
  BY AppendUnderWay DEF Lifecycle, projectorVars
<1>2. /\ MessagesTyped' /\ Len(messages') = Len(messages)
      /\ \A m \in 1..Len(messages) : messages'[m].open = messages[m].open
  BY <1>1, AppendedMessage
<1>3. stream_stopped' \in BOOLEAN /\ ~stream_stopped' /\ stream_ts' \in 0..Len(messages')
  BY <1>1, <1>2, AppendUnderWay DEF StreamInv, MessagesOK
<1>4. NoStreamLeftOpen'
  BY <1>2, AppendUnderWay DEF StreamInv, MessagesOK, NoStreamLeftOpen
<1>5. QED
  BY <1>1, <1>2, <1>3, <1>4 DEF MessagesOK, MessagesTyped

LEMMA AppendOkKeepsInv ==
  ASSUME StreamInv, AppendOk
  PROVE  StreamInv'
<1> DEFINE u == call.update
           before == call.before
<1>0. /\ Appending /\ Lifecycle /\ Then("none")
      /\ messages' = [messages EXCEPT ![stream_ts] = Shows(@, {u})]
      /\ UNCHANGED <<stream_ts, stream_stopped, faults, abandoned>>
      /\ StepsOK /\ BatchOK /\ CallOK /\ MessagesOK /\ ShownOK
  BY DEF AppendOk, StreamInv
<1>1. /\ StepsOK' /\ AgentsOK' /\ BatchOK' /\ CallOK' /\ call'.op = "none" /\ ~Updating'
      /\ UNCHANGED <<steps, updates, active_scopes, outcome, crowded>>
  BY <1>0, LifecycleKeeps, CallEnds
<1>2. /\ Updating /\ stream_ts # 0 /\ stream_ts \in 1..Len(messages)
      /\ MessagesTyped /\ ~stream_stopped /\ ChunksOK({u}, u.status)
  BY <1>0, AppendUnderWay
<1>3. MessagesOK'
  <2>1. faults' \in Nat
    BY <1>0 DEF MessagesOK
  <2>2. QED
    BY <1>0, <1>1, <2>1, AppendedKeepsMessages
<1>4. /\ Len(messages') = Len(messages)
      /\ \A i \in 1..Len(messages) : i # stream_ts => messages'[i] = messages[i]
      /\ messages'[stream_ts].ended_by = messages[stream_ts].ended_by
      /\ ShowsAfter(stream_ts, messages[stream_ts].shown, {u}, u.status)
  BY <1>0, <1>1, <1>2, AppendedMessage
<1>5. /\ u.step \in Steps /\ u.step \in StepId /\ u.step # 0
      /\ steps[u.step].owner = u.owner /\ u.owner \in Owner
      /\ u.status \in {"in_progress", "complete"}
      /\ u.status = "in_progress" => ~steps[u.step].completed
      /\ \A o \in Owner : before[o] \in {0} \cup OwnedBy(o)
      /\ \A o \in Owner \ {u.owner} : active_scopes[o] = before[o]
      /\ active_scopes[u.owner] = IF u.status = "in_progress" THEN u.step
                                  ELSE IF before[u.owner] = u.step THEN 0
                                  ELSE before[u.owner]
      /\ u.status = "in_progress" /\ u.owner \notin crowded => before[u.owner] \in {0, u.step}
  BY <1>2, UpdateUnderWay
<1>6. \A s \in Steps : messages'[stream_ts].shown[s] = IF s = u.step THEN u.status ELSE Current(s)
  BY <1>0, <1>4, StepsTyped DEF ShowsAfter, Current
<1>7. ShownOK'
  <2> SUFFICES ASSUME faults = 0
               PROVE  ShownOK'
    BY <1>0 DEF ShownOK
  <2>1. messages[stream_ts].ended_by = "none" /\ ClosedMessagesAreSettled
    BY <1>0, <1>2 DEF ShownOK, Appending
  <2>2. ClosedMessagesAreSettled'
    <3>1. \A m \in 1..Len(messages') :
            m # stream_ts => m \in 1..Len(messages) /\ messages'[m] = messages[m]
      BY <1>4
    <3>2. messages'[stream_ts].ended_by = "none"
      BY <1>4, <2>1
    <3>3. QED
      BY <1>0, <1>1, <2>1, <3>1, <3>2, OthersStaySettled
  <2>3. ASSUME NEW o \in Owner, active_scopes[o] # 0
        PROVE  messages'[stream_ts].shown[active_scopes[o]] = "in_progress"
    <3>1. CASE active_scopes[o] = before[o]
      <4>1. before[o] \in Steps /\ steps[before[o]].owner = o
        BY <1>5, <2>3, <3>1 DEF OwnedBy
      <4>2. Current(before[o]) = "in_progress"
        BY <1>0, <2>3, <3>1 DEF ShownOK, Appending
      <4>3. before[o] = u.step => u.status = "in_progress"
        BY <1>5, <2>3, <3>1, <4>1
      <4>4. QED
        BY <1>6, <3>1, <4>1, <4>2, <4>3
    <3>2. CASE active_scopes[o] # before[o]
      <4>1. active_scopes[o] = u.step /\ u.status = "in_progress"
        BY <1>5, <2>3, <3>2
      <4>2. QED
        BY <1>5, <1>6, <4>1
    <3>3. QED
      BY <3>1, <3>2
  <2>4. ASSUME NEW s \in Steps, messages'[stream_ts].shown[s] = "in_progress"
        PROVE  /\ steps[s].completed => EndsIn(s)
               /\ steps[s].owner \notin crowded => active_scopes[steps[s].owner] = s
    <3>1. CASE s = u.step
      <4>1. u.status = "in_progress"
        BY <1>6, <2>4, <3>1
      <4>2. QED
        BY <1>5, <3>1, <4>1
    <3>2. CASE s # u.step
      <4>1. Current(s) = "in_progress"
        BY <1>6, <2>4, <3>2
      <4>2. /\ steps[s].completed => EndsIn(s) \/ u = Update(s, steps[s].owner, "complete")
            /\ steps[s].owner \notin crowded => before[steps[s].owner] = s
        BY <1>0, <1>2, <4>1 DEF ShownOK, ShownScopes
      <4>3. u # Update(s, steps[s].owner, "complete")
        BY <3>2 DEF Update
      <4>4. steps[s].owner \in Owner /\ s # 0
        BY <1>0, StepsTyped DEF Step
      <4>5. steps[s].owner \notin crowded => active_scopes[steps[s].owner] = s
        BY <1>5, <3>2, <4>2, <4>4
      <4>6. QED
        BY <4>2, <4>3, <4>5
    <3>3. QED
      BY <3>1, <3>2
  <2>5. messages'[stream_ts].ended_by = "none"
    BY <1>4, <2>1
  <2>6. \A s \in Steps : EndsIn(s) => EndsIn(s)'
    BY <1>1 DEF EndsIn
  <2>7. Steps' = Steps
    BY <1>1 DEF Steps
  <2> HIDE DEF u, before
  <2>8. QED
    BY <1>0, <1>1, <1>2, <2>2, <2>3, <2>4, <2>5, <2>6, <2>7 DEF ShownOK, Current, ShownScopes
<1>8. QED
  BY <1>1, <1>3, <1>7 DEF StreamInv

\* The answers that tell that the update is not shown, or that it may be.
LEMMA AppendFailsKeepsInv ==
  ASSUME StreamInv, AppendFindsStreamEnded \/ AppendFails
  PROVE  StreamInv'
<1>0. /\ Appending /\ Lifecycle /\ Failed
      /\ UNCHANGED <<stream_ts, stream_stopped, abandoned>>
      /\ CallOK /\ MessagesOK
  BY DEF AppendFindsStreamEnded, AppendFails, lifecycleVars, StreamInv
<1>1. /\ StepsOK' /\ AgentsOK' /\ BatchOK' /\ UNCHANGED <<steps, outcome>>
      /\ faults' \in Nat /\ ShownOK'
  BY <1>0, LifecycleKeeps, FailuresCount
<1>2. /\ Updating /\ stream_ts # 0 /\ stream_ts \in 1..Len(messages)
      /\ MessagesTyped /\ ~stream_stopped
  BY <1>0, AppendUnderWay
<1>3. CASE AppendFindsStreamEnded
  <2>1. /\ messages' = [messages EXCEPT ![stream_ts].open = FALSE] /\ Then("restart")
    BY <1>3 DEF AppendFindsStreamEnded
  <2>2. CallOK' /\ call'.op = "restart"
    BY <1>0, <1>2, <2>1, CallGoesOn
  <2>3. /\ MessagesTyped' /\ Len(messages') = Len(messages)
        /\ \A i \in 1..Len(messages) : i # stream_ts => messages'[i] = messages[i]
        /\ ~messages'[stream_ts].open
    BY <1>1, <1>2, <2>1, EndedMessage
  <2>4. AllAbandoned'
    BY <1>0, <2>3 DEF MessagesOK, NoStreamLeftOpen, AllAbandoned
  <2>5. stream_ts' \in 0..Len(messages') /\ stream_stopped' \in BOOLEAN /\ ~stream_stopped'
    BY <1>0, <1>2, <2>3 DEF MessagesOK
  <2>6. MessagesOK'
    BY <1>1, <2>3, <2>4, <2>5 DEF MessagesOK, MessagesTyped, NoStreamLeftOpen, AllAbandoned
  <2>7. QED
    BY <1>1, <2>2, <2>6 DEF StreamInv
<1>4. CASE AppendFails
  <2>1. /\ Then("none")
        /\ \/ UNCHANGED messages
           \/ messages' = [messages EXCEPT ![stream_ts] = Shows(@, {call.update})]
    BY <1>4 DEF AppendFails
  <2>2. CallOK' /\ call'.op = "none"
    BY <2>1, CallEnds
  <2>3. CASE UNCHANGED messages
    <3>1. MessagesOK'
      BY <1>0, <1>1, <1>2, <2>2, <2>3 DEF MessagesOK, NoStreamLeftOpen, AllAbandoned, Steps
    <3>2. QED
      BY <1>1, <2>2, <3>1 DEF StreamInv
  <2>4. CASE messages' = [messages EXCEPT ![stream_ts] = Shows(@, {call.update})]
    <3>1. MessagesOK'
      BY <1>0, <1>1, <2>2, <2>4, AppendedKeepsMessages
    <3>2. QED
      BY <1>1, <2>2, <3>1 DEF StreamInv
  <2>5. QED
    BY <2>1, <2>3, <2>4
<1>5. QED
  BY <1>3, <1>4

\* The stream is given up, and its message may stay open.
LEMMA DisableKeepsInv ==
  ASSUME StreamInv, RotatedAppendTooLong \/ AppendFailsForGood
  PROVE  StreamInv'
<1>0. /\ Appending /\ Lifecycle /\ Failed /\ Then("none")
      /\ stream_ts' = 0 /\ abandoned' = abandoned \cup {stream_ts}
      /\ UNCHANGED <<messages, stream_stopped>> /\ MessagesOK
  BY DEF RotatedAppendTooLong, AppendFailsForGood, DisableStream, Appending, StreamInv
<1>1. /\ StepsOK' /\ AgentsOK' /\ BatchOK' /\ UNCHANGED <<steps, outcome>>
      /\ faults' \in Nat /\ ShownOK' /\ CallOK' /\ call'.op = "none"
  BY <1>0, LifecycleKeeps, FailuresCount, CallEnds
<1>2. ~stream_stopped /\ Len(messages) \in Nat
  BY <1>0, AppendUnderWay
<1>3. AllAbandoned'
  BY <1>0 DEF MessagesOK, NoStreamLeftOpen, AllAbandoned
<1>4. MessagesOK'
  BY <1>0, <1>1, <1>2, <1>3 DEF MessagesOK, NoStreamLeftOpen, AllAbandoned, Steps
<1>5. QED
  BY <1>1, <1>4 DEF StreamInv

LEMMA AppendTooLongKeepsInv ==
  ASSUME StreamInv, AppendTooLong
  PROVE  StreamInv'
<1>0. /\ call.op = "append" /\ Appending /\ Updating /\ Lifecycle /\ Then("rotate_stop")
      /\ UNCHANGED <<stream_ts, stream_stopped, messages, faults, abandoned>>
      /\ CallOK /\ MessagesOK /\ ShownOK
  BY DEF AppendTooLong, Appending, Updating, lifecycleVars, slackVars, StreamInv
<1>1. /\ StepsOK' /\ AgentsOK' /\ BatchOK'
      /\ UNCHANGED <<steps, updates, active_scopes, outcome, crowded>>
  BY <1>0, LifecycleKeeps
<1>2. stream_ts # 0 /\ ~stream_stopped
  BY <1>0, AppendUnderWay
<1>3. /\ CallOK' /\ Updating' /\ call'.op = "rotate_stop"
      /\ call'.update = call.update /\ call'.before = call.before
  BY <1>0, <1>2, CallGoesOn
<1>4. MessagesOK'
  BY <1>0, <1>1, <1>2, <1>3 DEF MessagesOK, NoStreamLeftOpen, AllAbandoned, Steps
<1>5. ShownOK'
  <2>1. ClosedMessagesAreSettled => ClosedMessagesAreSettled'
    BY <1>0, <1>1 DEF ClosedMessagesAreSettled, RunningIn
  <2>2. \A s : EndsIn(s) <=> EndsIn(s)'
    BY <1>1 DEF EndsIn
  <2>3. Steps' = Steps /\ ShownScopes' = ShownScopes
    BY <1>0, <1>1, <1>3 DEF Steps, ShownScopes
  <2>4. \A s \in Steps : Current(s)' = Current(s)
    BY <1>0 DEF Current
  <2>5. QED
    BY <1>0, <1>1, <1>2, <1>3, <2>1, <2>2, <2>3, <2>4 DEF ShownOK
<1>6. QED
  BY <1>1, <1>3, <1>4, <1>5 DEF StreamInv

(***************************************************************************)
(* A rotation closes the current message, and so does the end of the        *)
(* session.                                                                *)
(***************************************************************************)

\* The chunks that settle scopes: all of one status, each scope's step.
LEMMA SettlingChunks ==
  ASSUME NEW scopes, NEW k \in Statuses, \A o \in Owner : scopes[o] \in {0} \cup OwnedBy(o)
  PROVE  /\ ChunksOK(ScopeChunks(scopes, Owner, k), k)
         /\ \A o \in Owner : scopes[o] # 0 =>
              \E u \in ScopeChunks(scopes, Owner, k) : u.step = scopes[o]
<1> DEFINE active == {a \in Owner : scopes[a] # 0}
<1>1. ScopeChunks(scopes, Owner, k) = {Update(scopes[o], o, k) : o \in active}
  BY DEF ScopeChunks
<1>2. \A o \in active : /\ Update(scopes[o], o, k).step = scopes[o]
                        /\ Update(scopes[o], o, k).status = k
  BY DEF Update
<1>3. \A o \in active : scopes[o] \in Steps
  BY DEF OwnedBy
<1>4. QED
  BY <1>1, <1>2, <1>3 DEF ChunksOK

\* A message that is closed with a chunk for every scope shows what ran of
\* crowded owners only.
LEMMA SettledShows ==
  ASSUME StreamInv, stream_ts # 0, faults = 0, NEW k \in {"complete", "error"},
         \A o \in Owner : ShownScopes[o] \in {0} \cup OwnedBy(o),
         ShowsAfter(stream_ts, messages[stream_ts].shown, ScopeChunks(ShownScopes, Owner, k), k)
  PROVE  \A s \in Steps : messages'[stream_ts].shown[s] = "in_progress" =>
           Current(s) = "in_progress" /\ steps[s].owner \in crowded
<1> SUFFICES ASSUME NEW s \in Steps, messages'[stream_ts].shown[s] = "in_progress"
             PROVE  Current(s) = "in_progress" /\ steps[s].owner \in crowded
  OBVIOUS
<1>1. s \in StepId /\ s # 0 /\ steps[s].owner \in Owner
  BY StepsTyped DEF StreamInv, Step
<1>2. /\ Current(s) = "in_progress"
      /\ ~\E u \in ScopeChunks(ShownScopes, Owner, k) : u.step = s
  BY <1>1 DEF ShowsAfter, Current
<1>3. steps[s].owner \notin crowded => ShownScopes[steps[s].owner] = s
  BY <1>2 DEF StreamInv, ShownOK
<1>4. \A o \in Owner : ShownScopes[o] # 0 =>
        \E u \in ScopeChunks(ShownScopes, Owner, k) : u.step = ShownScopes[o]
  BY SettlingChunks DEF Statuses
<1>5. QED
  BY <1>1, <1>2, <1>3, <1>4

\* The current message is closed, or left behind.
LEMMA ClosedKeepsMessages ==
  ASSUME StreamInv, stream_ts \in 1..Len(messages), UNCHANGED <<steps, stream_ts>>,
         \/ /\ MessagesTyped' /\ Len(messages') = Len(messages)
            /\ \A m \in 1..Len(messages) : m # stream_ts => messages'[m] = messages[m]
            /\ ~messages'[stream_ts].open
            /\ UNCHANGED abandoned
         \/ UNCHANGED messages /\ abandoned' = abandoned \cup {stream_ts}
  PROVE  MessagesTyped' /\ stream_ts' \in 0..Len(messages') /\ AllAbandoned'
<1>1. MessagesTyped /\ NoStreamLeftOpen /\ Steps' = Steps /\ Len(messages) \in Nat
  BY TypedMessages DEF StreamInv, MessagesOK, Steps
<1>2. QED
  BY <1>1 DEF MessagesTyped, NoStreamLeftOpen, AllAbandoned

LEMMA RotateStopKeepsInv ==
  ASSUME StreamInv, RotateStop
  PROVE  StreamInv'
<1> DEFINE stopped == Stopped(stream_ts, StopChunks, "rotation")
<1>0. /\ call.op = "rotate_stop" /\ Updating /\ Lifecycle /\ Then("rotate_start")
      /\ UNCHANGED <<stream_ts, stream_stopped>>
      /\ \/ stopped /\ UNCHANGED <<faults, abandoned>>
         \/ Failed /\ UNCHANGED messages /\ abandoned' = abandoned \cup {stream_ts}
         \/ Failed /\ stopped /\ UNCHANGED abandoned
      /\ StepsOK /\ CallOK /\ MessagesOK /\ ShownOK
  BY DEF RotateStop, Updating, lifecycleVars, StreamInv
<1>1. /\ StepsOK' /\ AgentsOK' /\ BatchOK'
      /\ UNCHANGED <<steps, updates, active_scopes, outcome, crowded>>
  BY <1>0, LifecycleKeeps
<1>2. /\ stream_ts # 0 /\ stream_ts \in 1..Len(messages) /\ MessagesTyped
      /\ ~stream_stopped /\ stream_stopped \in BOOLEAN /\ faults \in Nat
  BY <1>0, TypedMessages, UpdateUnderWay DEF CallOK
<1>3. /\ CallOK' /\ Updating' /\ call'.op = "rotate_start"
      /\ call'.update = call.update /\ call'.before = call.before
  BY <1>0, CallGoesOn
<1>4. /\ ShownScopes = call.before
      /\ \A o \in Owner : ShownScopes[o] \in {0} \cup OwnedBy(o)
  BY <1>0, UpdateUnderWay DEF ShownScopes
<1>5. StopChunks = ScopeChunks(ShownScopes, Owner, "complete")
  BY <1>4 DEF StopChunks
<1>6. ChunksOK(StopChunks, "complete")
  BY <1>4, <1>5, SettlingChunks DEF Statuses
<1>7. stopped =>
        /\ MessagesTyped' /\ Len(messages') = Len(messages)
        /\ \A m \in 1..Len(messages) : m # stream_ts => messages'[m] = messages[m]
        /\ ~messages'[stream_ts].open
        /\ ShowsAfter(stream_ts, messages[stream_ts].shown, StopChunks, "complete")
  BY <1>1, <1>2, <1>6, StoppedMessage
<1> HIDE DEF stopped
<1>8. faults' \in Nat /\ (faults' = 0 => faults = 0 /\ stopped)
  BY <1>0, <1>2 DEF Failed
<1>9. MessagesOK'
  <2>1. MessagesTyped' /\ stream_ts' \in 0..Len(messages') /\ AllAbandoned'
    BY <1>0, <1>1, <1>2, <1>7, ClosedKeepsMessages
  <2>2. stream_stopped' \in BOOLEAN /\ ~stream_stopped'
    BY <1>0, <1>2
  <2>3. QED
    BY <1>8, <2>1, <2>2 DEF MessagesOK, MessagesTyped, NoStreamLeftOpen, AllAbandoned
<1>10. ShownOK'
  <2> SUFFICES ASSUME faults' = 0
               PROVE  ShownOK'
    BY DEF ShownOK
  <2>1. faults = 0 /\ stopped
    BY <1>8
  <2>2. \A s \in Steps : messages'[stream_ts].shown[s] = "in_progress" =>
          Current(s) = "in_progress" /\ steps[s].owner \in crowded
    BY <1>2, <1>4, <1>5, <1>7, <2>1, SettledShows
  <2>3. ClosedMessagesAreSettled'
    <3>1. \A m \in 1..Len(messages') :
            m # stream_ts => m \in 1..Len(messages) /\ messages'[m] = messages[m]
      BY <1>7, <2>1
    <3>2. ClosedMessagesAreSettled /\ UNCHANGED <<steps, crowded, faults>>
      BY <1>0, <1>1, <2>1 DEF ShownOK
    <3>3. QED
      BY <2>2, <3>1, <3>2, OthersStaySettled
  <2>4. \A s \in Steps : Current(s) = "in_progress" /\ steps[s].completed =>
          EndsIn(s) \/ call.update = Update(s, steps[s].owner, "complete")
    BY <1>0, <1>2, <2>1 DEF ShownOK
  <2>5. Steps' = Steps /\ \A s : EndsIn(s) <=> EndsIn(s)'
    BY <1>1 DEF Steps, EndsIn
  <2>6. QED
    BY <1>0, <1>1, <1>3, <2>2, <2>3, <2>4, <2>5 DEF ShownOK, Current
<1>11. QED
  BY <1>1, <1>3, <1>9, <1>10 DEF StreamInv

LEMMA StopSessionKeepsInv ==
  ASSUME StreamInv, StopSession
  PROVE  StreamInv'
<1> DEFINE stopped == Stopped(stream_ts, EndChunks, outcome)
           k == "error"
<1>0. /\ call.op = "stop" /\ ~Updating /\ Lifecycle /\ Then("none")
      /\ UNCHANGED stream_ts /\ stream_stopped' = TRUE
      /\ \/ stopped /\ UNCHANGED <<faults, abandoned>>
         \/ Failed /\ UNCHANGED messages /\ abandoned' = abandoned \cup {stream_ts}
         \/ Failed /\ stopped /\ UNCHANGED abandoned
      /\ StepsOK /\ AgentsOK /\ BatchOK /\ CallOK /\ MessagesOK /\ ShownOK
  BY DEF StopSession, Updating, StreamInv
<1>1. /\ StepsOK' /\ AgentsOK' /\ BatchOK' /\ CallOK' /\ ~Updating'
      /\ call'.op = "none"
      /\ UNCHANGED <<steps, updates, active_scopes, outcome, crowded>>
  BY <1>0, LifecycleKeeps, CallEnds
<1>2. /\ stream_ts # 0 /\ stream_ts \in 1..Len(messages) /\ MessagesTyped
      /\ faults \in Nat /\ outcome # "running" /\ outcome \in Outcomes
      /\ call.update = NoUpdate /\ updates = <<>>
  BY <1>0, TypedMessages DEF CallOK, AgentsOK, BatchOK
<1>3. /\ ShownScopes = active_scopes
      /\ \A o \in Owner : ShownScopes[o] \in {0} \cup OwnedBy(o)
  BY <1>0 DEF ShownScopes, BatchOK, Owners
<1>4. ChunksOK(EndChunks, k)
  <2>1. CASE outcome = "cancelled"
    BY <1>3, <2>1, SettlingChunks DEF Statuses, EndChunks
  <2>2. CASE outcome # "cancelled"
    BY <2>2 DEF EndChunks, ChunksOK, Statuses
  <2>3. QED
    BY <2>1, <2>2
<1>5. stopped =>
        /\ MessagesTyped' /\ Len(messages') = Len(messages)
        /\ \A m \in 1..Len(messages) : m # stream_ts => messages'[m] = messages[m]
        /\ ~messages'[stream_ts].open /\ messages'[stream_ts].ended_by = outcome
        /\ ShowsAfter(stream_ts, messages[stream_ts].shown, EndChunks, k)
  BY <1>1, <1>2, <1>4, StoppedMessage
<1> HIDE DEF stopped
<1>6. faults' \in Nat /\ (faults' = 0 => faults = 0 /\ stopped)
  BY <1>0, <1>2 DEF Failed
<1>7. MessagesOK'
  <2>1. MessagesTyped' /\ stream_ts' \in 0..Len(messages') /\ AllAbandoned'
    BY <1>0, <1>1, <1>2, <1>5, ClosedKeepsMessages
  <2>2. stream_stopped' \in BOOLEAN /\ outcome' # "running"
    BY <1>0, <1>1, <1>2
  <2>3. QED
    BY <1>1, <1>6, <2>1, <2>2 DEF MessagesOK, MessagesTyped, NoStreamLeftOpen, AllAbandoned
<1>8. ShownOK'
  <2> SUFFICES ASSUME faults' = 0
               PROVE  ShownOK'
    BY DEF ShownOK
  <2>1. faults = 0 /\ stopped
    BY <1>6
  <2>2. \A s \in Steps : messages'[stream_ts].shown[s] = "in_progress" => Current(s) = "in_progress"
    BY <1>0, <1>5, <2>1, StepsTyped DEF ShowsAfter, Current
  <2>3. ASSUME outcome = "cancelled", NEW s \in Steps,
               messages'[stream_ts].shown[s] = "in_progress"
        PROVE  steps[s].owner \in crowded
    <3>1. EndChunks = ScopeChunks(ShownScopes, Owner, "error")
      BY <1>3, <2>3 DEF EndChunks
    <3>2. QED
      BY <1>2, <1>3, <1>5, <2>1, <2>3, <3>1, SettledShows
  <2>4. ClosedMessagesAreSettled'
    <3>1. \A m \in 1..Len(messages') :
            m # stream_ts => m \in 1..Len(messages) /\ messages'[m] = messages[m]
      BY <1>5, <2>1
    <3>2. ClosedMessagesAreSettled /\ UNCHANGED <<steps, crowded, faults>>
      BY <1>0, <1>1, <2>1 DEF ShownOK
    <3>3. messages'[stream_ts].ended_by \in {"rotation", "cancelled"} => outcome = "cancelled"
      BY <1>2, <1>5, <2>1 DEF Outcomes
    <3>4. QED
      BY <2>3, <3>1, <3>2, <3>3, OthersStaySettled
  <2>5. ASSUME NEW s \in Steps, Current(s) = "in_progress"
        PROVE  /\ ~steps[s].completed
               /\ steps[s].owner \notin crowded => active_scopes[steps[s].owner] = s
    <3>1. call.update # Update(s, steps[s].owner, "complete") /\ ~EndsIn(s)
      BY <1>2 DEF NoUpdate, Update, EndsIn
    <3>2. QED
      BY <1>0, <1>2, <1>3, <2>1, <2>5, <3>1 DEF ShownOK
  <2>6. Steps' = Steps
    BY <1>1 DEF Steps
  <2>7. QED
    BY <1>0, <1>1, <1>2, <2>2, <2>4, <2>5, <2>6 DEF ShownOK, Current, ShownScopes
<1>9. QED
  BY <1>1, <1>7, <1>8 DEF StreamInv

LEMMA EndSessionKeepsInv ==
  ASSUME StreamInv, NEW status \in {"succeeded", "failed", "cancelled"}, EndSession(status)
  PROVE  StreamInv'
<1>0. /\ outcome = "running" /\ updates = <<>> /\ call = NoCall /\ call.op = "none"
      /\ status = "succeeded" => agent[Lead] = "done"
      /\ outcome' = status
      /\ call' = IF stream_ts = 0 THEN NoCall ELSE Call("stop", NoUpdate, NoScopes)
      /\ stream_stopped' = (stream_ts = 0)
      /\ UNCHANGED <<steps, active_step, step_of_task, updates, active_scopes, agent, crowded,
                     stream_ts, messages, faults, abandoned>>
      /\ StepsOK /\ AgentsOK /\ BatchOK /\ CallOK /\ MessagesOK /\ ShownOK
  BY DEF EndSession, projectorVars, reporterVars, slackVars, StreamInv, NoCall, Call
<1>1. StepsOK' /\ AgentsOK' /\ BatchOK'
  BY <1>0, StepsKept, AgentsKept, BatchKept DEF Outcomes
<1>2. /\ call' = Call(call'.op, call'.update, call'.before)
      /\ call'.update = NoUpdate
      /\ call'.op = IF stream_ts = 0 THEN "none" ELSE "stop"
      /\ stream_ts = 0 => call' = NoCall
      /\ ~Updating /\ ~Updating'
  BY <1>0 DEF Call, NoCall, Updating
<1>3. CallOK'
  BY <1>0, <1>2 DEF CallOK, Ops
<1>4. MessagesOK'
  <2>1. stream_stopped' \in BOOLEAN /\ (stream_stopped' <=> stream_ts = 0)
    BY <1>0
  <2>2. NoStreamLeftOpen'
    BY <1>0, <2>1 DEF MessagesOK, NoStreamLeftOpen
  <2>3. call'.op \notin {"rotate_start", "restart"} /\ (stream_ts = 0 => call'.op = "none")
    BY <1>2
  <2>4. QED
    BY <1>0, <2>1, <2>2, <2>3 DEF MessagesOK, Steps
<1>5. ShownOK'
  <2>1. ~stream_stopped
    BY <1>0 DEF MessagesOK
  <2>2. \A s : EndsIn(s) <=> EndsIn(s)'
    BY <1>0 DEF EndsIn
  <2>3. Steps' = Steps /\ ShownScopes' = ShownScopes
    BY <1>0, <1>2 DEF Steps, ShownScopes
  <2>4. \A s \in Steps : Current(s)' = Current(s) /\ call.update # Update(s, steps[s].owner, "complete")
    BY <1>0 DEF Current, NoCall, NoUpdate, Call, Update
  <2>5. ClosedMessagesAreSettled => ClosedMessagesAreSettled'
    BY <1>0 DEF ClosedMessagesAreSettled, RunningIn
  <2>6. call'.op \in {"none", "stop"} /\ outcome' # "running"
    BY <1>0, <1>2
  <2>7. QED
    BY <1>0, <2>1, <2>2, <2>3, <2>4, <2>5, <2>6 DEF ShownOK
<1>6. QED
  BY <1>1, <1>3, <1>4, <1>5 DEF StreamInv

\* Time, and a sub-agent that fails.
LEMMA AgesKeepsInv ==
  ASSUME StreamInv, StreamAges \/ UNCHANGED streamVars
  PROVE  StreamInv'
<1>1. /\ UNCHANGED <<steps, active_step, step_of_task, updates, active_scopes, agent, outcome,
                     crowded, stream_ts, stream_stopped, call, messages, faults, abandoned>>
  BY DEF StreamAges, streamVars, projectorVars, reporterVars, lifecycleVars, slackVars, agentVars
<1>2. outcome' \in Outcomes /\ (outcome' = "succeeded" => agent[Lead] = "done")
  BY <1>1 DEF StreamInv, AgentsOK
<1>3. QED
  BY <1>1, <1>2, StepsKept, AgentsKept, BatchKept, CallKept, MessagesKept, ShownKept DEF StreamInv

LEMMA SubAgentFailsKeepsInv ==
  ASSUME StreamInv, NEW a \in SubAgent, SubAgentFails(a)
  PROVE  StreamInv'
<1>0. /\ agent[a] = "running" /\ agent' = [agent EXCEPT ![a] = "failed"]
      /\ UNCHANGED <<steps, active_step, step_of_task, updates, active_scopes, outcome,
                     crowded, stream_ts, stream_stopped, call, messages, faults, abandoned>>
      /\ StepsOK /\ AgentsOK /\ BatchOK /\ CallOK /\ MessagesOK /\ ShownOK
  BY DEF SubAgentFails, projectorVars, reporterVars, lifecycleVars, slackVars, StreamInv
<1>1. StepsOK' /\ BatchOK' /\ CallOK' /\ MessagesOK' /\ ShownOK'
  BY <1>0, StepsKept, BatchKept, CallKept, MessagesKept, ShownKept
<1>2. /\ agent' \in [Owner -> {"idle", "running", "done", "failed"}]
      /\ agent'[a] = "failed" /\ \A o \in Owner : o # a => agent'[o] = agent[o]
      /\ agent'[Lead] = agent[Lead]
  BY <1>0, StreamAssumption DEF AgentsOK, SubAgent
<1>3. \A s \in Steps : steps[s].owner \in Owner
  BY <1>0, StepsTyped DEF Step
<1>4. AgentsOK'
  <2>1. \A t \in Tool : ToolRunning(Lead, t) => ToolRunning(Lead, t)'
    BY <1>0 DEF ToolRunning
  <2>2. \A b \in SubAgent : agent'[b] = "running" => ToolRunning(Lead, SpawnCall[b])'
    <3> SUFFICES ASSUME NEW b \in SubAgent, agent'[b] = "running"
                 PROVE  ToolRunning(Lead, SpawnCall[b])'
      OBVIOUS
    <3>1. b \in Owner /\ SpawnCall[b] \in Tool
      BY StreamAssumption DEF SubAgent
    <3>2. agent[b] = "running"
      BY <1>2, <3>1
    <3>3. ToolRunning(Lead, SpawnCall[b])
      BY <1>0, <3>2 DEF AgentsOK
    <3>4. QED
      BY <2>1, <3>1, <3>3
  <2>3. \A s \in Steps : /\ agent'[steps[s].owner] # "idle"
                         /\ agent'[steps[s].owner] = "done" => steps[s].completed
    BY <1>0, <1>2, <1>3 DEF AgentsOK
  <2>4. QED
    BY <1>0, <1>2, <2>2, <2>3 DEF AgentsOK, Steps
<1>5. QED
  BY <1>1, <1>4 DEF StreamInv

LEMMA StreamInitInv == StreamInit => StreamInv
<1> SUFFICES ASSUME StreamInit
             PROVE  StreamInv
  OBVIOUS
<1>0. /\ steps = <<>> /\ updates = <<>> /\ messages = <<>> /\ crowded = {}
      /\ active_step = [o \in Owner |-> 0] /\ active_scopes = [o \in Owner |-> 0]
      /\ step_of_task = [o \in Owner |-> [t \in Tool |-> 0]]
      /\ agent = [o \in Owner |-> IF o = Lead THEN "running" ELSE "idle"]
      /\ outcome = "running" /\ stream_ts = 0 /\ stream_stopped = FALSE
      /\ call = NoCall /\ call.op = "none" /\ faults = 0
      /\ Lead \in Owner /\ Len(steps) = 0 /\ Len(updates) = 0 /\ Len(messages) = 0
      /\ Steps = {} /\ MaxSteps \in Nat
  BY StreamAssumption DEF StreamInit, StepsInit, NoScopes, NoCall, Call, Steps
<1>1. StepsOK
  BY <1>0 DEF StepsOK, Owners
<1>2. AgentsOK
  BY <1>0 DEF AgentsOK, SubAgent, Outcomes
<1>3. BatchOK
  BY <1>0 DEF BatchOK, Owners
<1>4. CallOK
  BY <1>0 DEF CallOK, Ops, Updating, NoCall, Call
<1>5. MessagesOK
  <2>1. stream_stopped \in BOOLEAN /\ ~stream_stopped
    BY <1>0
  <2>2. messages \in Seq(Message) /\ stream_ts \in 0..Len(messages) /\ faults \in Nat
    BY <1>0
  <2>3. QED
    BY <1>0, <2>1, <2>2 DEF MessagesOK, NoStreamLeftOpen
<1>6. ShownOK
  BY <1>0 DEF ShownOK, ClosedMessagesAreSettled
<1>7. QED
  BY <1>1, <1>2, <1>3, <1>4, <1>5, <1>6 DEF StreamInv

LEMMA StreamNextInv == StreamInv /\ [StreamNext]_streamVars => StreamInv'
<1> SUFFICES ASSUME StreamInv, [StreamNext]_streamVars
             PROVE  StreamInv'
  OBVIOUS
<1>1. ASSUME NEW o \in Owner, ReportProgress(o) \/ Answer(o)
      PROVE  StreamInv'
  BY <1>1, EventKeepsInv
<1>2. ASSUME NEW o \in Owner, NEW t \in Tool, StartTool(o, t) \/ FinishTool(o, t)
      PROVE  StreamInv'
  BY <1>2, EventKeepsInv
<1>3. ASSUME NEW a \in SubAgent, SubAgentFails(a)
      PROVE  StreamInv'
  BY <1>3, SubAgentFailsKeepsInv
<1>4. CASE Apply
  BY <1>4, ApplyKeepsInv
<1>5. CASE StartOk \/ StartFails
  BY <1>5, StartKeepsInv
<1>6. CASE AppendOk
  BY <1>6, AppendOkKeepsInv
<1>7. CASE AppendFindsStreamEnded \/ AppendFails
  BY <1>7, AppendFailsKeepsInv
<1>8. CASE AppendTooLong
  BY <1>8, AppendTooLongKeepsInv
<1>9. CASE RotatedAppendTooLong \/ AppendFailsForGood
  BY <1>9, DisableKeepsInv
<1>10. CASE RestartOk \/ RestartFails
  BY <1>10, RestartKeepsInv
<1>11. CASE RotateStop
  BY <1>11, RotateStopKeepsInv
<1>12. CASE RotateStart
  BY <1>12, RotateStartKeepsInv
<1>13. CASE StreamAges \/ UNCHANGED streamVars
  BY <1>13, AgesKeepsInv
<1>14. ASSUME NEW s \in {"succeeded", "failed", "cancelled"}, EndSession(s)
       PROVE  StreamInv'
  BY <1>14, EndSessionKeepsInv
<1>15. CASE StopSession
  BY <1>15, StopSessionKeepsInv
<1>16. QED
  BY <1>1, <1>2, <1>3, <1>4, <1>5, <1>6, <1>7, <1>8, <1>9, <1>10, <1>11, <1>12, <1>13,
     <1>14, <1>15 DEF StreamNext

LEMMA StreamHasInv == StreamSpec => []StreamInv
<1>1. QED
  BY StreamInitInv, StreamNextInv, PTL DEF StreamSpec

(***************************************************************************)
(* The theorems.                                                           *)
(***************************************************************************)

\* The reporter holds no step that is over once an event has been handled:
\* a rotation that comes later resumes no step that nobody would end again
\* (upsert_active_scope and remove_active_scope of progress_reporter.rs).
THEOREM ScopesStayOpen == StreamSpec => []ScopesAreOpenSteps
<1>1. StreamInv => ScopesAreOpenSteps
  BY DEF StreamInv, BatchOK, EndsIn, ScopesAreOpenSteps, Settled
<1>2. QED
  BY <1>1, StreamHasInv, PTL

\* Through any number of rotations the current message shows the active step
\* of every agent as running, while no call to Slack fails: the scopes a
\* rotation resumes and the update that follows it leave no one out
\* (apply_with_rotation of stream_lifecycle.rs).
THEOREM ScopesAreShown == StreamSpec => []ActiveScopesAreShown
<1>1. StreamInv => ActiveScopesAreShown
  <2> SUFFICES ASSUME StreamInv, faults = 0, call = NoCall, outcome = "running"
               PROVE  \A o \in Owner : active_scopes[o] # 0 =>
                        stream_ts # 0 /\ messages[stream_ts].shown[active_scopes[o]] = "in_progress"
    BY DEF ActiveScopesAreShown
  <2>1. call.op = "none"
    BY DEF NoCall, Call
  <2>2. QED
    BY <2>1 DEF StreamInv, ShownOK, Current
<1>2. QED
  BY <1>1, StreamHasInv, PTL

\* A task that has succeeded leaves in its last message only what a failed
\* sub-agent left: the lead has answered, so its tool calls have returned, and
\* with them every sub-agent.
THEOREM SuccessIsShown == StreamSpec => []SuccessLeavesNothingRunning
<1>1. StreamInv => SuccessLeavesNothingRunning
  <2> SUFFICES ASSUME StreamInv, faults = 0, Settled, outcome = "succeeded", stream_ts # 0,
                      NEW s \in Steps, messages[stream_ts].shown[s] = "in_progress"
               PROVE  agent[steps[s].owner] = "failed"
    BY DEF SuccessLeavesNothingRunning, Steps
  <2>0. /\ StepsOK /\ AgentsOK /\ ShownOK /\ agent[Lead] = "done"
        /\ steps[s].owner \in Owner /\ Lead \in Owner
    BY StepsTyped, StreamAssumption DEF StreamInv, AgentsOK, Step
  <2>1. ~steps[s].completed
    <3>1. call.update # Update(s, steps[s].owner, "complete") /\ ~EndsIn(s)
      BY DEF Settled, NoCall, Call, NoUpdate, Update, EndsIn
    <3>2. QED
      BY <2>0, <3>1 DEF ShownOK, Current
  <2>2. \A t \in Tool : ~ToolRunning(Lead, t)
    <3> SUFFICES ASSUME NEW t \in Tool, ToolRunning(Lead, t)
                 PROVE  FALSE
      OBVIOUS
    <3> DEFINE r == step_of_task[Lead][t]
    <3>1. r \in OwnedBy(Lead) /\ steps[r].tools[t] = "in_progress"
      BY <2>0 DEF ToolRunning, StepsOK
    <3>2. r \in Steps /\ steps[r].owner = Lead /\ ~steps[r].completed
      BY <2>0, <3>1 DEF StepsOK, OwnedBy
    <3>3. QED
      BY <2>0, <3>2 DEF AgentsOK
  <2>3. \A a \in SubAgent : agent[a] # "running"
    <3>1. \A a \in SubAgent : SpawnCall[a] \in Tool
      BY StreamAssumption DEF SubAgent
    <3>2. QED
      BY <2>0, <2>2, <3>1 DEF AgentsOK
  <2>4. agent[steps[s].owner] \notin {"idle", "done"}
    BY <2>0, <2>1 DEF AgentsOK
  <2>5. agent[steps[s].owner] # "running"
    BY <2>0, <2>3 DEF SubAgent
  <2>6. QED
    BY <2>0, <2>4, <2>5 DEF AgentsOK
<1>2. QED
  BY <1>1, StreamHasInv, PTL

\* No message goes on streaming but the current one of a session that is not
\* over, unless a call to Slack failed on it or a start lost its answer.
THEOREM StreamsAreClosed == StreamSpec => []NoStreamLeftOpen
<1>1. StreamInv => NoStreamLeftOpen
  BY DEF StreamInv, MessagesOK
<1>2. QED
  BY <1>1, StreamHasInv, PTL

\* A message that a rotation or a cancellation has closed shows nothing as
\* running, but for an agent that had two steps open at a time.
THEOREM ClosedIsSettled == StreamSpec => []ClosedMessagesAreSettled
<1>1. StreamInv => ClosedMessagesAreSettled
  BY DEF StreamInv, ShownOK, ClosedMessagesAreSettled
<1>2. QED
  BY <1>1, StreamHasInv, PTL
=============================================================================
