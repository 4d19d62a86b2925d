-------------------------- MODULE AgentRun_proofs ---------------------------
(***************************************************************************)
(* What holds of one run of the agent with any number of sub-agents that     *)
(* work at the same time, of tool calls in a batch, of turns, and for any      *)
(* limits: its budget, what it returns, and what it shows.                   *)
(*                                                                         *)
(* The inductive invariant has a part for each of these and one, Shape, for   *)
(* what all of them need: an agent that is not at its tools has no calls, a   *)
(* sub-agent lives exactly while a call of the lead waits for it, and with    *)
(* an outcome the lead has come to its end.                                  *)
(***************************************************************************)
EXTENDS AgentRun, FiniteSetTheorems, WellFoundedInduction, TLAPS

WorkingPhases == {"completion_call", "completing", "tools"}

Shape ==
    /\ \A a \in Agent : phase[a] # "tools" => call[a] = NoCalls
    /\ \A a \in Agent : phase[a] \notin WorkingPhases => turn[a] = 0
    /\ \A a \in Agent : phase[a] = "completing" => turn[a] > 0
    /\ \A c \in Call :
          child[c] # None => call[lead][c] = "waiting" /\ tool[lead][c] = "spawn_agent"
    /\ \A c, d \in Call : child[c] = child[d] /\ child[c] # None => c = d
    /\ \A s \in Sub : phase[s] # "absent" <=> \E c \in Call : child[c] = s
    /\ outcome # None => phase[lead] \notin WorkingPhases
    /\ mode = "task" <=> limits = Unlimited

(* on_tool_call and on_spawn_sub_agent: what is let through is counted.        *)
Counted ==
    /\ allowedCalls <= toolCalls /\ allowedCalls <= limits.toolCalls
    /\ spawned <= subAgents /\ spawned <= limits.subAgents

(* Every request under way may still bring the tokens of one answer.          *)
Completing == {a \in Agent : phase[a] = "completing"}
OverspendCovered ==
    tokens + AnswerTokens * Cardinality(Completing)
        < 2 * limits.tokens + AnswerTokens * Cardinality(Sub)

(* The requests that an agent may still make, and those of a task as a whole:  *)
(* each of its tokens was taken by one of the requests that are gone.        *)
RequestsLeft ==
    {r \in Agent \X (1..MaxTurns) :
        /\ phase[r[1]] \in WorkingPhases \cup {"preparing"}
        /\ r[2] > turn[r[1]] \/ (r[2] = turn[r[1]] /\ phase[r[1]] = "completing")}
TaskStaysSmall ==
    mode = "task" =>
        /\ spawned <= MaxTaskSpawns
        /\ \E made \in 0 .. MaxTurns * (MaxTaskSpawns + 1) :
              /\ tokens <= AnswerTokens * made
              /\ made + Cardinality(RequestsLeft) + MaxTurns * (MaxTaskSpawns - spawned)
                    <= MaxTurns * (MaxTaskSpawns + 1)

(* So that only a cancellation stops the agents of a task.                   *)
StopsAreCancellations ==
    /\ mode = "task" => \A a \in Agent : phase[a] = "stopped" => cancelled
    /\ outcome = "cancelled" => cancelled

(* The slot has what was accepted until the run returns it.                   *)
ReportKept ==
    /\ outcome = None => reportSlot = accepted
    /\ mode = "task" \/ phase[lead] = "preparing" => accepted = None
    /\ mode = "task" => \A c \in Call : tool[lead][c] # "submit_cycle_report"
    /\ outcome = "completed" => returned = accepted
    /\ outcome = "failed" => accepted = None

(* A call that is shown as started is under way, or was dropped by an agent    *)
(* that the cancellation stopped: then the lead is stopped too, or will be     *)
(* when it handles the result of the call that waited for that agent.        *)
UnderWay == {"running", "waiting", "returned"}
StopReachesLead ==
    /\ cancelled
    /\ \/ phase[lead] \in {"stopped", "dropped"}
       \/ \E d \in Call : call[lead][d] \in {"waiting", "returned"}
OpenCallsKnown ==
    \A a \in Agent, c \in Call :
        <<a, c>> \in openCalls => call[a][c] \in UnderWay \/ StopReachesLead

AgentInv ==
    /\ RunTypeOK /\ Shape /\ Counted /\ OverspendCovered /\ TaskStaysSmall
    /\ StopsAreCancellations /\ ReportKept /\ OpenCallsKnown

EndPhases == {"stopped", "turns_used_up", "error", "answered", "dropped"}

(***************************************************************************)
(* What a step keeps by what it leaves alone.                               *)
(***************************************************************************)

LEMMA CountedKept ==
    ASSUME Counted, UNCHANGED <<limits, toolCalls, subAgents, allowedCalls, spawned>>
    PROVE  Counted'
BY DEF Counted

(* No agent has more requests to make after the step than before.             *)
LessToDo ==
    \A a \in Agent :
        \/ phase'[a] = phase[a] /\ turn'[a] = turn[a]
        \/ phase'[a] \notin WorkingPhases \cup {"preparing"}
        \/ /\ phase[a] \in {"preparing", "tools"}
           /\ phase'[a] = "completion_call"
           /\ turn'[a] = turn[a]

LEMMA AgentsFinite == IsFiniteSet(Agent) /\ Cardinality(Agent) = Cardinality(Sub) + 1
BY AgentAssumption, FS_AddElement DEF Agent

LEMMA SubsetsFinite ==
    /\ \A S \in SUBSET Agent : IsFiniteSet(S) /\ Cardinality(S) \in Nat
    /\ \A R \in SUBSET (Agent \X (1..MaxTurns)) : IsFiniteSet(R) /\ Cardinality(R) \in Nat
<1>1. IsFiniteSet(1..MaxTurns)
  BY AgentAssumption, FS_Interval
<1>2. IsFiniteSet(Agent \X (1..MaxTurns))
  BY <1>1, AgentsFinite, FS_Product
<1>3. QED
  BY <1>2, AgentsFinite, FS_Subset, FS_CardinalityType

LEMMA TurnsOfAnAgent ==
    ASSUME NEW a
    PROVE  /\ IsFiniteSet({a} \X (1..MaxTurns))
           /\ Cardinality({a} \X (1..MaxTurns)) = MaxTurns
<1>1. MaxTurns \in Nat
  BY AgentAssumption
<1>2. IsFiniteSet(1..MaxTurns)
  BY <1>1, FS_Interval
<1>3. Cardinality(1..MaxTurns) = MaxTurns
  <2>1. Cardinality(1..MaxTurns) = IF 1 > MaxTurns THEN 0 ELSE MaxTurns - 1 + 1
    BY <1>1, FS_Interval
  <2>2. QED
    BY <1>1, <2>1
<1>4. IsFiniteSet({a}) /\ Cardinality({a}) = 1
  BY FS_Singleton
<1>5. /\ IsFiniteSet({a} \X (1..MaxTurns))
      /\ Cardinality({a} \X (1..MaxTurns)) = Cardinality({a}) * Cardinality(1..MaxTurns)
  BY <1>2, <1>4, FS_Product
<1>6. QED
  BY <1>1, <1>3, <1>4, <1>5

LEMMA TimesKeepsOrder ==
    ASSUME NEW k \in Nat, NEW m \in Nat, NEW n \in Nat, m <= n
    PROVE  k * m <= k * n
<1>1. PICK d \in Nat : n = m + d
  BY n - m \in Nat
<1>2. k * (m + d) = k * m + k * d /\ k * m \in Nat /\ k * d \in Nat
  OBVIOUS
<1>3. QED
  BY <1>1, <1>2

LEMMA LessIsCovered ==
    ASSUME RunTypeOK, OverspendCovered, TaskStaysSmall, LessToDo,
           UNCHANGED <<mode, limits, tokens, spawned>>
    PROVE  OverspendCovered' /\ TaskStaysSmall'
<1>1. Completing' \subseteq Completing
  BY DEF Completing, LessToDo, WorkingPhases
<1>2. RequestsLeft' \subseteq RequestsLeft
  BY DEF RequestsLeft, LessToDo, WorkingPhases
<1>3. /\ Cardinality(Completing') \in Nat
      /\ Cardinality(Completing') <= Cardinality(Completing)
      /\ Cardinality(Completing) \in Nat
  <2>1. Completing \in SUBSET Agent /\ Completing' \in SUBSET Agent
    BY DEF Completing
  <2>2. QED
    BY <1>1, <2>1, SubsetsFinite, FS_Subset
<1>4. /\ Cardinality(RequestsLeft') \in Nat
      /\ Cardinality(RequestsLeft') <= Cardinality(RequestsLeft)
      /\ Cardinality(RequestsLeft) \in Nat
  <2>1. /\ RequestsLeft \in SUBSET (Agent \X (1..MaxTurns))
        /\ RequestsLeft' \in SUBSET (Agent \X (1..MaxTurns))
    BY DEF RequestsLeft
  <2>2. QED
    BY <1>2, <2>1, SubsetsFinite, FS_Subset
<1>5. AnswerTokens * Cardinality(Completing') <= AnswerTokens * Cardinality(Completing)
  BY <1>3, TimesKeepsOrder, AgentAssumption
<1>6. /\ tokens \in Nat /\ limits.tokens \in Nat /\ Cardinality(Sub) \in Nat
      /\ spawned \in Nat
  BY LimitsAssumption, AgentAssumption, FS_CardinalityType
     DEF RunTypeOK, RunLimits, Unlimited, NoLimit
<1>7. OverspendCovered'
  <2>1. AnswerTokens * Cardinality(Completing') \in Nat
        /\ AnswerTokens * Cardinality(Completing) \in Nat
        /\ AnswerTokens * Cardinality(Sub) \in Nat
    BY <1>3, <1>6, AgentAssumption
  <2>2. QED
    BY <1>5, <1>6, <2>1 DEF OverspendCovered
<1>8. TaskStaysSmall'
  <2>1. CASE mode = "task"
    <3>1. PICK made \in 0 .. MaxTurns * (MaxTaskSpawns + 1) :
            /\ tokens <= AnswerTokens * made
            /\ made + Cardinality(RequestsLeft) + MaxTurns * (MaxTaskSpawns - spawned)
                  <= MaxTurns * (MaxTaskSpawns + 1)
      BY <2>1 DEF TaskStaysSmall
    <3>2. MaxTurns * (MaxTaskSpawns - spawned) \in Int /\ MaxTurns * (MaxTaskSpawns + 1) \in Int
      BY <1>6, AgentAssumption
    <3>3. made + Cardinality(RequestsLeft') + MaxTurns * (MaxTaskSpawns - spawned)
             <= MaxTurns * (MaxTaskSpawns + 1)
      BY <1>4, <3>1, <3>2
    <3>4. QED
      BY <2>1, <3>1, <3>3 DEF TaskStaysSmall
  <2>2. QED
    BY <2>1 DEF TaskStaysSmall
<1>9. QED
  BY <1>7, <1>8

LEMMA StopsKept ==
    ASSUME StopsAreCancellations, UNCHANGED <<mode, outcome>>, cancelled => cancelled',
           \A a \in Agent : phase'[a] = "stopped" => phase[a] = "stopped" \/ cancelled
    PROVE  StopsAreCancellations'
BY DEF StopsAreCancellations

LEMMA ReportKeptKept ==
    ASSUME ReportKept, UNCHANGED <<mode, outcome, returned, accepted, reportSlot>>,
           phase'[lead] = "preparing" => phase[lead] = "preparing",
           \A c \in Call : tool'[lead][c] \in {tool[lead][c], "none"}
    PROVE  ReportKept'
BY DEF ReportKept

LEMMA OpenCallsKept ==
    ASSUME OpenCallsKnown, openCalls' \subseteq openCalls, cancelled' = cancelled,
           \A a \in Agent, c \in Call :
              call[a][c] \in UnderWay /\ <<a, c>> \in openCalls' =>
                 call'[a][c] \in UnderWay \/ StopReachesLead',
           StopReachesLead => StopReachesLead'
    PROVE  OpenCallsKnown'
BY DEF OpenCallsKnown

LEMMA NoCallsTyped ==
    /\ NoCalls \in [Call -> CallStates]
    /\ NoCalls \in [Call -> ToolNames]
    /\ \A c \in Call : NoCalls[c] = "none"
BY DEF NoCalls, CallStates, ToolNames

(* The lead is at its tools while a sub-agent lives.                         *)
LEMMA LeadWaits ==
    ASSUME Shape, NEW s \in Sub, phase[s] # "absent"
    PROVE  /\ phase[lead] = "tools"
           /\ \E c \in Call : child[c] = s /\ call[lead][c] = "waiting"
<1>1. PICK c \in Call : child[c] = s
  BY DEF Shape
<1>2. call[lead][c] = "waiting"
  BY <1>1, AgentAssumption DEF Shape
<1>3. phase[lead] = "tools"
  BY <1>2, NoCallsTyped DEF Shape, Agent
<1>4. QED
  BY <1>1, <1>2, <1>3

(* An agent that ends.                                                      *)
LEMMA EndedShape ==
    ASSUME RunTypeOK, Shape, NEW a \in Agent, NEW how \in EndPhases,
           a = lead \/ phase[a] \in WorkingPhases, Ended(a, how),
           UNCHANGED <<mode, limits>>, outcome' = outcome \/ a = lead
    PROVE  /\ phase' \in [Agent -> Phases]
           /\ turn' \in [Agent -> 0..MaxTurns]
           /\ tool' \in [Agent -> [Call -> ToolNames]]
           /\ call' \in [Agent -> [Call -> CallStates]]
           /\ child' \in [Call -> Sub \cup {None}]
           /\ Shape'
           /\ LessToDo
           /\ phase'[lead] = "preparing" => phase[lead] = "preparing"
           /\ \A c \in Call : tool'[lead][c] \in {tool[lead][c], "none"}
<1> USE DEF Ended
<1>0. lead \in Agent /\ Agent = Sub \cup {lead} /\ lead \notin Sub /\ None \notin Sub
  BY AgentAssumption DEF Agent
<1>1. /\ phase' \in [Agent -> Phases]
      /\ turn' \in [Agent -> 0..MaxTurns]
      /\ child' \in [Call -> Sub \cup {None}]
  BY AgentAssumption DEF RunTypeOK, Phases, EndPhases
<1>2. /\ tool' \in [Agent -> [Call -> ToolNames]]
      /\ call' \in [Agent -> [Call -> CallStates]]
  BY NoCallsTyped DEF RunTypeOK
<1>3. /\ phase'[a] = how
      /\ \A b \in Agent \ {a} : phase'[b] = IF a = lead THEN "absent" ELSE phase[b]
      /\ \A b \in Agent : a \in {b, lead} => call'[b] = NoCalls /\ tool'[b] = NoCalls /\ turn'[b] = 0
      /\ \A b \in Agent : a \notin {b, lead} => call'[b] = call[b] /\ tool'[b] = tool[b] /\ turn'[b] = turn[b]
      /\ \A c \in Call : child'[c] = IF a = lead THEN None ELSE child[c]
  BY DEF RunTypeOK
<1>4. Shape'
  <2>1. \A b \in Agent : phase'[b] # "tools" => call'[b] = NoCalls
    BY <1>0, <1>3 DEF Shape, EndPhases
  <2>2. \A b \in Agent : phase'[b] \notin WorkingPhases => turn'[b] = 0
    BY <1>0, <1>3 DEF Shape, EndPhases, WorkingPhases
  <2>3. \A b \in Agent : phase'[b] = "completing" => turn'[b] > 0
    BY <1>0, <1>3 DEF Shape, EndPhases
  <2>4. \A c \in Call :
          child'[c] # None => call'[lead][c] = "waiting" /\ tool'[lead][c] = "spawn_agent"
    BY <1>0, <1>3 DEF Shape
  <2>5. \A c, d \in Call : child'[c] = child'[d] /\ child'[c] # None => c = d
    BY <1>3 DEF Shape
  <2>6. \A s \in Sub : phase'[s] # "absent" <=> \E c \in Call : child'[c] = s
    BY <1>0, <1>3 DEF Shape, EndPhases, WorkingPhases
  <2>7. outcome' # None => phase'[lead] \notin WorkingPhases
    BY <1>0, <1>3 DEF Shape, EndPhases, WorkingPhases
  <2>8. QED
    BY <2>1, <2>2, <2>3, <2>4, <2>5, <2>6, <2>7 DEF Shape
<1>5. LessToDo
  BY <1>0, <1>3 DEF LessToDo, EndPhases, WorkingPhases
<1>6. \A c \in Call : tool'[lead][c] \in {tool[lead][c], "none"}
  BY <1>0, <1>3, NoCallsTyped
<1>7. phase'[lead] = "preparing" => phase[lead] = "preparing"
  BY <1>0, <1>3 DEF EndPhases
<1>8. QED
  BY <1>1, <1>2, <1>4, <1>5, <1>6, <1>7

(***************************************************************************)
(* The steps of a tool call.                                               *)
(***************************************************************************)

(* A call moves on, and nothing else does.                                   *)
LEMMA MovedCallShape ==
    ASSUME RunTypeOK, Shape, NEW a \in Agent, NEW c \in Call, NEW to \in CallStates,
           phase[a] = "tools", a = lead => child[c] = None,
           call' = [call EXCEPT ![a][c] = to],
           UNCHANGED <<mode, limits, phase, turn, tool, child, outcome>>
    PROVE  /\ call' \in [Agent -> [Call -> CallStates]]
           /\ \A b \in Agent, d \in Call :
                 call'[b][d] = IF b = a /\ d = c THEN to ELSE call[b][d]
           /\ \A b \in Agent : b # a => call'[b] = call[b]
           /\ Shape'
           /\ LessToDo
<1>1. /\ call' \in [Agent -> [Call -> CallStates]]
      /\ \A b \in Agent, d \in Call :
            call'[b][d] = IF b = a /\ d = c THEN to ELSE call[b][d]
      /\ \A b \in Agent : b # a => call'[b] = call[b]
  BY DEF RunTypeOK
<1>2. \A d \in Call : child[d] # None => call'[lead][d] = "waiting"
  BY <1>1 DEF Shape, Agent
<1>3. Shape'
  BY <1>1, <1>2 DEF Shape
<1>4. LessToDo
  BY DEF LessToDo
<1>5. QED
  BY <1>1, <1>3, <1>4

(* A call that is under way stays so until it is handled.                    *)
LEMMA CallStepKeepsInv ==
    ASSUME AgentInv, NEW a \in Agent, NEW c \in Call,
           NEW from \in {"running", "waiting"}, NEW to \in {"waiting", "returned"},
           At(a, c, from), a = lead => child[c] = None,
           call' = [call EXCEPT ![a][c] = to],
           UNCHANGED <<mode, phase, turn, tool, child, cancelled, outcome, returned,
                       openCalls, limits, tokens, spawned>>,
           Counted', {subAgents', toolCalls', allowedCalls'} \subseteq Nat,
           \/ UNCHANGED <<reportSlot, accepted>>
           \/ /\ accepted' \in Report /\ reportSlot' = accepted'
              /\ a = lead /\ mode # "task"
    PROVE  AgentInv'
<1>0. /\ RunTypeOK /\ Shape /\ OverspendCovered /\ TaskStaysSmall /\ ReportKept
      /\ phase[a] = "tools" /\ call[a][c] = from
  BY DEF AgentInv, At
<1>1. /\ call' \in [Agent -> [Call -> CallStates]]
      /\ \A b \in Agent, d \in Call :
            call'[b][d] = IF b = a /\ d = c THEN to ELSE call[b][d]
      /\ Shape'
      /\ LessToDo
  <2>1. to \in CallStates
    BY DEF CallStates
  <2>2. UNCHANGED <<mode, limits, phase, turn, tool, child, outcome>>
    OBVIOUS
  <2>3. QED
    BY <1>0, <2>1, <2>2, MovedCallShape
<1>2. RunTypeOK'
  BY <1>0, <1>1 DEF RunTypeOK
<1>3. OverspendCovered' /\ TaskStaysSmall'
  BY <1>0, <1>1, LessIsCovered
<1>4. StopsAreCancellations'
  BY StopsKept DEF AgentInv
<1>5. ReportKept'
  <2>1. CASE UNCHANGED <<reportSlot, accepted>>
    BY <1>0, <2>1, ReportKeptKept
  <2>2. CASE accepted' \in Report /\ reportSlot' = accepted' /\ a = lead /\ mode # "task"
    <3>0. phase[lead] = "tools"
      BY <1>0, <2>2
    <3>1. outcome = None
      BY <1>0, <3>0 DEF Shape, WorkingPhases
    <3>2. phase'[lead] = "tools" /\ outcome' = None /\ None \notin Outcomes
      BY <3>0, <3>1, AgentAssumption
    <3>3. QED
      BY <2>2, <3>2 DEF ReportKept, Outcomes
  <2>3. QED
    BY <2>1, <2>2
<1>6. OpenCallsKnown'
  <2>1. StopReachesLead => StopReachesLead'
    BY <1>1 DEF StopReachesLead, Agent
  <2>2. \A b \in Agent, d \in Call : call[b][d] \in UnderWay => call'[b][d] \in UnderWay
    BY <1>0, <1>1 DEF UnderWay
  <2>3. QED
    BY <2>1, <2>2, OpenCallsKept DEF AgentInv
<1>7. QED
  BY <1>1, <1>2, <1>3, <1>4, <1>5, <1>6 DEF AgentInv

LEMMA SearchKeepsInv ==
    ASSUME AgentInv, NEW a \in Agent, NEW c \in Call, Search(a, c)
    PROVE  AgentInv'
<1>1. a = lead => child[c] = None
  BY DEF AgentInv, Shape, Search
<1>2. Counted' /\ {subAgents', toolCalls', allowedCalls'} \subseteq Nat
  BY CountedKept DEF AgentInv, RunTypeOK, Search, auxVars, budgetVars
<1>3. QED
  BY <1>1, <1>2, CallStepKeepsInv DEF Search, ToolReturns, endVars, auxVars, budgetVars

LEMMA SubmitReportKeepsInv ==
    ASSUME AgentInv, NEW c \in Call, SubmitReport(c)
    PROVE  AgentInv'
<1> USE DEF SubmitReport
<1>0. lead \in Agent
  BY DEF Agent
<1>1. child[c] = None /\ mode # "task"
  BY DEF AgentInv, Shape, ReportKept
<1>2. Counted' /\ {subAgents', toolCalls', allowedCalls'} \subseteq Nat
  BY CountedKept DEF AgentInv, RunTypeOK, budgetVars
<1>3. QED
  BY <1>0, <1>1, <1>2, CallStepKeepsInv DEF ToolReturns, budgetVars

LEMMA SaveMemoryKeepsInv ==
    ASSUME AgentInv, NEW c \in Call, SaveMemory(c) \/ MemorySaved(c)
    PROVE  AgentInv'
<1> USE DEF SaveMemory, MemorySaved
<1>0. lead \in Agent
  BY DEF Agent
<1>1. child[c] = None
  BY DEF AgentInv, Shape
<1>2. Counted' /\ {subAgents', toolCalls', allowedCalls'} \subseteq Nat
  BY CountedKept DEF AgentInv, RunTypeOK, auxVars, budgetVars
<1>3. QED
  BY <1>0, <1>1, <1>2, CallStepKeepsInv DEF ToolReturns, endVars, auxVars, budgetVars

(* A step that ends an agent: in the middle of its calls only if the run is    *)
(* cancelled.                                                              *)
LEMMA EndingKeeps ==
    ASSUME AgentInv, NEW a \in Agent, NEW how \in EndPhases,
           IF how = "dropped" THEN a = lead /\ cancelled ELSE phase[a] \in WorkingPhases,
           phase[a] = "tools" => cancelled /\ how \in {"stopped", "dropped"},
           Ended(a, how), UNCHANGED <<mode, limits, cancelled>>,
           outcome' = outcome \/ a = lead, openCalls' \subseteq openCalls
    PROVE  /\ phase' \in [Agent -> Phases]
           /\ turn' \in [Agent -> 0..MaxTurns]
           /\ tool' \in [Agent -> [Call -> ToolNames]]
           /\ call' \in [Agent -> [Call -> CallStates]]
           /\ child' \in [Call -> Sub \cup {None}]
           /\ Shape'
           /\ LessToDo
           /\ OpenCallsKnown'
           /\ phase'[lead] = "preparing" => phase[lead] = "preparing"
           /\ \A c \in Call : tool'[lead][c] \in {tool[lead][c], "none"}
           /\ \A b \in Agent : phase'[b] \in {phase[b], "absent", how}
<1>0. RunTypeOK /\ Shape /\ OpenCallsKnown
  BY DEF AgentInv
<1>1. /\ phase' \in [Agent -> Phases]
      /\ turn' \in [Agent -> 0..MaxTurns]
      /\ tool' \in [Agent -> [Call -> ToolNames]]
      /\ call' \in [Agent -> [Call -> CallStates]]
      /\ child' \in [Call -> Sub \cup {None}]
      /\ Shape'
      /\ LessToDo
      /\ phase'[lead] = "preparing" => phase[lead] = "preparing"
      /\ \A c \in Call : tool'[lead][c] \in {tool[lead][c], "none"}
  BY <1>0, EndedShape
<1>2. /\ lead \in Agent
      /\ phase'[a] = how
      /\ \A b \in Agent : a \notin {b, lead} => call'[b] = call[b]
      /\ \A b \in Agent : phase'[b] \in {phase[b], "absent", how}
  BY <1>0 DEF Ended, Agent, RunTypeOK
<1>3. ASSUME phase[a] # "tools" PROVE \A c \in Call : call[a][c] \notin UnderWay
  BY <1>0, <1>3, NoCallsTyped DEF Shape, UnderWay
<1>4. OpenCallsKnown'
  <2>1. CASE cancelled /\ a = lead /\ how \in {"stopped", "dropped"}
    BY <1>2, <2>1 DEF StopReachesLead, OpenCallsKnown
  <2>2. CASE a = lead /\ phase[lead] # "tools" /\ how # "dropped"
    <3>1. \A b \in Agent : call[b] = NoCalls
      BY <1>0, <2>2, LeadWaits DEF Shape, Agent
    <3>2. \A b \in Agent, c \in Call : call[b][c] = "none"
      BY <3>1, NoCallsTyped
    <3>3. ~StopReachesLead
      BY <1>2, <2>2, <3>2 DEF StopReachesLead, WorkingPhases
    <3>4. openCalls = {}
      BY <1>0, <3>2, <3>3 DEF OpenCallsKnown, UnderWay, RunTypeOK
    <3>5. QED
      BY <3>4 DEF OpenCallsKnown
  <2>3. CASE a # lead
    <3>1. PICK d \in Call : call[lead][d] = "waiting"
      BY <1>0, <2>3, LeadWaits DEF Agent, WorkingPhases
    <3>2. call'[lead] = call[lead]
      BY <1>2, <2>3
    <3>3. cancelled => StopReachesLead'
      BY <3>1, <3>2 DEF StopReachesLead
    <3>4. CASE cancelled
      BY <3>3, <3>4 DEF OpenCallsKnown
    <3>5. CASE ~cancelled
      <4>1. ~StopReachesLead /\ \A c \in Call : call[a][c] \notin UnderWay
        BY <1>3, <3>5 DEF StopReachesLead
      <4>2. QED
        BY <1>0, <1>2, <2>3, <4>1 DEF OpenCallsKnown, RunTypeOK
    <3>6. QED
      BY <3>4, <3>5
  <2>4. QED
    BY <2>1, <2>2, <2>3
<1>5. QED
  BY <1>1, <1>2, <1>4

(***************************************************************************)
(* The steps of the run.                                                   *)
(***************************************************************************)

(* What the agents hold is left alone, and the run may get its outcome.       *)
LEMMA RunStepKeepsInv ==
    ASSUME AgentInv, UNCHANGED <<mode, runVars, cancelled, auxVars, budgetVars>>,
           outcome' \in Outcomes \cup {None},
           {reportSlot', returned'} \subseteq Report \cup {None},
           outcome' # None => phase[lead] \notin WorkingPhases,
           outcome' = "cancelled" => cancelled,
           outcome' = None => reportSlot' = accepted,
           outcome' = "completed" => returned' = accepted,
           outcome' = "failed" => accepted = None
    PROVE  AgentInv'
<1> USE DEF runVars, auxVars, budgetVars
<1>1. RunTypeOK'
  BY DEF AgentInv, RunTypeOK
<1>2. Shape'
  BY DEF AgentInv, Shape
<1>3. Counted'
  BY CountedKept DEF AgentInv
<1>4. OverspendCovered' /\ TaskStaysSmall'
  BY LessIsCovered DEF AgentInv, LessToDo
<1>5. StopsAreCancellations'
  BY DEF AgentInv, StopsAreCancellations
<1>6. ReportKept'
  BY DEF AgentInv, ReportKept
<1>7. OpenCallsKnown'
  BY DEF AgentInv, OpenCallsKnown, StopReachesLead
<1>8. QED
  BY <1>1, <1>2, <1>3, <1>4, <1>5, <1>6, <1>7 DEF AgentInv

LEMMA PrepareConnectorsKeepsInv ==
    ASSUME AgentInv, PrepareConnectors
    PROVE  AgentInv'
<1> USE DEF PrepareConnectors
<1>0. /\ RunTypeOK /\ Shape /\ ReportKept /\ OpenCallsKnown
      /\ accepted = None /\ reportSlot = accepted
      /\ lead \in Agent /\ None \notin Outcomes
  BY AgentAssumption DEF AgentInv, ReportKept, Agent
<1>1. CASE UNCHANGED phase
  <2>1. \/ Returns("cancelled", None) /\ cancelled
        \/ Returns("failed", None)
    BY <1>0, <1>1 DEF RunTypeOK
  <2>2. QED
    BY <1>0, <1>1, <2>1, RunStepKeepsInv
       DEF Returns, runVars, RunTypeOK, Outcomes, WorkingPhases
<1>2. CASE /\ phase' = [phase EXCEPT ![lead] = "completion_call"]
           /\ UNCHANGED endVars
  <2> USE DEF auxVars, budgetVars, endVars
  <2>1. /\ phase' \in [Agent -> Phases]
        /\ phase'[lead] = "completion_call"
        /\ \A a \in Agent \ {lead} : phase'[a] = phase[a]
    BY <1>0, <1>2 DEF RunTypeOK, Phases
  <2>2. RunTypeOK'
    BY <1>0, <1>2, <2>1 DEF RunTypeOK
  <2>3. Shape'
    BY <1>0, <1>2, <2>1 DEF Shape, Agent, WorkingPhases
  <2>4. Counted'
    BY <1>2, CountedKept DEF AgentInv
  <2>5. OverspendCovered' /\ TaskStaysSmall'
    BY <1>2, <2>1, LessIsCovered DEF AgentInv, LessToDo
  <2>6. StopsAreCancellations'
    BY <1>2, <2>1, StopsKept DEF AgentInv
  <2>7. ReportKept'
    BY <1>0, <1>2, <2>1, ReportKeptKept
  <2>8. OpenCallsKnown'
    BY <1>0, <1>2, OpenCallsKept DEF StopReachesLead
  <2>9. QED
    BY <2>2, <2>3, <2>4, <2>5, <2>6, <2>7, <2>8 DEF AgentInv
<1>3. QED
  BY <1>1, <1>2

LEMMA TaskReturnsKeepsInv ==
    ASSUME AgentInv, TaskReturns
    PROVE  AgentInv'
<1> USE DEF TaskReturns
<1>0. /\ RunTypeOK /\ ReportKept
      /\ accepted = None /\ reportSlot = accepted
      /\ lead \in Agent /\ None \notin Outcomes
  BY AgentAssumption DEF AgentInv, ReportKept, Agent
<1>1. phase[lead] = "stopped" => cancelled
  BY <1>0 DEF AgentInv, StopsAreCancellations
<1>2. /\ phase[lead] \notin WorkingPhases
      /\ \/ Returns("cancelled", None) /\ cancelled
         \/ Returns("failed", None)
         \/ Returns("succeeded", None)
  BY <1>1 DEF WorkingPhases
<1>3. QED
  BY <1>0, <1>2, RunStepKeepsInv DEF Returns, RunTypeOK, Outcomes

LEMMA CycleReturnsKeepsInv ==
    ASSUME AgentInv, CycleReturns
    PROVE  AgentInv'
<1> USE DEF CycleReturns, CycleReturnsAfterError
<1>0. /\ RunTypeOK /\ ReportKept
      /\ reportSlot = accepted
      /\ lead \in Agent /\ None \notin Outcomes
  BY AgentAssumption DEF AgentInv, ReportKept, Agent
<1>1. /\ phase[lead] \notin WorkingPhases
      /\ \/ Returns("cancelled", None) /\ cancelled
         \/ Returns("failed", None) /\ reportSlot = None
         \/ Returns("completed", reportSlot)
  BY DEF WorkingPhases
<1>2. QED
  BY <1>0, <1>1, RunStepKeepsInv DEF Returns, RunTypeOK, Outcomes

LEMMA CancelKeepsInv ==
    ASSUME AgentInv, Cancel
    PROVE  AgentInv'
<1> USE DEF Cancel, runVars, endVars, auxVars, budgetVars
<1>1. RunTypeOK' /\ Shape'
  BY DEF AgentInv, RunTypeOK, Shape
<1>2. Counted'
  BY CountedKept DEF AgentInv
<1>3. OverspendCovered' /\ TaskStaysSmall'
  BY LessIsCovered DEF AgentInv, LessToDo
<1>4. StopsAreCancellations'
  BY DEF AgentInv, StopsAreCancellations
<1>5. ReportKept'
  BY DEF AgentInv, ReportKept
<1>6. OpenCallsKnown'
  BY DEF AgentInv, OpenCallsKnown, StopReachesLead
<1>7. QED
  BY <1>1, <1>2, <1>3, <1>4, <1>5, <1>6 DEF AgentInv

LEMMA MemoryKeepsInv ==
    ASSUME AgentInv, LearnFact \/ MemoryStep
    PROVE  AgentInv'
<1>0. RunTypeOK /\ ReportKept /\ StopsAreCancellations /\ Shape
  BY DEF AgentInv
<1>1. UNCHANGED <<mode, runVars, cancelled, reportSlot, outcome, returned, auxVars, budgetVars>>
  BY DEF LearnFact, MemoryStep, endVars
<1>2. QED
  BY <1>0, <1>1, RunStepKeepsInv DEF RunTypeOK, ReportKept, StopsAreCancellations, Shape

LEMMA DroppedKeepsInv ==
    ASSUME AgentInv, Dropped
    PROVE  AgentInv'
<1> USE DEF Dropped, auxVars, budgetVars
<1>0. /\ RunTypeOK /\ ReportKept
      /\ lead \in Agent /\ "dropped" \in EndPhases /\ "dropped" \in Outcomes
      /\ None \notin Outcomes /\ outcome' = "dropped"
  BY AgentAssumption DEF AgentInv, Agent, EndPhases, Outcomes, Returns
<1>1. /\ phase' \in [Agent -> Phases]
      /\ turn' \in [Agent -> 0..MaxTurns]
      /\ tool' \in [Agent -> [Call -> ToolNames]]
      /\ call' \in [Agent -> [Call -> CallStates]]
      /\ child' \in [Call -> Sub \cup {None}]
      /\ Shape'
      /\ LessToDo
      /\ OpenCallsKnown'
      /\ phase'[lead] = "preparing" => phase[lead] = "preparing"
      /\ \A c \in Call : tool'[lead][c] \in {tool[lead][c], "none"}
      /\ \A b \in Agent : phase'[b] \in {phase[b], "absent", "dropped"}
  BY <1>0, EndingKeeps
<1>2. reportSlot' = reportSlot /\ returned' = None /\ accepted' = accepted /\ mode' = mode
  BY DEF Returns
<1>3. RunTypeOK'
  BY <1>0, <1>1, <1>2 DEF RunTypeOK
<1>4. Counted'
  BY CountedKept DEF AgentInv
<1>5. OverspendCovered' /\ TaskStaysSmall'
  BY <1>1, LessIsCovered DEF AgentInv
<1>6. StopsAreCancellations'
  BY <1>0 DEF StopsAreCancellations
<1>7. ReportKept'
  BY <1>0, <1>1, <1>2 DEF ReportKept
<1>8. QED
  BY <1>1, <1>3, <1>4, <1>5, <1>6, <1>7 DEF AgentInv

(***************************************************************************)
(* The requests to the model.                                              *)
(***************************************************************************)

LEMMA TokensTyped ==
    ASSUME RunTypeOK
    PROVE  /\ tokens \in Nat /\ spawned \in Nat
           /\ limits.tokens \in Nat
           /\ Cardinality(Sub) \in Nat /\ Cardinality(Sub) > 0
           /\ AnswerTokens \in Nat /\ AnswerTokens > 0
           /\ MaxTurns \in Nat /\ MaxTaskSpawns \in Nat
<1>1. Cardinality(Sub) # 0
  BY AgentAssumption, FS_EmptySet
<1>2. Cardinality(Sub) \in Nat
  BY AgentAssumption, FS_CardinalityType
<1>3. limits.tokens \in Nat
  BY LimitsAssumption DEF RunTypeOK, RunLimits, Unlimited, NoLimit
<1>4. QED
  BY <1>1, <1>2, <1>3, AgentAssumption DEF RunTypeOK

(* The agent that makes a request is the lead alone, or a sub-agent for which  *)
(* the lead waits.                                                         *)
LEMMA RequestIsCovered ==
    ASSUME RunTypeOK, Shape, NEW a \in Agent, phase[a] = "completion_call",
           ~HardLimitReached, phase' = [phase EXCEPT ![a] = "completing"],
           UNCHANGED <<limits, tokens>>
    PROVE  OverspendCovered'
<1>1. /\ phase'[a] = "completing"
      /\ \A b \in Agent \ {a} : phase'[b] = phase[b]
  BY DEF RunTypeOK
<1>2. IsFiniteSet(Completing') /\ Cardinality(Completing') \in Nat
  <2>1. Completing' \in SUBSET Agent
    BY DEF Completing
  <2>2. QED
    BY <2>1, SubsetsFinite
<1>3. Cardinality(Completing') <= Cardinality(Sub)
  <2>1. CASE a = lead
    <3>1. Completing' \subseteq {lead}
      BY <1>1, <2>1, LeadWaits DEF Completing, Agent
    <3>2. Cardinality(Completing') <= 1
      <4>1. IsFiniteSet({lead}) /\ Cardinality({lead}) = 1
        BY FS_Singleton
      <4>2. QED
        BY <3>1, <4>1, FS_Subset
    <3>3. QED
      BY <1>2, <3>2, TokensTyped
  <2>2. CASE a # lead
    <3>1. phase[lead] = "tools"
      BY <2>2, LeadWaits DEF Agent
    <3>2. Completing' \subseteq Sub
      BY <1>1, <2>2, <3>1 DEF Completing, Agent
    <3>3. QED
      BY <3>2, AgentAssumption, FS_Subset
  <2>3. QED
    BY <2>1, <2>2
<1>4. AnswerTokens * Cardinality(Completing') <= AnswerTokens * Cardinality(Sub)
  BY <1>2, <1>3, TokensTyped
<1>5. /\ AnswerTokens * Cardinality(Completing') \in Nat
      /\ AnswerTokens * Cardinality(Sub) \in Nat
  BY <1>2, TokensTyped
<1>6. QED
  BY <1>4, <1>5, TokensTyped DEF OverspendCovered, HardLimitReached

LEMMA RequestStaysSmall ==
    ASSUME RunTypeOK, TaskStaysSmall, NEW a \in Agent, phase[a] = "completion_call",
           turn[a] # MaxTurns,
           phase' = [phase EXCEPT ![a] = "completing"],
           turn' = [turn EXCEPT ![a] = @ + 1],
           UNCHANGED <<mode, tokens, spawned>>
    PROVE  TaskStaysSmall'
<1>1. /\ phase'[a] = "completing" /\ turn'[a] = turn[a] + 1 /\ turn[a] \in Nat
      /\ \A b \in Agent \ {a} : phase'[b] = phase[b] /\ turn'[b] = turn[b]
  BY AgentAssumption DEF RunTypeOK
<1>2. RequestsLeft' = RequestsLeft
  BY <1>1, AgentAssumption DEF RequestsLeft, WorkingPhases
<1>3. QED
  BY <1>2 DEF TaskStaysSmall

(* No task comes near its limits.                                          *)
LEMMA TaskIsNotStopped ==
    ASSUME RunTypeOK, Shape, TaskStaysSmall, mode = "task"
    PROVE  ~HardLimitReached
<1>1. PICK made \in 0 .. MaxTurns * (MaxTaskSpawns + 1) : tokens <= AnswerTokens * made
  BY DEF TaskStaysSmall
<1>2. MaxTurns * (MaxTaskSpawns + 1) \in Nat
  BY TokensTyped
<1>3. AnswerTokens * made <= AnswerTokens * (MaxTurns * (MaxTaskSpawns + 1))
  BY <1>1, <1>2, TokensTyped
<1>4. AnswerTokens * made \in Nat /\ AnswerTokens * (MaxTurns * (MaxTaskSpawns + 1)) \in Nat
  BY <1>1, <1>2, TokensTyped
<1>5. tokens < 2 * Unlimited.tokens
  BY <1>1, <1>3, <1>4, TokensTyped, AgentAssumption DEF Unlimited, NoLimit
<1>6. QED
  BY <1>5, TokensTyped DEF HardLimitReached, Shape, Unlimited, NoLimit

LEMMA HandleCompletionCallKeepsInv ==
    ASSUME AgentInv, NEW a \in Agent, HandleCompletionCall(a)
    PROVE  AgentInv'
<1> USE DEF HandleCompletionCall
<1>0. /\ RunTypeOK /\ Shape /\ ReportKept /\ OpenCallsKnown /\ OverspendCovered
      /\ TaskStaysSmall /\ StopsAreCancellations /\ Counted
      /\ phase[a] = "completion_call" /\ phase[a] \in WorkingPhases
      /\ UNCHANGED <<mode, cancelled, endVars, auxVars, budgetVars>>
  BY DEF AgentInv, WorkingPhases
<1>1. UNCHANGED <<mode, cancelled, reportSlot, outcome, returned, openCalls, accepted,
                  allowedCalls, spawned, limits, toolCalls, subAgents, tokens>>
  BY <1>0 DEF endVars, auxVars, budgetVars
<1>2. Counted'
  BY <1>0, <1>1, CountedKept
<1>3. ASSUME NEW how \in {"turns_used_up", "stopped"}, Ended(a, how),
             how = "stopped" => cancelled \/ HardLimitReached
      PROVE  AgentInv'
  <2>0. how \in EndPhases
    BY DEF EndPhases
  <2>1. /\ phase' \in [Agent -> Phases]
        /\ turn' \in [Agent -> 0..MaxTurns]
        /\ tool' \in [Agent -> [Call -> ToolNames]]
        /\ call' \in [Agent -> [Call -> CallStates]]
        /\ child' \in [Call -> Sub \cup {None}]
        /\ Shape'
        /\ LessToDo
        /\ OpenCallsKnown'
        /\ phase'[lead] = "preparing" => phase[lead] = "preparing"
        /\ \A c \in Call : tool'[lead][c] \in {tool[lead][c], "none"}
        /\ \A b \in Agent : phase'[b] \in {phase[b], "absent", how}
    BY <1>0, <1>1, <1>3, <2>0, EndingKeeps
  <2>2. RunTypeOK'
    BY <1>0, <1>1, <2>1 DEF RunTypeOK
  <2>3. OverspendCovered' /\ TaskStaysSmall'
    BY <1>0, <1>1, <2>1, LessIsCovered
  <2>4. StopsAreCancellations'
    BY <1>0, <1>1, <1>3, <2>1, TaskIsNotStopped DEF StopsAreCancellations
  <2>5. ReportKept'
    BY <1>0, <1>1, <2>1, ReportKeptKept
  <2>6. QED
    BY <1>2, <2>1, <2>2, <2>3, <2>4, <2>5 DEF AgentInv
<1>4. CASE /\ turn[a] # MaxTurns /\ ~cancelled /\ ~HardLimitReached
           /\ phase' = [phase EXCEPT ![a] = "completing"]
           /\ turn' = [turn EXCEPT ![a] = @ + 1]
           /\ UNCHANGED <<tool, call, child, canvasVars>>
  <2>1. /\ phase' \in [Agent -> Phases]
        /\ turn' \in [Agent -> 0..MaxTurns]
        /\ phase'[a] = "completing" /\ turn'[a] = turn[a] + 1 /\ turn[a] \in Nat
        /\ \A b \in Agent \ {a} : phase'[b] = phase[b] /\ turn'[b] = turn[b]
    <3>1. turn[a] \in 0..MaxTurns /\ turn[a] + 1 \in 0..MaxTurns /\ "completing" \in Phases
      <4>1. turn[a] \in 0..MaxTurns
        BY <1>0 DEF RunTypeOK
      <4>2. QED
        BY <1>4, <4>1, AgentAssumption DEF Phases
    <3>2. QED
      BY <1>0, <1>4, <3>1 DEF RunTypeOK
  <2>2. RunTypeOK'
    BY <1>0, <1>1, <1>4, <2>1 DEF RunTypeOK
  <2>3. Shape'
    BY <1>0, <1>1, <1>4, <2>1, AgentAssumption DEF Shape, Agent, WorkingPhases
  <2>4. OverspendCovered' /\ TaskStaysSmall'
    BY <1>0, <1>1, <1>4, RequestIsCovered, RequestStaysSmall
  <2>5. StopsAreCancellations'
    BY <1>0, <1>1, <2>1, StopsKept
  <2>6. ReportKept'
    BY <1>0, <1>1, <1>4, <2>1, ReportKeptKept
  <2>7. OpenCallsKnown'
    BY <1>0, <1>1, <1>4, <2>1, OpenCallsKept DEF StopReachesLead
  <2>8. QED
    BY <1>2, <2>2, <2>3, <2>4, <2>5, <2>6, <2>7 DEF AgentInv
<1>5. QED
  BY <1>3, <1>4

(* An answer takes its tokens, and the request that took them is gone.        *)
LEMMA AnswerIsCovered ==
    ASSUME RunTypeOK, Shape, OverspendCovered, TaskStaysSmall, NEW a \in Agent,
           phase[a] = "completing", phase'[a] \in EndPhases \cup {"tools"},
           phase'[a] = "tools" => turn'[a] = turn[a],
           \A b \in Agent \ {a} :
              phase'[b] = "absent" \/ (phase'[b] = phase[b] /\ turn'[b] = turn[b]),
           tokens' \in {tokens, tokens + AnswerTokens},
           UNCHANGED <<mode, limits, spawned>>
    PROVE  OverspendCovered' /\ TaskStaysSmall'
<1>1. Completing' \subseteq Completing \ {a} /\ a \in Completing
  BY DEF Completing, EndPhases
<1>2. /\ IsFiniteSet(Completing) /\ Cardinality(Completing) \in Nat
      /\ IsFiniteSet(Completing') /\ Cardinality(Completing') \in Nat
      /\ IsFiniteSet(RequestsLeft) /\ Cardinality(RequestsLeft) \in Nat
      /\ IsFiniteSet(RequestsLeft') /\ Cardinality(RequestsLeft') \in Nat
  <2>1. Completing \in SUBSET Agent /\ Completing' \in SUBSET Agent
    BY DEF Completing
  <2>2. /\ RequestsLeft \in SUBSET (Agent \X (1..MaxTurns))
        /\ RequestsLeft' \in SUBSET (Agent \X (1..MaxTurns))
    BY DEF RequestsLeft
  <2>3. QED
    BY <2>1, <2>2, SubsetsFinite
<1>3. Cardinality(Completing') + 1 <= Cardinality(Completing)
  <2>1. IsFiniteSet(Completing \ {a}) /\ Cardinality(Completing \ {a}) = Cardinality(Completing) - 1
    BY <1>1, <1>2, FS_RemoveElement
  <2>2. Cardinality(Completing') <= Cardinality(Completing \ {a})
    BY <1>1, <2>1, FS_Subset
  <2>3. QED
    BY <1>2, <2>1, <2>2
<1> DEFINE gone == <<a, turn[a]>>
<1>4. RequestsLeft' \subseteq RequestsLeft \ {gone} /\ gone \in RequestsLeft
  <2>1. turn[a] \in 1..MaxTurns
    BY AgentAssumption DEF RunTypeOK, Shape
  <2>2. gone \in RequestsLeft
    BY <2>1 DEF RequestsLeft, WorkingPhases
  <2>3. RequestsLeft' \subseteq RequestsLeft
    BY DEF RequestsLeft, WorkingPhases, EndPhases
  <2>4. gone \notin RequestsLeft'
    BY <2>1 DEF RequestsLeft, WorkingPhases, EndPhases
  <2>5. QED
    BY <2>2, <2>3, <2>4
<1>5. Cardinality(RequestsLeft') + 1 <= Cardinality(RequestsLeft)
  <2>1. /\ IsFiniteSet(RequestsLeft \ {gone})
        /\ Cardinality(RequestsLeft \ {gone}) = Cardinality(RequestsLeft) - 1
    BY <1>2, <1>4, FS_RemoveElement
  <2>2. Cardinality(RequestsLeft') <= Cardinality(RequestsLeft \ {gone})
    BY <1>4, <2>1, FS_Subset
  <2>3. QED
    BY <1>2, <2>1, <2>2
<1>6. OverspendCovered'
  <2>1. AnswerTokens * (Cardinality(Completing') + 1) <= AnswerTokens * Cardinality(Completing)
    BY <1>2, <1>3, TokensTyped
  <2>2. AnswerTokens * (Cardinality(Completing') + 1)
          = AnswerTokens * Cardinality(Completing') + AnswerTokens
    BY <1>2, TokensTyped
  <2>3. /\ AnswerTokens * Cardinality(Completing') \in Nat
        /\ AnswerTokens * Cardinality(Completing) \in Nat
        /\ AnswerTokens * Cardinality(Sub) \in Nat
    BY <1>2, TokensTyped
  <2>4. QED
    BY <2>1, <2>2, <2>3, TokensTyped DEF OverspendCovered
<1>7. TaskStaysSmall'
  <2>1. CASE mode = "task"
    <3>1. PICK made \in 0 .. MaxTurns * (MaxTaskSpawns + 1) :
            /\ tokens <= AnswerTokens * made
            /\ made + Cardinality(RequestsLeft) + MaxTurns * (MaxTaskSpawns - spawned)
                  <= MaxTurns * (MaxTaskSpawns + 1)
      BY <2>1 DEF TaskStaysSmall
    <3>2. /\ MaxTurns * (MaxTaskSpawns + 1) \in Nat
          /\ MaxTurns * (MaxTaskSpawns - spawned) \in Nat
          /\ spawned <= MaxTaskSpawns
      BY <2>1, TokensTyped DEF TaskStaysSmall
    <3>3. /\ made + 1 + Cardinality(RequestsLeft') + MaxTurns * (MaxTaskSpawns - spawned)
                <= MaxTurns * (MaxTaskSpawns + 1)
          /\ made + 1 \in 0 .. MaxTurns * (MaxTaskSpawns + 1)
      BY <1>2, <1>5, <3>1, <3>2
    <3>4. AnswerTokens * (made + 1) = AnswerTokens * made + AnswerTokens
          /\ AnswerTokens * made \in Nat
      BY <3>1, TokensTyped
    <3>5. tokens' <= AnswerTokens * (made + 1)
      BY <3>1, <3>4, TokensTyped
    <3>6. QED
      BY <3>2, <3>3, <3>5 DEF TaskStaysSmall
  <2>2. QED
    BY <2>1 DEF TaskStaysSmall
<1>8. QED
  BY <1>6, <1>7

LEMMA EndStepKeepsInv ==
    ASSUME AgentInv, NEW a \in Agent, NEW how \in EndPhases \ {"dropped"},
           phase[a] \in WorkingPhases,
           phase[a] = "tools" => cancelled /\ how = "stopped",
           how = "stopped" => cancelled,
           Ended(a, how), openCalls' \subseteq openCalls,
           \/ UNCHANGED tokens
           \/ phase[a] = "completing" /\ tokens' = tokens + AnswerTokens,
           UNCHANGED <<mode, cancelled, endVars, allowedCalls, spawned, accepted,
                       limits, toolCalls, subAgents>>
    PROVE  AgentInv'
<1> USE DEF endVars
<1>0. /\ RunTypeOK /\ Shape /\ ReportKept /\ OpenCallsKnown /\ OverspendCovered
      /\ TaskStaysSmall /\ StopsAreCancellations /\ Counted
  BY DEF AgentInv
<1>1. /\ phase' \in [Agent -> Phases]
      /\ turn' \in [Agent -> 0..MaxTurns]
      /\ tool' \in [Agent -> [Call -> ToolNames]]
      /\ call' \in [Agent -> [Call -> CallStates]]
      /\ child' \in [Call -> Sub \cup {None}]
      /\ Shape'
      /\ LessToDo
      /\ OpenCallsKnown'
      /\ phase'[lead] = "preparing" => phase[lead] = "preparing"
      /\ \A c \in Call : tool'[lead][c] \in {tool[lead][c], "none"}
      /\ \A b \in Agent : phase'[b] \in {phase[b], "absent", how}
  BY EndingKeeps
<1>2. tokens' \in Nat
  BY <1>0, TokensTyped
<1>3. RunTypeOK'
  BY <1>0, <1>1, <1>2 DEF RunTypeOK
<1>4. Counted'
  BY <1>0, CountedKept
<1>5. OverspendCovered' /\ TaskStaysSmall'
  <2>1. CASE UNCHANGED tokens
    BY <1>0, <1>1, <2>1, LessIsCovered
  <2>2. CASE phase[a] = "completing" /\ tokens' = tokens + AnswerTokens
    <3>1. /\ phase'[a] = how
          /\ \A b \in Agent \ {a} :
                phase'[b] = "absent" \/ (phase'[b] = phase[b] /\ turn'[b] = turn[b])
      BY DEF Ended
    <3>2. phase'[a] \in EndPhases \cup {"tools"} /\ phase'[a] # "tools"
      BY <3>1 DEF EndPhases
    <3>3. tokens' \in {tokens, tokens + AnswerTokens}
      BY <2>2
    <3>4. QED
      BY <1>0, <2>2, <3>1, <3>2, <3>3, AnswerIsCovered
  <2>3. QED
    BY <2>1, <2>2
<1>6. StopsAreCancellations'
  BY <1>0, <1>1, StopsKept
<1>7. ReportKept'
  BY <1>0, <1>1, ReportKeptKept
<1>8. QED
  BY <1>1, <1>3, <1>4, <1>5, <1>6, <1>7 DEF AgentInv

LEMMA CompletionFailsKeepsInv ==
    ASSUME AgentInv, NEW a \in Agent, CompletionFails(a)
    PROVE  AgentInv'
BY EndStepKeepsInv DEF CompletionFails, EndPhases, WorkingPhases, auxVars, budgetVars

LEMMA HandleCompletionResponseKeepsInv ==
    ASSUME AgentInv, NEW a \in Agent, HandleCompletionResponse(a)
    PROVE  AgentInv'
<1> USE DEF HandleCompletionResponse, RecordTokens
<1>0. /\ RunTypeOK /\ Shape /\ ReportKept /\ OpenCallsKnown /\ OverspendCovered
      /\ TaskStaysSmall /\ StopsAreCancellations /\ Counted
      /\ phase[a] = "completing" /\ phase[a] \in WorkingPhases
  BY DEF AgentInv, WorkingPhases
<1>1. UNCHANGED <<mode, cancelled, endVars, openCalls, accepted, allowedCalls, spawned,
                  limits, toolCalls, subAgents>>
  BY DEF auxVars
<1>2. tokens' \in {tokens, tokens + AnswerTokens}
  BY <1>0, TokensTyped
<1>3. ASSUME NEW how \in {"stopped", "answered"}, Ended(a, how), how = "stopped" => cancelled
      PROVE  AgentInv'
  BY <1>0, <1>1, <1>2, <1>3, EndStepKeepsInv DEF EndPhases
<1>4. ASSUME NEW asked \in [Call -> Tools(a) \cup {"none"}],
             tool' = [tool EXCEPT ![a] = asked],
             call' = [call EXCEPT ![a] =
                        [c \in Call |-> IF asked[c] = "none" THEN "none" ELSE "asked"]],
             phase' = [phase EXCEPT ![a] = "tools"],
             UNCHANGED <<turn, child, canvasVars>>
      PROVE  AgentInv'
  <2> DEFINE batch == [c \in Call |-> IF asked[c] = "none" THEN "none" ELSE "asked"]
  <2>1. /\ asked \in [Call -> ToolNames]
        /\ mode = "task" => \A c \in Call : asked[c] # "submit_cycle_report"
        /\ batch \in [Call -> {"asked", "none"}]
    BY DEF Tools, ToolNames
  <2>2. tool' = [tool EXCEPT ![a] = asked] /\ call' = [call EXCEPT ![a] = batch]
    BY <1>4
  <2> HIDE DEF batch
  <2>3. /\ phase' \in [Agent -> Phases]
        /\ tool' \in [Agent -> [Call -> ToolNames]]
        /\ call' \in [Agent -> [Call -> CallStates]]
        /\ phase'[a] = "tools" /\ tool'[a] = asked /\ call'[a] = batch
        /\ \A b \in Agent \ {a} :
              phase'[b] = phase[b] /\ tool'[b] = tool[b] /\ call'[b] = call[b]
    BY <1>0, <1>4, <2>1, <2>2 DEF RunTypeOK, Phases, CallStates
  <2>4. \A c \in Call : call[a][c] = "none"
    BY <1>0, NoCallsTyped DEF Shape
  <2>5. RunTypeOK'
    BY <1>0, <1>1, <1>2, <1>4, <2>3, TokensTyped DEF RunTypeOK, endVars
  <2>6. Shape'
    <3>1. \A c \in Call : child[c] # None => a # lead
      BY <1>0, <2>4 DEF Shape
    <3>2. outcome' = None
      BY <1>0, <1>1, LeadWaits DEF Shape, Agent, WorkingPhases, endVars
    <3>3. QED
      BY <1>0, <1>1, <1>4, <2>3, <3>1, <3>2 DEF Shape, Agent, WorkingPhases
  <2>7. Counted'
    BY <1>0, <1>1, CountedKept
  <2>8. OverspendCovered' /\ TaskStaysSmall'
    BY <1>0, <1>1, <1>2, <1>4, <2>3, AnswerIsCovered
  <2>9. StopsAreCancellations'
    BY <1>0, <1>1, <2>3, StopsKept DEF endVars
  <2>10. ReportKept'
    BY <1>0, <1>1, <2>1, <2>3 DEF ReportKept, endVars, Agent
  <2>11. OpenCallsKnown'
    <3>1. StopReachesLead => StopReachesLead'
      BY <1>0, <1>1, <2>3, <2>4 DEF StopReachesLead, Agent
    <3>2. QED
      BY <1>0, <1>1, <2>3, <2>4, <3>1, OpenCallsKept DEF UnderWay
  <2>12. QED
    BY <2>5, <2>6, <2>7, <2>8, <2>9, <2>10, <2>11 DEF AgentInv
<1>5. QED
  BY <1>3, <1>4

(***************************************************************************)
(* The hook around a tool call.                                            *)
(***************************************************************************)

(* An agent at its tools moves on: its run has no outcome yet.               *)
LEMMA WorkingIsBeforeTheEnd ==
    ASSUME Shape, NEW a \in Agent, phase[a] \in WorkingPhases
    PROVE  outcome = None
BY LeadWaits DEF Shape, Agent, WorkingPhases

LEMMA NextTurnKeepsInv ==
    ASSUME AgentInv, NEW a \in Agent, NextTurn(a)
    PROVE  AgentInv'
<1> USE DEF NextTurn, endVars, auxVars, budgetVars
<1>0. /\ RunTypeOK /\ Shape /\ ReportKept /\ OpenCallsKnown /\ OverspendCovered
      /\ TaskStaysSmall /\ StopsAreCancellations /\ Counted
      /\ phase[a] = "tools"
  BY DEF AgentInv
<1>1. /\ phase' \in [Agent -> Phases]
      /\ tool' \in [Agent -> [Call -> ToolNames]]
      /\ call' \in [Agent -> [Call -> CallStates]]
      /\ phase'[a] = "completion_call" /\ tool'[a] = NoCalls /\ call'[a] = NoCalls
      /\ \A b \in Agent \ {a} :
            phase'[b] = phase[b] /\ tool'[b] = tool[b] /\ call'[b] = call[b]
  BY <1>0, NoCallsTyped DEF RunTypeOK, Phases
<1>2. RunTypeOK'
  BY <1>0, <1>1 DEF RunTypeOK
<1>3. Shape'
  <2>1. outcome = None
    BY <1>0, WorkingIsBeforeTheEnd DEF WorkingPhases
  <2>2. a = lead => \A c \in Call : child[c] = None
    BY <1>0 DEF Shape
  <2>3. QED
    BY <1>0, <1>1, <2>1, <2>2 DEF Shape, Agent, WorkingPhases
<1>4. Counted'
  BY <1>0, CountedKept
<1>5. OverspendCovered' /\ TaskStaysSmall'
  <2>1. LessToDo
    BY <1>0, <1>1 DEF LessToDo
  <2>2. QED
    BY <1>0, <2>1, LessIsCovered
<1>6. StopsAreCancellations'
  BY <1>0, <1>1, StopsKept
<1>7. ReportKept'
  <2>1. \A c \in Call : tool'[lead][c] \in {tool[lead][c], "none"}
    BY <1>1, NoCallsTyped DEF Agent
  <2>2. phase'[lead] = "preparing" => phase[lead] = "preparing"
    BY <1>1 DEF Agent
  <2>3. QED
    BY <1>0, <2>1, <2>2, ReportKeptKept
<1>8. OpenCallsKnown'
  <2>1. \A c \in Call : call[a][c] \notin UnderWay
    BY DEF UnderWay
  <2>2. StopReachesLead => StopReachesLead'
    BY <1>0, <1>1 DEF StopReachesLead, Agent
  <2>3. QED
    BY <1>0, <1>1, <2>1, <2>2, OpenCallsKept
<1>9. QED
  BY <1>2, <1>3, <1>4, <1>5, <1>6, <1>7, <1>8 DEF AgentInv

(* A call is let through or turned away, or its result is handled.           *)
LEMMA HandledCallKeepsInv ==
    ASSUME AgentInv, NEW a \in Agent, NEW c \in Call,
           NEW from \in {"asked", "returned"}, NEW to \in {"running", "done"},
           At(a, c, from), ~cancelled,
           call' = [call EXCEPT ![a][c] = to],
           openCalls' = IF to = "running" THEN openCalls \cup {<<a, c>>}
                                          ELSE openCalls \ {<<a, c>>},
           UNCHANGED <<mode, phase, turn, tool, child, cancelled, endVars,
                       limits, subAgents, tokens, spawned, accepted>>,
           Counted', {toolCalls', allowedCalls'} \subseteq Nat
    PROVE  AgentInv'
<1> USE DEF endVars
<1>0. /\ RunTypeOK /\ Shape /\ ReportKept /\ OpenCallsKnown /\ OverspendCovered
      /\ TaskStaysSmall /\ StopsAreCancellations /\ Counted
      /\ phase[a] = "tools" /\ call[a][c] = from
  BY DEF AgentInv, At
<1>1. /\ call' \in [Agent -> [Call -> CallStates]]
      /\ \A b \in Agent, d \in Call :
            call'[b][d] = IF b = a /\ d = c THEN to ELSE call[b][d]
      /\ Shape'
      /\ LessToDo
  <2>1. to \in CallStates
    BY DEF CallStates
  <2>2. a = lead => child[c] = None
    BY <1>0 DEF Shape
  <2>3. QED
    BY <1>0, <2>1, <2>2, MovedCallShape
<1>2. RunTypeOK'
  <2>1. openCalls' \subseteq Agent \X Call
    BY <1>0 DEF RunTypeOK
  <2>2. QED
    BY <1>0, <1>1, <2>1 DEF RunTypeOK
<1>3. OverspendCovered' /\ TaskStaysSmall'
  BY <1>0, <1>1, LessIsCovered
<1>4. StopsAreCancellations'
  BY <1>0, StopsKept
<1>5. ReportKept'
  BY <1>0, ReportKeptKept
<1>6. OpenCallsKnown'
  <2>1. ~StopReachesLead
    BY DEF StopReachesLead
  <2>2. \A b \in Agent, d \in Call :
           <<b, d>> \in openCalls' => call'[b][d] \in UnderWay
    BY <1>0, <1>1, <2>1 DEF OpenCallsKnown, UnderWay
  <2>3. QED
    BY <2>2 DEF OpenCallsKnown
<1>7. QED
  BY <1>1, <1>2, <1>3, <1>4, <1>5, <1>6 DEF AgentInv

(* What the budget lets through is within it.                                *)
LEMMA OnToolCallCounts ==
    ASSUME RunTypeOK, Counted, NEW which, NEW allowed \in BOOLEAN,
           OnToolCall(which, allowed),
           allowedCalls' = IF allowed /\ which # "submit_cycle_report"
                           THEN allowedCalls + 1 ELSE allowedCalls,
           UNCHANGED <<limits, subAgents, spawned>>
    PROVE  Counted' /\ {toolCalls', allowedCalls'} \subseteq Nat
<1>1. toolCalls \in Nat /\ allowedCalls \in Nat /\ limits.toolCalls \in Nat
  BY LimitsAssumption DEF RunTypeOK, RunLimits, Unlimited, NoLimit
<1>2. allowedCalls' <= toolCalls' /\ allowedCalls' <= limits.toolCalls
  BY <1>1 DEF Counted, OnToolCall, CountUpTo
<1>3. toolCalls' \in Nat /\ allowedCalls' \in Nat
  BY <1>1 DEF OnToolCall, CountUpTo
<1>4. QED
  BY <1>2, <1>3 DEF Counted

LEMMA HandleToolCallKeepsInv ==
    ASSUME AgentInv, NEW a \in Agent, NEW c \in Call, HandleToolCall(a, c)
    PROVE  AgentInv'
<1> USE DEF HandleToolCall
<1>0. RunTypeOK /\ Shape /\ Counted /\ OpenCallsKnown /\ At(a, c, "asked")
  BY DEF AgentInv
<1>1. CASE cancelled /\ Ended(a, "stopped") /\ UNCHANGED <<auxVars, toolCalls>>
  <2>1. phase[a] \in WorkingPhases /\ "stopped" \in EndPhases \ {"dropped"}
    BY <1>0 DEF At, WorkingPhases, EndPhases
  <2>2. openCalls' \subseteq openCalls
    BY <1>1 DEF auxVars
  <2>3. QED
    BY <1>1, <2>1, <2>2, EndStepKeepsInv DEF auxVars
<1>2. ASSUME ~cancelled, NEW allowed \in BOOLEAN,
             OnToolCall(tool[a][c], allowed),
             call' = [call EXCEPT ![a][c] = IF allowed THEN "running" ELSE "done"],
             openCalls' = IF allowed THEN openCalls \cup {<<a, c>>} ELSE openCalls,
             allowedCalls' = IF allowed /\ tool[a][c] # "submit_cycle_report"
                             THEN allowedCalls + 1 ELSE allowedCalls,
             UNCHANGED <<phase, turn, tool, child, spawned, accepted, canvasVars>>
      PROVE  AgentInv'
  <2> DEFINE to == IF allowed THEN "running" ELSE "done"
  <2>1. Counted' /\ {toolCalls', allowedCalls'} \subseteq Nat
    BY <1>0, <1>2, OnToolCallCounts
  <2>2. <<a, c>> \notin openCalls
    BY <1>0, <1>2 DEF OpenCallsKnown, StopReachesLead, UnderWay, At
  <2>3. openCalls' = IF to = "running" THEN openCalls \cup {<<a, c>>}
                                       ELSE openCalls \ {<<a, c>>}
    BY <1>2, <2>2
  <2>4. to \in {"running", "done"} /\ call' = [call EXCEPT ![a][c] = to]
    BY <1>2
  <2> HIDE DEF to
  <2>5. QED
    BY <1>0, <1>2, <2>1, <2>3, <2>4, HandledCallKeepsInv
<1>3. QED
  BY <1>1, <1>2

LEMMA HandleToolResultKeepsInv ==
    ASSUME AgentInv, NEW a \in Agent, NEW c \in Call, HandleToolResult(a, c)
    PROVE  AgentInv'
<1> USE DEF HandleToolResult, budgetVars
<1>0. RunTypeOK /\ Counted /\ At(a, c, "returned") /\ cancelled \in BOOLEAN
  BY DEF AgentInv, RunTypeOK
<1>1. CASE cancelled /\ Ended(a, "stopped")
  <2>1. phase[a] \in WorkingPhases /\ "stopped" \in EndPhases \ {"dropped"}
    BY <1>0 DEF At, WorkingPhases, EndPhases
  <2>2. QED
    BY <1>1, <2>1, EndStepKeepsInv
<1>2. CASE /\ ~cancelled
           /\ call' = [call EXCEPT ![a][c] = "done"]
           /\ UNCHANGED <<phase, turn, tool, child, canvasVars>>
  <2>1. Counted' /\ {toolCalls', allowedCalls'} \subseteq Nat
    BY <1>0, CountedKept DEF RunTypeOK
  <2>2. QED
    BY <1>0, <1>2, <2>1, HandledCallKeepsInv
<1>3. QED
  BY <1>0, <1>1, <1>2

(***************************************************************************)
(* The sub-agents.                                                         *)
(***************************************************************************)

LEMMA OnSpawnSubAgentCounts ==
    ASSUME RunTypeOK, Counted, NEW allowed \in BOOLEAN, OnSpawnSubAgent(allowed),
           spawned' = IF allowed THEN spawned + 1 ELSE spawned,
           UNCHANGED <<limits, toolCalls, allowedCalls>>
    PROVE  Counted' /\ {subAgents', spawned'} \subseteq Nat
<1>1. subAgents \in Nat /\ spawned \in Nat /\ limits.subAgents \in Nat
  BY LimitsAssumption DEF RunTypeOK, RunLimits, Unlimited, NoLimit
<1>2. /\ subAgents' \in Nat /\ subAgents' >= subAgents
      /\ subAgents' > limits.subAgents \/ subAgents' = subAgents + 1
  BY <1>1 DEF OnSpawnSubAgent, CountUpTo
<1>3. CASE allowed
  <2>1. subAgents' <= limits.subAgents /\ spawned' = spawned + 1
    BY <1>3 DEF OnSpawnSubAgent
  <2>2. QED
    BY <1>1, <1>2, <2>1 DEF Counted
<1>4. CASE ~allowed
  <2>1. spawned' = spawned
    BY <1>4
  <2>2. QED
    BY <1>1, <1>2, <2>1 DEF Counted
<1>5. QED
  BY <1>3, <1>4

(* A sub-agent brings its turns, which its spawn takes from those to come.    *)
LEMMA SpawnStaysSmall ==
    ASSUME RunTypeOK, Shape, TaskStaysSmall, NEW s \in Sub, phase[s] = "absent",
           mode = "task" => spawned < MaxTaskSpawns,
           phase' = [phase EXCEPT ![s] = "completion_call"],
           spawned' = spawned + 1, UNCHANGED <<mode, turn, tokens>>
    PROVE  TaskStaysSmall'
<1>1. /\ phase'[s] = "completion_call" /\ turn[s] = 0
      /\ \A b \in Agent \ {s} : phase'[b] = phase[b]
      /\ turn \in [Agent -> Nat]
  BY AgentAssumption DEF RunTypeOK, Shape, Agent, WorkingPhases
<1> DEFINE brought == {s} \X (1..MaxTurns)
<1>2. RequestsLeft' \subseteq RequestsLeft \cup brought
  BY <1>1 DEF RequestsLeft, WorkingPhases, Agent
<1>3. IsFiniteSet(brought) /\ Cardinality(brought) = MaxTurns
  BY TurnsOfAnAgent
<1>4. /\ IsFiniteSet(RequestsLeft) /\ Cardinality(RequestsLeft) \in Nat
      /\ IsFiniteSet(RequestsLeft') /\ Cardinality(RequestsLeft') \in Nat
  <2>1. /\ RequestsLeft \in SUBSET (Agent \X (1..MaxTurns))
        /\ RequestsLeft' \in SUBSET (Agent \X (1..MaxTurns))
    BY DEF RequestsLeft
  <2>2. QED
    BY <2>1, SubsetsFinite
<1> HIDE DEF brought
<1>5. Cardinality(RequestsLeft') <= Cardinality(RequestsLeft) + MaxTurns
  <2>1. /\ IsFiniteSet(RequestsLeft \cup brought)
        /\ Cardinality(RequestsLeft \cup brought)
             = Cardinality(RequestsLeft) + Cardinality(brought)
                 - Cardinality(RequestsLeft \cap brought)
    BY <1>3, <1>4, FS_Union
  <2>2. Cardinality(RequestsLeft \cap brought) \in Nat
    BY <1>4, FS_Intersection, FS_CardinalityType
  <2>3. Cardinality(RequestsLeft') <= Cardinality(RequestsLeft \cup brought)
    BY <1>2, <2>1, FS_Subset
  <2>4. QED
    BY <1>3, <1>4, <2>1, <2>2, <2>3, TokensTyped
<1>6. CASE mode = "task"
  <2>1. PICK made \in 0 .. MaxTurns * (MaxTaskSpawns + 1) :
          /\ tokens <= AnswerTokens * made
          /\ made + Cardinality(RequestsLeft) + MaxTurns * (MaxTaskSpawns - spawned)
                <= MaxTurns * (MaxTaskSpawns + 1)
    BY <1>6 DEF TaskStaysSmall
  <2>2. /\ MaxTurns * (MaxTaskSpawns + 1) \in Nat
        /\ MaxTurns * (MaxTaskSpawns - spawned) \in Int
        /\ MaxTurns * (MaxTaskSpawns - spawned')
             = MaxTurns * (MaxTaskSpawns - spawned) - MaxTurns
        /\ spawned' <= MaxTaskSpawns
    <3> DEFINE rest == MaxTaskSpawns - spawned
    <3>1. rest \in Int /\ MaxTaskSpawns - spawned' = rest - 1 /\ MaxTurns \in Nat
      BY TokensTyped
    <3>2. spawned' <= MaxTaskSpawns
      BY <1>6, TokensTyped
    <3>3. MaxTurns * (MaxTaskSpawns + 1) \in Nat
      BY TokensTyped
    <3> HIDE DEF rest
    <3>4. MaxTurns * (rest - 1) = MaxTurns * rest - MaxTurns /\ MaxTurns * rest \in Int
      BY <3>1
    <3>5. QED
      BY <3>1, <3>2, <3>3, <3>4 DEF rest
  <2>3. made + Cardinality(RequestsLeft') + MaxTurns * (MaxTaskSpawns - spawned')
           <= MaxTurns * (MaxTaskSpawns + 1)
    BY <1>4, <1>5, <2>1, <2>2, TokensTyped
  <2>4. QED
    BY <2>1, <2>2, <2>3 DEF TaskStaysSmall
<1>7. QED
  BY <1>6 DEF TaskStaysSmall

LEMMA SpawnAgentKeepsInv ==
    ASSUME AgentInv, NEW c \in Call, SpawnAgent(c)
    PROVE  AgentInv'
<1> USE DEF SpawnAgent, At, endVars
<1>0. /\ RunTypeOK /\ Shape /\ ReportKept /\ OpenCallsKnown /\ OverspendCovered
      /\ TaskStaysSmall /\ StopsAreCancellations /\ Counted
      /\ phase[lead] = "tools" /\ call[lead][c] = "running"
      /\ tool[lead][c] = "spawn_agent" /\ child[c] = None
      /\ lead \in Agent /\ lead \notin Sub /\ None \notin Sub /\ Sub \subseteq Agent
  BY AgentAssumption DEF AgentInv, Shape, Agent
<1>1. CASE ToolReturns(lead, c) /\ UNCHANGED <<phase, child, subAgents, spawned>>
  <2>1. Counted' /\ {subAgents', toolCalls', allowedCalls'} \subseteq Nat
    BY <1>0, <1>1, CountedKept DEF RunTypeOK
  <2>2. QED
    BY <1>0, <1>1, <2>1, CallStepKeepsInv DEF ToolReturns
<1>2. CASE /\ ToolReturns(lead, c) /\ UNCHANGED <<phase, child, spawned>>
           /\ OnSpawnSubAgent(FALSE)
  <2>1. Counted' /\ {subAgents', spawned'} \subseteq Nat
    BY <1>0, <1>2, OnSpawnSubAgentCounts
  <2>2. {subAgents', toolCalls', allowedCalls'} \subseteq Nat
    BY <1>0, <2>1 DEF RunTypeOK
  <2>3. QED
    BY <1>0, <1>2, <2>1, <2>2, CallStepKeepsInv DEF ToolReturns
<1>3. ASSUME NEW s \in Sub, phase[s] = "absent", OnSpawnSubAgent(TRUE),
             mode = "task" => spawned < MaxTaskSpawns,
             phase' = [phase EXCEPT ![s] = "completion_call"],
             child' = [child EXCEPT ![c] = s],
             call' = [call EXCEPT ![lead][c] = "waiting"],
             spawned' = spawned + 1
      PROVE  AgentInv'
  <2>1. /\ phase' \in [Agent -> Phases] /\ phase'[s] = "completion_call"
        /\ \A b \in Agent \ {s} : phase'[b] = phase[b]
    BY <1>0, <1>3 DEF RunTypeOK, Phases
  <2>2. /\ child' \in [Call -> Sub \cup {None}] /\ child'[c] = s
        /\ \A d \in Call \ {c} : child'[d] = child[d]
    BY <1>0, <1>3 DEF RunTypeOK
  <2>3. /\ call' \in [Agent -> [Call -> CallStates]] /\ call'[lead][c] = "waiting"
        /\ \A b \in Agent, d \in Call : (b # lead \/ d # c) => call'[b][d] = call[b][d]
        /\ \A b \in Sub : call'[b] = call[b]
    BY <1>0, <1>3 DEF RunTypeOK, CallStates
  <2>4. Counted' /\ {subAgents', spawned'} \subseteq Nat
    BY <1>0, <1>3, OnSpawnSubAgentCounts
  <2>5. RunTypeOK'
    BY <1>0, <2>1, <2>2, <2>3, <2>4 DEF RunTypeOK
  <2>6. Shape'
    <3>1. \A d \in Call : child[d] # s
      BY <1>0, <1>3 DEF Shape
    <3>2. \A b \in Agent : phase'[b] # "tools" => call'[b] = NoCalls
      BY <1>0, <2>1, <2>3, <1>3 DEF Shape, Agent
    <3>3. \A b \in Agent : phase'[b] \notin WorkingPhases => turn'[b] = 0
      BY <1>0, <2>1 DEF Shape, WorkingPhases
    <3>4. \A b \in Agent : phase'[b] = "completing" => turn'[b] > 0
      BY <1>0, <2>1 DEF Shape
    <3>5. \A d \in Call :
            child'[d] # None => call'[lead][d] = "waiting" /\ tool'[lead][d] = "spawn_agent"
      BY <1>0, <2>2, <2>3 DEF Shape
    <3>6. \A d, e \in Call : child'[d] = child'[e] /\ child'[d] # None => d = e
      BY <1>0, <2>2, <3>1 DEF Shape
    <3>7. \A b \in Sub : phase'[b] # "absent" <=> \E d \in Call : child'[d] = b
      <4>1. \A b \in Sub \ {s} : (\E d \in Call : child'[d] = b) <=> \E d \in Call : child[d] = b
        BY <1>0, <2>2
      <4>2. QED
        BY <1>0, <2>1, <2>2, <4>1 DEF Shape
    <3>8. outcome' # None => phase'[lead] \notin WorkingPhases
      BY <1>0, WorkingIsBeforeTheEnd DEF WorkingPhases
    <3>9. QED
      BY <1>0, <3>2, <3>3, <3>4, <3>5, <3>6, <3>7, <3>8 DEF Shape
  <2>7. OverspendCovered'
    <3>1. Completing' = Completing
      BY <1>3, <2>1 DEF Completing
    <3>2. QED
      BY <1>0, <3>1 DEF OverspendCovered
  <2>8. TaskStaysSmall'
    BY <1>0, <1>3, SpawnStaysSmall
  <2>9. StopsAreCancellations'
    BY <1>0, <2>1, StopsKept
  <2>10. ReportKept'
    <3>1. phase'[lead] = "preparing" => phase[lead] = "preparing"
      BY <1>0, <2>1
    <3>2. QED
      BY <1>0, <3>1, ReportKeptKept
  <2>11. OpenCallsKnown'
    <3>1. StopReachesLead => StopReachesLead'
      BY <1>0, <2>1, <2>3 DEF StopReachesLead
    <3>2. \A b \in Agent, d \in Call : call[b][d] \in UnderWay => call'[b][d] \in UnderWay
      BY <2>3 DEF UnderWay
    <3>3. QED
      BY <1>0, <3>1, <3>2, OpenCallsKept
  <2>12. QED
    BY <2>4, <2>5, <2>6, <2>7, <2>8, <2>9, <2>10, <2>11 DEF AgentInv
<1>4. QED
  BY <1>1, <1>2, <1>3

LEMMA SubAgentReturnsKeepsInv ==
    ASSUME AgentInv, NEW c \in Call, SubAgentReturns(c)
    PROVE  AgentInv'
<1> USE DEF SubAgentReturns, At, ToolReturns, endVars, auxVars, budgetVars
<1> DEFINE s == child[c]
<1>0. /\ RunTypeOK /\ Shape /\ ReportKept /\ OpenCallsKnown /\ OverspendCovered
      /\ TaskStaysSmall /\ StopsAreCancellations /\ Counted
      /\ phase[lead] = "tools" /\ call[lead][c] = "waiting"
      /\ s \in Sub /\ phase[s] \notin WorkingPhases /\ phase[s] # "absent"
      /\ lead \in Agent /\ lead \notin Sub /\ None \notin Sub /\ Sub \subseteq Agent
  BY AgentAssumption DEF AgentInv, RunTypeOK, Shape, Agent, Working, WorkingPhases
<1>1. /\ phase' \in [Agent -> Phases] /\ phase'[s] = "absent"
      /\ \A b \in Agent \ {s} : phase'[b] = phase[b]
  BY <1>0 DEF RunTypeOK, Phases
<1>2. /\ child' \in [Call -> Sub \cup {None}] /\ child'[c] = None
      /\ \A d \in Call \ {c} : child'[d] = child[d]
  BY <1>0 DEF RunTypeOK
<1>3. /\ call' \in [Agent -> [Call -> CallStates]] /\ call'[lead][c] = "returned"
      /\ \A b \in Agent, d \in Call : (b # lead \/ d # c) => call'[b][d] = call[b][d]
      /\ \A b \in Sub : call'[b] = call[b]
  BY <1>0 DEF RunTypeOK, CallStates
<1>4. \A d \in Call \ {c} : child[d] # s
  BY <1>0 DEF Shape
<1> HIDE DEF s
<1>5. RunTypeOK'
  BY <1>0, <1>1, <1>2, <1>3 DEF RunTypeOK
<1>6. Shape'
  <2>2. \A b \in Agent : phase'[b] # "tools" => call'[b] = NoCalls
    BY <1>0, <1>1, <1>3 DEF Shape, Agent, WorkingPhases
  <2>3. \A b \in Agent : phase'[b] \notin WorkingPhases => turn'[b] = 0
    BY <1>0, <1>1 DEF Shape
  <2>4. \A b \in Agent : phase'[b] = "completing" => turn'[b] > 0
    BY <1>0, <1>1 DEF Shape
  <2>5. \A d \in Call :
          child'[d] # None => call'[lead][d] = "waiting" /\ tool'[lead][d] = "spawn_agent"
    BY <1>0, <1>2, <1>3 DEF Shape
  <2>6. \A d, e \in Call : child'[d] = child'[e] /\ child'[d] # None => d = e
    BY <1>0, <1>2 DEF Shape
  <2>7. \A b \in Sub : phase'[b] # "absent" <=> \E d \in Call : child'[d] = b
    <3>1. \A b \in Sub \ {s} : (\E d \in Call : child'[d] = b) <=> \E d \in Call : child[d] = b
      BY <1>0, <1>2 DEF s
    <3>2. ~ \E d \in Call : child'[d] = s
      BY <1>0, <1>2, <1>4
    <3>3. QED
      BY <1>0, <1>1, <3>1, <3>2 DEF Shape
  <2>8. outcome' # None => phase'[lead] \notin WorkingPhases
    BY <1>0, WorkingIsBeforeTheEnd DEF WorkingPhases
  <2>9. QED
    BY <1>0, <2>2, <2>3, <2>4, <2>5, <2>6, <2>7, <2>8 DEF Shape
<1>7. Counted'
  BY <1>0, CountedKept
<1>8. OverspendCovered' /\ TaskStaysSmall'
  <2>1. LessToDo
    BY <1>1 DEF LessToDo, WorkingPhases
  <2>2. QED
    BY <1>0, <2>1, LessIsCovered
<1>9. StopsAreCancellations'
  BY <1>0, <1>1, StopsKept
<1>10. ReportKept'
  <2>1. phase'[lead] = "preparing" => phase[lead] = "preparing"
    BY <1>0, <1>1
  <2>2. QED
    BY <1>0, <2>1, ReportKeptKept
<1>11. OpenCallsKnown'
  <2>1. StopReachesLead => StopReachesLead'
    BY <1>0, <1>1, <1>3 DEF StopReachesLead
  <2>2. \A b \in Agent, d \in Call : call[b][d] \in UnderWay => call'[b][d] \in UnderWay
    BY <1>3 DEF UnderWay
  <2>3. QED
    BY <1>0, <2>1, <2>2, OpenCallsKept
<1>12. QED
  BY <1>5, <1>6, <1>7, <1>8, <1>9, <1>10, <1>11 DEF AgentInv

(***************************************************************************)
(* The invariant, and what it says of a run.                                *)
(***************************************************************************)

LEMMA InitInv ==
    ASSUME Init
    PROVE  AgentInv
<1> USE DEF Init, BudgetInit
<1>0. /\ lead \in Agent /\ lead \notin Sub /\ None \notin Sub /\ None \notin Outcomes
      /\ None \notin Report
  BY AgentAssumption DEF Agent
<1>1. RunTypeOK
  <2>1. 0 \in 0..MaxTurns
    BY AgentAssumption
  <2>2. /\ mode \in {"task", "objective"}
        /\ phase \in [Agent -> Phases]
        /\ turn \in [Agent -> 0..MaxTurns]
        /\ child \in [Call -> Sub \cup {None}]
    BY <2>1 DEF Phases
  <2>3. tool \in [Agent -> [Call -> ToolNames]] /\ call \in [Agent -> [Call -> CallStates]]
    BY NoCallsTyped
  <2>4. /\ cancelled \in BOOLEAN /\ outcome \in Outcomes \cup {None}
        /\ {reportSlot, returned, accepted} \subseteq Report \cup {None}
        /\ openCalls \subseteq Agent \X Call
        /\ limits \in {RunLimits, Unlimited}
    OBVIOUS
  <2>5. {toolCalls, subAgents, tokens, allowedCalls, spawned} \subseteq Nat
    OBVIOUS
  <2> HIDE DEF Init, BudgetInit
  <2>6. QED
    BY <2>2, <2>3, <2>4, <2>5 DEF RunTypeOK
<1>2. Shape
  <2>1. /\ \A a \in Agent : call[a] = NoCalls /\ turn[a] = 0 /\ phase[a] \in {"preparing", "absent"}
        /\ phase[lead] = "preparing" /\ \A s \in Sub : phase[s] = "absent"
        /\ \A c \in Call : child[c] = None
    BY <1>0 DEF Agent
  <2>2. mode = "task" <=> limits = Unlimited
    OBVIOUS
  <2>3. QED
    BY <1>0, <2>1, <2>2 DEF Shape, WorkingPhases
<1>3. Counted
  BY <1>1, LimitsAssumption DEF Counted, RunLimits, Unlimited, NoLimit
<1>4. OverspendCovered
  <2>1. Completing = {}
    BY DEF Completing
  <2>2. Cardinality(Completing) = 0
    BY <2>1, FS_EmptySet
  <2>3. AnswerTokens * Cardinality(Completing) = 0 /\ AnswerTokens * Cardinality(Sub) > 0
    BY <1>1, <2>2, TokensTyped
  <2>4. QED
    BY <1>1, <2>3, TokensTyped DEF OverspendCovered
<1>5. TaskStaysSmall
  <2>1. RequestsLeft \subseteq {lead} \X (1..MaxTurns)
    BY <1>0 DEF RequestsLeft, WorkingPhases, Agent
  <2>2. IsFiniteSet({lead} \X (1..MaxTurns)) /\ Cardinality({lead} \X (1..MaxTurns)) = MaxTurns
    BY TurnsOfAnAgent
  <2>3. IsFiniteSet(RequestsLeft) /\ Cardinality(RequestsLeft) <= MaxTurns
    BY <2>1, <2>2, FS_Subset
  <2>4. Cardinality(RequestsLeft) \in Nat /\ Cardinality(RequestsLeft) <= MaxTurns
    BY <2>3, FS_CardinalityType
  <2>5. /\ MaxTurns * (MaxTaskSpawns - 0) + MaxTurns = MaxTurns * (MaxTaskSpawns + 1)
        /\ MaxTurns * (MaxTaskSpawns - 0) \in Nat
        /\ MaxTurns * (MaxTaskSpawns + 1) \in Nat
    BY <1>1, TokensTyped
  <2>6. /\ 0 + Cardinality(RequestsLeft) + MaxTurns * (MaxTaskSpawns - 0)
             <= MaxTurns * (MaxTaskSpawns + 1)
        /\ 0 \in 0 .. MaxTurns * (MaxTaskSpawns + 1)
        /\ 0 <= AnswerTokens * 0 /\ 0 <= MaxTaskSpawns
    BY <1>1, <2>4, <2>5, TokensTyped
  <2>7. QED
    BY <2>6 DEF TaskStaysSmall
<1>6. StopsAreCancellations /\ ReportKept /\ OpenCallsKnown
  <2>1. \A a \in Agent : phase[a] # "stopped"
    OBVIOUS
  <2>2. \A c \in Call : tool[lead][c] = "none"
    BY <1>0, NoCallsTyped
  <2>3. StopsAreCancellations
    BY <1>0, <2>1 DEF StopsAreCancellations, Outcomes
  <2>4. ReportKept
    BY <1>0, <2>2 DEF ReportKept, Outcomes
  <2>5. OpenCallsKnown
    BY DEF OpenCallsKnown
  <2>6. QED
    BY <2>3, <2>4, <2>5
<1>7. QED
  BY <1>1, <1>2, <1>3, <1>4, <1>5, <1>6 DEF AgentInv

LEMMA NextKeepsInv ==
    ASSUME AgentInv, [Next]_vars
    PROVE  AgentInv'
<1>1. CASE UNCHANGED vars
  <2>1. /\ UNCHANGED <<mode, runVars, cancelled, auxVars, budgetVars>>
        /\ UNCHANGED <<reportSlot, outcome, returned>>
    BY <1>1 DEF vars, endVars
  <2>2. QED
    BY <2>1, RunStepKeepsInv DEF AgentInv, RunTypeOK, Shape, StopsAreCancellations, ReportKept
<1>2. CASE PrepareConnectors
  BY <1>2, PrepareConnectorsKeepsInv
<1>3. CASE TaskReturns
  BY <1>3, TaskReturnsKeepsInv
<1>4. CASE CycleReturns
  BY <1>4, CycleReturnsKeepsInv
<1>5. CASE Dropped
  BY <1>5, DroppedKeepsInv
<1>6. CASE Cancel
  BY <1>6, CancelKeepsInv
<1>7. CASE \E a \in Agent : AgentStep(a)
  <2> SUFFICES ASSUME NEW a \in Agent, AgentStep(a)
               PROVE  AgentInv'
    BY <1>7
  <2>1. CASE HandleCompletionCall(a)
    BY <2>1, HandleCompletionCallKeepsInv
  <2>2. CASE HandleCompletionResponse(a)
    BY <2>2, HandleCompletionResponseKeepsInv
  <2>3. CASE CompletionFails(a)
    BY <2>3, CompletionFailsKeepsInv
  <2>4. CASE NextTurn(a)
    BY <2>4, NextTurnKeepsInv
  <2>5. ASSUME NEW c \in Call, HandleToolCall(a, c) \/ Search(a, c) \/ HandleToolResult(a, c)
        PROVE  AgentInv'
    BY <2>5, HandleToolCallKeepsInv, SearchKeepsInv, HandleToolResultKeepsInv
  <2>6. QED
    BY <2>1, <2>2, <2>3, <2>4, <2>5 DEF AgentStep
<1>8. CASE \E c \in Call : LeadCall(c)
  BY <1>8, SubmitReportKeepsInv, SpawnAgentKeepsInv, SubAgentReturnsKeepsInv, SaveMemoryKeepsInv
     DEF LeadCall
<1>9. CASE LearnFact \/ MemoryStep
  BY <1>9, MemoryKeepsInv
<1>10. QED
  BY <1>1, <1>2, <1>3, <1>4, <1>5, <1>6, <1>7, <1>8, <1>9 DEF Next

LEMMA InvIsKept == Spec => []AgentInv
<1>1. Init => AgentInv
  BY InitInv
<1>2. AgentInv /\ [Next]_vars => AgentInv'
  BY NextKeepsInv
<1>3. QED
  BY <1>1, <1>2, PTL DEF Spec

(* No race of the agents for the counters makes more tool calls or starts      *)
(* more sub-agents than the limits of the run allow (budget.rs:56, :77).      *)
THEOREM BudgetIsKept == Spec => []AllowedWithinBudget
<1>1. AgentInv => AllowedWithinBudget
  BY DEF AgentInv, Counted, AllowedWithinBudget
<1>2. QED
  BY <1>1, InvIsKept, PTL

(* The tokens stay below the double of their limit and one answer for each     *)
(* sub-agent (execution_hook.rs:161): when a request is let through, no more    *)
(* than Cardinality(Sub) are under way with it, for a lead waits while its     *)
(* sub-agents work.                                                        *)
THEOREM OverspendIsBounded == Spec => []OverspendBounded
<1>1. AgentInv => OverspendBounded
  <2> SUFFICES ASSUME AgentInv PROVE OverspendBounded
    OBVIOUS
  <2>1. RunTypeOK /\ OverspendCovered
    BY DEF AgentInv
  <2>2. Completing \in SUBSET Agent
    BY DEF Completing
  <2>3. Cardinality(Completing) \in Nat
    BY <2>2, SubsetsFinite
  <2>4. AnswerTokens * Cardinality(Completing) \in Nat
    BY <2>1, <2>3, TokensTyped
  <2>5. AnswerTokens * Cardinality(Sub) = Cardinality(Sub) * AnswerTokens
        /\ AnswerTokens * Cardinality(Sub) \in Nat
    BY <2>1, TokensTyped
  <2>6. QED
    BY <2>1, <2>4, <2>5, TokensTyped DEF OverspendCovered, OverspendBounded
<1>2. QED
  BY <1>1, InvIsKept, PTL

(* A report that was accepted is what the run returns, and no run fails that    *)
(* has one (cycle_agent.rs:70-92).                                         *)
THEOREM ReportIsReturned == Spec => []AcceptedReportIsReturned
<1>1. AgentInv => AcceptedReportIsReturned
  BY DEF AgentInv, ReportKept, AcceptedReportIsReturned
<1>2. QED
  BY <1>1, InvIsKept, PTL

(* A run that is reported as cancelled was: no task comes near its limits, so  *)
(* that nothing but the token stops its lead (task_runner.rs:120).            *)
THEOREM CancelledIsRequested == Spec => []CancelledOnlyOnRequest
<1>1. AgentInv => CancelledOnlyOnRequest
  BY DEF AgentInv, StopsAreCancellations, CancelledOnlyOnRequest
<1>2. QED
  BY <1>1, InvIsKept, PTL

(* When the lead has come to its end and the run is not cancelled, or the model *)
(* has failed, no call is shown as started any more.                         *)
LEMMA EndLeavesNothingOpen ==
    ASSUME AgentInv, phase[lead] \in {"stopped", "turns_used_up", "answered", "error"},
           cancelled => phase[lead] = "error"
    PROVE  openCalls = {}
<1>1. RunTypeOK /\ Shape /\ OpenCallsKnown
  BY DEF AgentInv
<1>2. \A a \in Agent : call[a] = NoCalls
  BY <1>1, LeadWaits DEF Shape, Agent
<1>3. \A a \in Agent, c \in Call : call[a][c] = "none"
  BY <1>2, NoCallsTyped
<1>4. ~StopReachesLead
  BY <1>3 DEF StopReachesLead, Agent
<1>5. QED
  BY <1>1, <1>3, <1>4 DEF OpenCallsKnown, UnderWay, RunTypeOK

LEMMA AgentStepShowsAll ==
    ASSUME AgentInv, StartedCallsAreCompleted, NEW a \in Agent, AgentStep(a)
    PROVE  StartedCallsAreCompleted'
<1>1. Shape /\ None \notin Outcomes
  BY AgentAssumption DEF AgentInv
<1>2. UNCHANGED endVars
  BY DEF AgentStep, HandleCompletionCall, HandleCompletionResponse, CompletionFails, NextTurn,
         HandleToolCall, Search, HandleToolResult
<1>3. phase[a] \in WorkingPhases
  BY DEF AgentStep, HandleCompletionCall, HandleCompletionResponse, CompletionFails, NextTurn,
         HandleToolCall, Search, HandleToolResult, At, WorkingPhases
<1>4. outcome = None
  BY <1>1, <1>3, WorkingIsBeforeTheEnd
<1>5. outcome' = None
  BY <1>2, <1>4 DEF endVars
<1>6. QED
  BY <1>1, <1>5 DEF StartedCallsAreCompleted, Outcomes

LEMMA RunStepShowsAll ==
    ASSUME AgentInv, StartedCallsAreCompleted,
           PrepareConnectors \/ TaskReturns \/ CycleReturns \/ Dropped \/ Cancel
    PROVE  StartedCallsAreCompleted'
<1>0. None \notin Outcomes
  BY AgentAssumption
<1>1. CASE PrepareConnectors
  BY <1>0, <1>1 DEF PrepareConnectors, Returns, StartedCallsAreCompleted, endVars, Outcomes
<1>2. CASE TaskReturns
  <2>1. outcome' = "succeeded" => phase[lead] = "answered" /\ ~cancelled
    BY <1>2 DEF TaskReturns, Returns
  <2>2. outcome' # "completed" /\ openCalls' = openCalls
    BY <1>2 DEF TaskReturns, Returns, auxVars
  <2>3. QED
    BY <2>1, <2>2, EndLeavesNothingOpen DEF StartedCallsAreCompleted
<1>3. CASE CycleReturns
  <2>1. outcome' = "completed" =>
           /\ phase[lead] \in {"stopped", "turns_used_up", "answered", "error"}
           /\ cancelled => phase[lead] = "error"
    BY <1>3 DEF CycleReturns, CycleReturnsAfterError, Returns
  <2>2. outcome' # "succeeded" /\ openCalls' = openCalls
    BY <1>3 DEF CycleReturns, CycleReturnsAfterError, Returns, auxVars
  <2>3. QED
    BY <2>1, <2>2, EndLeavesNothingOpen DEF StartedCallsAreCompleted
<1>4. CASE Dropped
  BY <1>4 DEF Dropped, Returns, StartedCallsAreCompleted
<1>5. CASE Cancel
  BY <1>5 DEF Cancel, StartedCallsAreCompleted, endVars, auxVars
<1>6. QED
  BY <1>1, <1>2, <1>3, <1>4, <1>5

(* When a run returns a result, every tool call that was shown as started has   *)
(* been shown as completed, those of its sub-agents included.                 *)
THEOREM NothingIsLeftOpen == Spec => []StartedCallsAreCompleted
<1>1. Init => StartedCallsAreCompleted
  BY DEF Init, StartedCallsAreCompleted
<1>2. AgentInv /\ StartedCallsAreCompleted /\ [Next]_vars => StartedCallsAreCompleted'
  <2> SUFFICES ASSUME AgentInv, StartedCallsAreCompleted, [Next]_vars
               PROVE  StartedCallsAreCompleted'
    OBVIOUS
  <2>1. CASE UNCHANGED vars \/ LearnFact \/ MemoryStep \/ \E c \in Call : LeadCall(c)
    <3>1. outcome' = outcome /\ openCalls' = openCalls
      BY <2>1 DEF vars, LearnFact, MemoryStep, LeadCall, SubmitReport, SpawnAgent,
                  SubAgentReturns, SaveMemory, MemorySaved, endVars, auxVars
    <3>2. QED
      BY <3>1 DEF StartedCallsAreCompleted
  <2>2. QED
    BY <2>1, AgentStepShowsAll, RunStepShowsAll DEF Next
<1>3. QED
  BY <1>1, <1>2, InvIsKept, PTL DEF Spec

-----------------------------------------------------------------------------
(* The Canvas.  Its invariant is independent of who writes: it is shown for   *)
(* any writers, MemorySpec, and the run is one of them.                      *)
(*                                                                         *)
(* A save deletes what it has found too old when it read the document.  What *)
(* makes this hold up against the saves in between is that those delete the   *)
(* same way: what one deletes is older than Cap - 1 others of its section,     *)
(* and of these, the ones newer than the latest it deletes all stay.  It takes *)
(* that an entry is told apart by its second, which holds as long as every     *)
(* save had a second of its own.                                           *)

Places == {"idle", "fetch", "lookup_section", "lookup_overflow"}

AppendType == [pc : Places, section : Section, at : 0..MaxNow, overflow : SUBSET Entry,
               target : Nat, drops : Seq(1..MaxSaves), tries : Nat]

(* The entries of the document, and those that somebody means to delete.     *)
Seen == entries \cup UNION {append[c].overflow : c \in Call}

EntriesOK ==
    /\ headings \in Seq(Section) /\ edits \in 0..MaxSaves /\ now \in 0..MaxNow
    /\ Seen \subseteq Entry
    /\ \A e \in Seen : e.id <= edits /\ e.under \in DOMAIN headings
    /\ \A e, f \in Seen : e.id = f.id => e = f

AppendsOK ==
    /\ append \in [Call -> AppendType]
    /\ \A c \in Call :
          /\ append[c].at <= now
          /\ append[c].target # 0 =>
               /\ append[c].target \in DOMAIN headings
               /\ headings[append[c].target] = append[c].section
          /\ \A i \in DOMAIN append[c].drops : append[c].drops[i] <= edits
          /\ \A e \in append[c].overflow : headings[e.under] = append[c].section

(* While every save has a second of its own, so has every entry.              *)
SecondsTellApart ==
    /\ \A e, f \in Seen : e.at = f.at => e = f
    /\ \A c, d \in Call : Saving(c) /\ Saving(d) /\ append[c].at = append[d].at => c = d
    /\ \A c \in Call, e \in Seen : Saving(c) => append[c].at # e.at
    /\ \A e \in Seen : e.at <= now
    /\ second = "quiet" => /\ \A e \in Seen : e.at < now
                           /\ \A c \in Call : Saving(c) => append[c].at < now

(* Enough entries of the section are newer than that.                         *)
Kept(s, at) == {e \in SectionEntries(s) : e.at > at}
Covered(s, at) == Cardinality(Kept(s, at)) >= Cap - 1

Doomed(c) == {e \in entries : e.id \in ToSet(append[c].drops)}

(* What a save will delete is of its section, and has enough that is newer.     *)
PrunesOldOnes ==
    \A c \in Call :
        /\ \A e \in append[c].overflow : Covered(append[c].section, e.at)
        /\ \A e \in Doomed(c) : e \in SectionEntries(append[c].section)
                                /\ Covered(append[c].section, e.at)

MemoryInv ==
    /\ EntriesOK /\ AppendsOK
    /\ second \in {"quiet", "used", "shared"}
    /\ second # "shared" => SecondsTellApart /\ PrunesOldOnes

LEMMA SmallestExists ==
    ASSUME NEW T \in SUBSET Nat, T # {}
    PROVE  \E m \in T : \A n \in T : m <= n
<1>1. \E m \in T : \A n \in T : ~(<<n, m>> \in OpToRel(<, Nat))
  BY NatLessThanWellFounded, WFMin, Zenon
<1>2. PICK m \in T : \A n \in T : ~(<<n, m>> \in OpToRel(<, Nat))
  BY <1>1
<1>3. \A n \in T : ~(n < m)
  BY <1>2 DEF OpToRel
<1>4. QED
  BY <1>3

LEMMA LatestExists ==
    ASSUME NEW T \in SUBSET entries, T # {}, entries \subseteq Entry
    PROVE  \E k \in T : \A d \in T : d.at <= k.at
<1> DEFINE Ages == {MaxNow - e.at : e \in T}
<1>1. \A e \in T : e.at \in 0..MaxNow
  BY DEF Entry
<1>2. Ages \in SUBSET Nat /\ Ages # {}
  BY <1>1, MemoryAssumption
<1>3. PICK m \in Ages : \A n \in Ages : m <= n
  <2> HIDE DEF Ages
  <2> QED
    BY <1>2, SmallestExists
<1>4. PICK k \in T : m = MaxNow - k.at
  BY <1>3
<1>5. \A d \in T : MaxNow - k.at <= MaxNow - d.at
  BY <1>3, <1>4
<1>6. QED
  BY <1>1, <1>5, MemoryAssumption

(* Entries with numbers of their own are finitely many.                       *)
LEMMA NumberedAreFinite ==
    ASSUME NEW S \in SUBSET Entry, \A e, f \in S : e.id = f.id => e = f
    PROVE  IsFiniteSet(S) /\ Cardinality(S) \in Nat
<1> DEFINE number == [e \in S |-> e.id]
<1>1. \A e \in S : e.id \in 1..MaxSaves
  BY DEF Entry
<1>2. number \in [S -> 1..MaxSaves]
  BY <1>1
<1>3. number \in Injection(S, 1..MaxSaves)
  BY <1>2 DEF Injection, IsInjective
<1>4. IsFiniteSet(1..MaxSaves)
  BY MemoryAssumption, FS_Interval
<1>5. IsFiniteSet(S)
  <2> HIDE DEF number
  <2> QED
    BY <1>3, <1>4, FS_Injection
<1>6. QED
  BY <1>5, FS_CardinalityType

(* More entries cover no less.                                              *)
LEMMA MoreCovers ==
    ASSUME NEW T \in SUBSET Entry, \A e, f \in T : e.id = f.id => e = f,
           NEW S \in SUBSET T, Cardinality(S) >= Cap - 1
    PROVE  Cardinality(T) >= Cap - 1
<1>1. IsFiniteSet(T) /\ Cardinality(T) \in Nat
  BY NumberedAreFinite
<1>2. Cardinality(S) <= Cardinality(T) /\ Cardinality(S) \in Nat
  BY <1>1, FS_Subset, FS_CardinalityType
<1>3. QED
  BY <1>1, <1>2, MemoryAssumption

(* What an edit leaves of a section: all that is newer than its latest victim. *)
LEMMA EditKeepsCover ==
    ASSUME MemoryInv, second # "shared", EntriesOK', NEW c \in Call, ApplyEdit(c),
           NEW s \in Section, NEW at \in Nat, Covered(s, at)
    PROVE  Covered(s, at)'
<1>1. \A e \in entries : e \in entries' \/ e \in Doomed(c)
  BY DEF ApplyEdit, Doomed
<1>2. \A e \in entries : headings'[e.under] = headings[e.under]
  BY DEF MemoryInv, EntriesOK, AppendsOK, AppendType, Seen, ApplyEdit
<1>3. ASSUME NEW S \in SUBSET Kept(s, at), Cardinality(S) >= Cap - 1, S \cap Doomed(c) = {}
      PROVE  Covered(s, at)'
  <2>1. S \subseteq Kept(s, at)'
    BY <1>1, <1>2, <1>3 DEF Kept, SectionEntries
  <2>2. /\ Kept(s, at)' \in SUBSET Entry
        /\ \A e, f \in Kept(s, at)' : e.id = f.id => e = f
    BY DEF Kept, SectionEntries, EntriesOK, Seen
  <2>3. QED
    BY <1>3, <2>1, <2>2, MoreCovers DEF Covered
<1>4. CASE Kept(s, at) \cap Doomed(c) = {}
  BY <1>3, <1>4 DEF Covered
<1>5. CASE Kept(s, at) \cap Doomed(c) # {}
  <2> DEFINE victims == Kept(s, at) \cap Doomed(c)
  <2>1. victims \in SUBSET entries /\ entries \subseteq Entry
    BY DEF MemoryInv, EntriesOK, Seen, Doomed
  <2>2. PICK k \in victims : \A d \in victims : d.at <= k.at
    <3> HIDE DEF victims
    <3> QED
      BY <1>5, <2>1, LatestExists DEF victims
  <2>3. k \in SectionEntries(append[c].section) /\ Covered(append[c].section, k.at)
    BY <2>2 DEF MemoryInv, PrunesOldOnes
  <2>4. s = append[c].section
    BY <2>2, <2>3 DEF Kept, SectionEntries
  <2>5. k.at > at /\ k.at \in Nat
    BY <2>1, <2>2, MemoryAssumption DEF Kept, Entry
  <2>6. Kept(s, k.at) \subseteq Kept(s, at)
    BY <2>1, <2>5, MemoryAssumption DEF Kept, SectionEntries, Entry
  <2>7. Kept(s, k.at) \cap Doomed(c) = {}
    <3> SUFFICES ASSUME NEW d \in Kept(s, k.at), d \in Doomed(c)
                 PROVE  FALSE
      OBVIOUS
    <3>1. d \in victims /\ d.at > k.at
      BY <2>6 DEF Kept
    <3>2. d.at \in Nat
      BY <2>1, <3>1, MemoryAssumption DEF Entry
    <3>3. QED
      BY <2>2, <2>5, <3>1, <3>2
  <2>8. QED
    BY <1>3, <2>3, <2>4, <2>6, <2>7 DEF Covered
<1>6. QED
  BY <1>4, <1>5

(* A save that goes on from what it has, and from the document as it is.       *)
GoesOn(c) ==
    /\ Saving(c) /\ append'[c] \in AppendType
    /\ append'[c].at = append[c].at /\ append'[c].section = append[c].section
    /\ append'[c].target # 0 =>
         /\ append'[c].target \in DOMAIN headings
         /\ headings[append'[c].target] = append[c].section
    /\ \A i \in DOMAIN append'[c].drops : append'[c].drops[i] <= edits
    /\ append'[c].overflow \subseteq append[c].overflow \cup SectionEntries(append[c].section)
    /\ second # "shared" =>
         /\ \A e \in append'[c].overflow : Covered(append[c].section, e.at)
         /\ \A e \in entries : e.id \in ToSet(append'[c].drops) =>
              e \in SectionEntries(append[c].section) /\ Covered(append[c].section, e.at)

LEMMA NoAppendTyped ==
    /\ NoAppend \in AppendType /\ NoAppend.pc = "idle" /\ NoAppend.at = 0
    /\ NoAppend.overflow = {} /\ NoAppend.target = 0
    /\ NoAppend.drops = <<>> /\ DOMAIN NoAppend.drops = {}
    /\ ToSet(NoAppend.drops) = {}
<1>1. NoAppend \in AppendType
  BY MemoryAssumption DEF NoAppend, AppendType, Places
<1>2. QED
  BY <1>1 DEF NoAppend, ToSet

(* Whoever reads, or gives up, leaves the invariant as it is.                 *)
LEMMA ReadingKeepsInv ==
    ASSUME MemoryInv, UNCHANGED <<documentVars, now, second>>,
           append' \in [Call -> AppendType],
           \A c \in Call : append'[c] \in {append[c], NoAppend} \/ GoesOn(c)
    PROVE  MemoryInv'
<1>0. /\ headings' = headings /\ entries' = entries /\ edits' = edits
      /\ now' = now /\ second' = second
  BY DEF documentVars
<1>1. \A c \in Call : append'[c].overflow \subseteq Seen
  BY NoAppendTyped DEF GoesOn, Seen, SectionEntries
<1>2. Seen' \subseteq Seen
  BY <1>0, <1>1 DEF Seen
<1>3. EntriesOK'
  BY <1>0, <1>2 DEF MemoryInv, EntriesOK
<1>4. AppendsOK'
  <2> SUFFICES ASSUME NEW c \in Call
               PROVE  /\ append'[c].at <= now
                      /\ append'[c].target # 0 =>
                           /\ append'[c].target \in DOMAIN headings
                           /\ headings[append'[c].target] = append'[c].section
                      /\ \A i \in DOMAIN append'[c].drops : append'[c].drops[i] <= edits
                      /\ \A e \in append'[c].overflow : headings[e.under] = append'[c].section
    BY <1>0 DEF AppendsOK
  <2>1. CASE append'[c] = append[c]
    BY <2>1 DEF MemoryInv, AppendsOK
  <2>2. CASE append'[c] = NoAppend
    BY <2>2, NoAppendTyped DEF MemoryInv, EntriesOK
  <2>3. CASE GoesOn(c)
    BY <2>3 DEF GoesOn, SectionEntries, MemoryInv, AppendsOK
  <2>4. QED
    BY <2>1, <2>2, <2>3
<1>5. ASSUME second # "shared"
      PROVE  SecondsTellApart'
  <2>1. \A c \in Call : Saving(c)' => Saving(c) /\ append'[c].at = append[c].at
    BY NoAppendTyped DEF GoesOn, Saving
  <2>2. QED
    BY <1>0, <1>2, <1>5, <2>1 DEF MemoryInv, SecondsTellApart
<1>6. ASSUME second # "shared"
      PROVE  PrunesOldOnes'
  <2>1. \A s, at : Covered(s, at)' <=> Covered(s, at)
    BY <1>0 DEF Covered, Kept, SectionEntries
  <2>2. \A s : SectionEntries(s)' = SectionEntries(s)
    BY <1>0 DEF SectionEntries
  <2>3. \A c \in Call : Doomed(c)' = {e \in entries : e.id \in ToSet(append'[c].drops)}
    BY <1>0 DEF Doomed
  <2> SUFFICES ASSUME NEW c \in Call
               PROVE  /\ \A e \in append'[c].overflow : Covered(append'[c].section, e.at)
                      /\ \A e \in entries : e.id \in ToSet(append'[c].drops) =>
                           /\ e \in SectionEntries(append'[c].section)
                           /\ Covered(append'[c].section, e.at)
    BY <2>1, <2>2, <2>3 DEF PrunesOldOnes
  <2>4. CASE append'[c] = append[c]
    BY <1>6, <2>4 DEF MemoryInv, PrunesOldOnes, Doomed
  <2>5. CASE append'[c] = NoAppend
    BY <2>5, NoAppendTyped
  <2>6. CASE GoesOn(c)
    BY <1>6, <2>6 DEF GoesOn
  <2>7. QED
    BY <2>4, <2>5, <2>6
<1>7. QED
  BY <1>0, <1>3, <1>4, <1>5, <1>6 DEF MemoryInv

(* One save goes on, the others wait.                                       *)
LEMMA OneGoesOn ==
    ASSUME MemoryInv, UNCHANGED <<documentVars, now, second>>, NEW c \in Call,
           NEW next, append' = [append EXCEPT ![c] = next], GoesOn(c) \/ next = NoAppend
    PROVE  MemoryInv'
<1>1. append \in [Call -> AppendType] /\ append'[c] = next
  BY DEF MemoryInv, AppendsOK
<1>2. next \in AppendType
  BY <1>1, NoAppendTyped DEF GoesOn
<1>3. QED
  BY <1>1, <1>2, ReadingKeepsInv


LEMMA FetchKeepsInv ==
    ASSUME MemoryInv, NEW c \in Call, FetchCanvas(c)
    PROVE  MemoryInv'
<1> DEFINE s == append[c].section
           next == [append[c] EXCEPT !.pc = "lookup_section", !.overflow = Overflow(s)]
<1>1. /\ append \in [Call -> AppendType] /\ append[c].pc = "fetch"
      /\ append[c] \in AppendType
  BY DEF MemoryInv, AppendsOK, FetchCanvas
<1>2. append' = [append EXCEPT ![c] = next]
  BY <1>1 DEF FetchCanvas, AppendType
<1>3. Overflow(s) \subseteq SectionEntries(s) /\ SectionEntries(s) \subseteq Entry
  BY DEF Overflow, SectionEntries, MemoryInv, EntriesOK, Seen
<1>4. next \in AppendType
  BY <1>1, <1>3 DEF AppendType, Places
<1>5. ASSUME second # "shared"
      PROVE  \A e \in Overflow(s) : Covered(s, e.at)
  <2> SUFFICES ASSUME NEW e \in Overflow(s)
               PROVE  Covered(s, e.at)
    OBVIOUS
  <2>1. {f \in SectionEntries(s) : Newer(f, e)} = Kept(s, e.at)
    BY <1>3, <1>5, MemoryAssumption
       DEF MemoryInv, SecondsTellApart, Seen, Kept, Newer, SectionEntries, Entry
  <2>2. QED
    BY <2>1 DEF Overflow, Covered
<1>6. /\ append'[c] = next /\ next.at = append[c].at /\ next.section = s
      /\ next.target = append[c].target /\ next.drops = append[c].drops
      /\ next.overflow = Overflow(s)
  BY <1>1, <1>2 DEF AppendType
<1> HIDE DEF next
<1>7. GoesOn(c)
  <2>1. append'[c].overflow \subseteq append[c].overflow \cup SectionEntries(append[c].section)
    BY <1>3, <1>6
  <2>2. /\ append'[c].target # 0 =>
             /\ append'[c].target \in DOMAIN headings
             /\ headings[append'[c].target] = append[c].section
        /\ \A i \in DOMAIN append'[c].drops : append'[c].drops[i] <= edits
    BY <1>6 DEF MemoryInv, AppendsOK
  <2>3. second # "shared" =>
         /\ \A e \in append'[c].overflow : Covered(append[c].section, e.at)
         /\ \A e \in entries : e.id \in ToSet(append'[c].drops) =>
              e \in SectionEntries(append[c].section) /\ Covered(append[c].section, e.at)
    BY <1>5, <1>6 DEF MemoryInv, PrunesOldOnes, Doomed
  <2>4. Saving(c)
    BY <1>1 DEF Saving
  <2>5. QED
    BY <1>4, <1>6, <2>1, <2>2, <2>3, <2>4 DEF GoesOn
<1>8. QED
  BY <1>2, <1>7, OneGoesOn DEF FetchCanvas

LEMMA SectionKeepsInv ==
    ASSUME MemoryInv, NEW c \in Call, LookupSection(c)
    PROVE  MemoryInv'
<1> DEFINE s == append[c].section
           i == LookupSectionId(s)
           next == [append[c] EXCEPT !.pc = "lookup_overflow", !.target = i]
<1>1. /\ append \in [Call -> AppendType] /\ append[c].pc = "lookup_section"
      /\ append[c] \in AppendType
  BY DEF MemoryInv, AppendsOK, LookupSection
<1>2. append' = [append EXCEPT ![c] = next]
  BY <1>1 DEF LookupSection, AppendType
<1>3. i \in Nat /\ (i # 0 => i \in DOMAIN headings /\ headings[i] = s)
  <2> DEFINE matches == {j \in DOMAIN headings : headings[j] = s}
  <2>1. matches \in SUBSET Nat
    BY DEF MemoryInv, EntriesOK
  <2>2. CASE matches = {}
    BY <2>2 DEF LookupSectionId
  <2>3. CASE matches # {}
    <3>1. \E m \in matches : \A n \in matches : m <= n
      <4> HIDE DEF matches
      <4> QED
        BY <2>1, <2>3, SmallestExists
    <3>2. i = CHOOSE m \in matches : \A n \in matches : m <= n
      BY <2>3 DEF LookupSectionId
    <3>3. i \in matches
      <4> HIDE DEF matches, i
      <4> QED
        BY <3>1, <3>2
    <3>4. QED
      BY <2>1, <3>3
  <2>4. QED
    BY <2>2, <2>3
<1> HIDE DEF i
<1>4. next \in AppendType
  BY <1>1, <1>3 DEF AppendType, Places
<1>5. /\ append'[c] = next /\ next.at = append[c].at /\ next.section = s
      /\ next.target = i /\ next.drops = append[c].drops
      /\ next.overflow = append[c].overflow
  BY <1>1, <1>2 DEF AppendType
<1> HIDE DEF next
<1>6. GoesOn(c)
  <2>1. \A k \in DOMAIN append'[c].drops : append'[c].drops[k] <= edits
    BY <1>5 DEF MemoryInv, AppendsOK
  <2>2. second # "shared" =>
         /\ \A e \in append'[c].overflow : Covered(append[c].section, e.at)
         /\ \A e \in entries : e.id \in ToSet(append'[c].drops) =>
              e \in SectionEntries(append[c].section) /\ Covered(append[c].section, e.at)
    BY <1>5 DEF MemoryInv, PrunesOldOnes, Doomed
  <2>3. Saving(c)
    BY <1>1 DEF Saving
  <2>4. QED
    BY <1>3, <1>4, <1>5, <2>1, <2>2, <2>3 DEF GoesOn
<1>7. QED
  BY <1>2, <1>6, OneGoesOn DEF LookupSection

(* The lookup of an entry finds that entry, or none, when its second is its own. *)
LEMMA OverflowKeepsInv ==
    ASSUME MemoryInv, NEW c \in Call, LookupOverflow(c)
    PROVE  MemoryInv'
<1> DEFINE s == append[c].section
<1>1. /\ append \in [Call -> AppendType] /\ append[c].pc = "lookup_overflow"
      /\ append[c] \in AppendType
  BY DEF MemoryInv, AppendsOK, LookupOverflow
<1>a. PICK o \in append[c].overflow : \E ids \in LookupEntryIds(o.at) :
        append' = [append EXCEPT ![c].overflow = @ \ {o}, ![c].drops = @ \o ids]
  BY DEF LookupOverflow
<1>2. PICK ids \in LookupEntryIds(o.at) :
        append' = [append EXCEPT ![c].overflow = @ \ {o}, ![c].drops = @ \o ids]
  BY <1>a
<1> DEFINE next == [append[c] EXCEPT !.overflow = append[c].overflow \ {o},
                                     !.drops = append[c].drops \o ids]
<1>3. append' = [append EXCEPT ![c] = next]
  BY <1>1, <1>2 DEF AppendType
<1>4. ids = <<>> \/ (\E e \in entries : e.at = o.at /\ ids = <<e.id>>)
  BY <1>2, Zenon DEF LookupEntryIds
<1>5. /\ ids \in Seq(1..MaxSaves)
      /\ \A k \in DOMAIN ids : ids[k] <= edits
      /\ \A d \in ToSet(ids) : \E e \in entries : e.at = o.at /\ d = e.id
  <2>1. CASE ids = <<>>
    BY <2>1 DEF ToSet
  <2>2. ASSUME NEW e \in entries, e.at = o.at, ids = <<e.id>>
        PROVE  /\ ids \in Seq(1..MaxSaves)
              /\ \A k \in DOMAIN ids : ids[k] <= edits
              /\ \A d \in ToSet(ids) : \E f \in entries : f.at = o.at /\ d = f.id
    <3>1. e.id \in 1..MaxSaves /\ e.id <= edits
      BY DEF MemoryInv, EntriesOK, Seen, Entry
    <3>2. DOMAIN ids = {1} /\ ids[1] = e.id
      BY <2>2
    <3>3. QED
      BY <2>2, <3>1, <3>2 DEF ToSet
  <2>3. QED
    BY <1>4, <2>1, <2>2
<1>6. /\ append[c].drops \o ids \in Seq(1..MaxSaves)
      /\ \A k \in DOMAIN (append[c].drops \o ids) : (append[c].drops \o ids)[k] <= edits
      /\ ToSet(append[c].drops \o ids) \subseteq ToSet(append[c].drops) \cup ToSet(ids)
  <2>1. append[c].drops \in Seq(1..MaxSaves)
    BY <1>1 DEF AppendType
  <2>2. \A k \in DOMAIN append[c].drops : append[c].drops[k] <= edits
    BY DEF MemoryInv, AppendsOK
  <2>3. \A k \in DOMAIN (append[c].drops \o ids) :
           \/ k \in DOMAIN append[c].drops /\ (append[c].drops \o ids)[k] = append[c].drops[k]
           \/ \E j \in DOMAIN ids : (append[c].drops \o ids)[k] = ids[j]
    <3> SUFFICES ASSUME NEW k \in DOMAIN (append[c].drops \o ids), k \notin DOMAIN append[c].drops
                 PROVE  \E j \in DOMAIN ids : (append[c].drops \o ids)[k] = ids[j]
      BY <1>5, <2>1
    <3>1. k - Len(append[c].drops) \in DOMAIN ids
      BY <1>5, <2>1
    <3>2. (append[c].drops \o ids)[k] = ids[k - Len(append[c].drops)]
      BY <1>5, <2>1
    <3>3. QED
      BY <3>1, <3>2
  <2>4. QED
    BY <1>5, <2>1, <2>2, <2>3 DEF ToSet
<1>7. next \in AppendType
  BY <1>1, <1>6 DEF AppendType
<1>8. /\ append'[c] = next /\ next.at = append[c].at /\ next.section = s
      /\ next.target = append[c].target /\ next.drops = append[c].drops \o ids
      /\ next.overflow = append[c].overflow \ {o}
  BY <1>1, <1>3 DEF AppendType
<1> HIDE DEF next
<1>9. ASSUME second # "shared", NEW e \in entries, e.id \in ToSet(append'[c].drops)
      PROVE  e \in SectionEntries(s) /\ Covered(s, e.at)
  <2>1. CASE e.id \in ToSet(append[c].drops)
    BY <1>9, <2>1 DEF MemoryInv, PrunesOldOnes, Doomed
  <2>2. CASE e.id \in ToSet(ids)
    <3>1. PICK f \in entries : f.at = o.at /\ e.id = f.id
      BY <1>5, <2>2
    <3>2. e \in Seen /\ f \in Seen /\ o \in Seen
      BY <1>a, <3>1 DEF Seen
    <3>3. e = f
      BY <3>1, <3>2 DEF MemoryInv, EntriesOK
    <3>4. f = o
      BY <1>9, <3>1, <3>2 DEF MemoryInv, SecondsTellApart
    <3>5. headings[o.under] = s
      BY <1>a DEF MemoryInv, AppendsOK
    <3>6. Covered(s, o.at)
      BY <1>a, <1>9 DEF MemoryInv, PrunesOldOnes
    <3>7. QED
      BY <3>3, <3>4, <3>5, <3>6 DEF SectionEntries
  <2>3. QED
    BY <1>6, <1>8, <1>9, <2>1, <2>2
<1>10. GoesOn(c)
  <2>1. append'[c].target # 0 =>
             /\ append'[c].target \in DOMAIN headings
             /\ headings[append'[c].target] = append[c].section
    BY <1>8 DEF MemoryInv, AppendsOK
  <2>2. second # "shared" => \A e \in append'[c].overflow : Covered(append[c].section, e.at)
    BY <1>8 DEF MemoryInv, PrunesOldOnes
  <2>3. Saving(c)
    BY <1>1 DEF Saving
  <2>4. \A k \in DOMAIN append'[c].drops : append'[c].drops[k] <= edits
    BY <1>6, <1>8
  <2>5. QED
    BY <1>7, <1>8, <1>9, <2>1, <2>2, <2>3, <2>4 DEF GoesOn
<1>11. QED
  BY <1>3, <1>10, OneGoesOn DEF LookupOverflow


LEMMA GivingUpKeepsInv ==
    ASSUME MemoryInv, DropAppends \/ \E c \in Call : AppendFails(c) \/ EditLocked(c)
    PROVE  MemoryInv'
<1>1. CASE DropAppends
  <2>1. PICK dropped \in SUBSET Call :
          append' = [c \in Call |-> IF c \in dropped THEN NoAppend ELSE append[c]]
    BY <1>1 DEF DropAppends
  <2>2. append' \in [Call -> AppendType]
    BY <2>1, NoAppendTyped DEF MemoryInv, AppendsOK
  <2>3. \A c \in Call : append'[c] \in {append[c], NoAppend}
    BY <2>1
  <2>4. QED
    BY <1>1, <2>2, <2>3, ReadingKeepsInv DEF DropAppends
<1>2. ASSUME NEW c \in Call, AppendFails(c)
      PROVE  MemoryInv'
  BY <1>2, OneGoesOn DEF AppendFails
<1>3. ASSUME NEW c \in Call, EditLocked(c)
      PROVE  MemoryInv'
  <2> DEFINE next == [append[c] EXCEPT !.tries = append[c].tries + 1]
  <2>1. append \in [Call -> AppendType] /\ append[c] \in AppendType
    BY DEF MemoryInv, AppendsOK
  <2>2. append' = [append EXCEPT ![c] = next] /\ next \in AppendType
    <3>1. append[c].tries + 1 \in Nat
      BY <2>1 DEF AppendType
    <3>2. next \in AppendType
      BY <2>1, <3>1 DEF AppendType
    <3>3. append' = [append EXCEPT ![c] = next]
      BY <1>3, <2>1 DEF EditLocked
    <3>4. QED
      BY <3>2, <3>3
  <2>3. /\ append'[c] = next /\ next.at = append[c].at /\ next.section = append[c].section
        /\ next.target = append[c].target /\ next.drops = append[c].drops
        /\ next.overflow = append[c].overflow
    BY <2>1, <2>2 DEF AppendType
  <2> HIDE DEF next
  <2>4. GoesOn(c)
    <3>1. /\ append'[c].target # 0 =>
               /\ append'[c].target \in DOMAIN headings
               /\ headings[append'[c].target] = append[c].section
          /\ \A k \in DOMAIN append'[c].drops : append'[c].drops[k] <= edits
      BY <2>3 DEF MemoryInv, AppendsOK
    <3>2. second # "shared" =>
           /\ \A e \in append'[c].overflow : Covered(append[c].section, e.at)
           /\ \A e \in entries : e.id \in ToSet(append'[c].drops) =>
                e \in SectionEntries(append[c].section) /\ Covered(append[c].section, e.at)
      BY <2>3 DEF MemoryInv, PrunesOldOnes, Doomed
    <3>3. Saving(c)
      BY <1>3 DEF EditLocked, ReadyToEdit, Saving
    <3>4. QED
      BY <2>2, <2>3, <3>1, <3>2, <3>3 DEF GoesOn
  <2>5. QED
    BY <1>3, <2>2, <2>4, OneGoesOn DEF EditLocked
<1>4. QED
  BY <1>1, <1>2, <1>3

LEMMA BeginKeepsInv ==
    ASSUME MemoryInv, NEW c \in Call, NEW s \in Section, BeginAppend(c, s)
    PROVE  MemoryInv'
<1> DEFINE next == [NoAppend EXCEPT !.pc = "fetch", !.section = s, !.at = now]
<1>0. /\ headings' = headings /\ entries' = entries /\ edits' = edits /\ now' = now
      /\ append' = [append EXCEPT ![c] = next] /\ append[c].pc = "idle"
      /\ second' = IF second = "quiet" THEN "used" ELSE "shared"
  BY DEF BeginAppend, documentVars, Saving
<1>1. /\ append \in [Call -> AppendType] /\ now \in 0..MaxNow
  BY DEF MemoryInv, AppendsOK, EntriesOK
<1>2. /\ next \in AppendType /\ next.pc = "fetch" /\ next.section = s /\ next.at = now
      /\ next.overflow = {} /\ next.target = 0 /\ next.drops = <<>>
      /\ DOMAIN next.drops = {} /\ ToSet(next.drops) = {}
  BY <1>1, NoAppendTyped DEF AppendType, Places, ToSet
<1> HIDE DEF next
<1>3. append' \in [Call -> AppendType] /\ append'[c] = next
  BY <1>0, <1>1, <1>2
<1>4. \A d \in Call \ {c} : append'[d] = append[d]
  BY <1>0, <1>1
<1>5. Seen' \subseteq Seen
  BY <1>0, <1>2, <1>3, <1>4 DEF Seen
<1>6. EntriesOK'
  BY <1>0, <1>5 DEF MemoryInv, EntriesOK
<1>7. AppendsOK'
  BY <1>0, <1>1, <1>2, <1>3, <1>4 DEF MemoryInv, AppendsOK
<1>8. ASSUME second' # "shared"
      PROVE  SecondsTellApart' /\ PrunesOldOnes'
  <2>1. second = "quiet" /\ second' = "used" /\ SecondsTellApart /\ PrunesOldOnes
    BY <1>0, <1>8 DEF MemoryInv
  <2>2. /\ \A e \in Seen : e.at < now
        /\ \A d \in Call : Saving(d) => append[d].at < now
    BY <2>1 DEF SecondsTellApart
  <2>3. \A d \in Call : Saving(d)' => d = c \/ (Saving(d) /\ append'[d].at < now)
    BY <1>4, <2>2 DEF Saving
  <2>4. \A d \in Call, e \in Seen' : Saving(d)' => append'[d].at # e.at
    BY <1>0, <1>2, <1>3, <1>4, <1>5, <2>1, <2>2, <2>3, <1>1, MemoryAssumption
       DEF SecondsTellApart, MemoryInv, EntriesOK, Entry
  <2>5. \A d, b \in Call : Saving(d)' /\ Saving(b)' /\ append'[d].at = append'[b].at => d = b
    BY <1>1, <1>2, <1>3, <1>4, <2>1, <2>3 DEF SecondsTellApart
  <2>6. SecondsTellApart'
    BY <1>0, <1>5, <2>1, <2>4, <2>5 DEF SecondsTellApart
  <2>7. /\ \A z, at : Covered(z, at)' <=> Covered(z, at)
        /\ \A z : SectionEntries(z)' = SectionEntries(z)
    BY <1>0 DEF Covered, Kept, SectionEntries
  <2>8. PrunesOldOnes'
    <3> SUFFICES ASSUME NEW d \in Call
                 PROVE  /\ \A e \in append'[d].overflow : Covered(append'[d].section, e.at)
                        /\ \A e \in Doomed(d)' : /\ e \in SectionEntries(append'[d].section)
                                                 /\ Covered(append'[d].section, e.at)
      BY <2>7 DEF PrunesOldOnes
    <3>1. CASE d = c
      BY <1>2, <1>3, <3>1 DEF Doomed
    <3>2. CASE d # c
      BY <1>0, <1>4, <2>1, <3>2 DEF Doomed, PrunesOldOnes
    <3>3. QED
      BY <3>1, <3>2
  <2>9. QED
    BY <2>6, <2>8
<1>9. second' \in {"quiet", "used", "shared"}
  BY <1>0
<1>10. QED
  BY <1>6, <1>7, <1>8, <1>9 DEF MemoryInv

LEMMA SecondKeepsInv ==
    ASSUME MemoryInv, SecondPasses
    PROVE  MemoryInv'
<1>0. /\ headings' = headings /\ entries' = entries /\ edits' = edits /\ append' = append
      /\ now' = now + 1 /\ now' \in 0..MaxNow /\ now \in Nat
      /\ second' = IF second = "shared" THEN "shared" ELSE "quiet"
  BY MemoryAssumption DEF SecondPasses, documentVars, MemoryInv, EntriesOK
<1>1. Seen' = Seen
  BY <1>0 DEF Seen
<1>2. EntriesOK'
  BY <1>0, <1>1 DEF MemoryInv, EntriesOK
<1>3. \A c \in Call : append[c].at \in Nat /\ append[c].at < now'
  BY <1>0, MemoryAssumption DEF MemoryInv, AppendsOK, AppendType
<1>4. AppendsOK'
  BY <1>0, <1>3 DEF MemoryInv, AppendsOK
<1>5. ASSUME second' # "shared"
      PROVE  SecondsTellApart' /\ PrunesOldOnes'
  <2>1. SecondsTellApart /\ PrunesOldOnes
    BY <1>0, <1>5 DEF MemoryInv
  <2>2. \A e \in Seen : e.at \in Nat /\ e.at < now'
    BY <1>0, <2>1, MemoryAssumption DEF SecondsTellApart, MemoryInv, EntriesOK, Entry
  <2>3. SecondsTellApart'
    BY <1>0, <1>1, <1>3, <2>1, <2>2 DEF SecondsTellApart, Saving
  <2>4. PrunesOldOnes'
    BY <1>0, <2>1 DEF PrunesOldOnes, Doomed, Covered, Kept, SectionEntries
  <2>5. QED
    BY <2>3, <2>4
<1>6. second' \in {"quiet", "used", "shared"}
  BY <1>0
<1>7. QED
  BY <1>2, <1>4, <1>5, <1>6 DEF MemoryInv

LEMMA EditKeepsInv ==
    ASSUME MemoryInv, NEW c \in Call, ApplyEdit(c)
    PROVE  MemoryInv'
<1> DEFINE new == NewEntry(c)
<1>0. /\ headings' = IF append[c].target = 0 THEN Append(headings, append[c].section) ELSE headings
      /\ entries' = {e \in entries : e.id \notin ToSet(append[c].drops)} \cup {new}
      /\ edits' = edits + 1 /\ edits < MaxSaves /\ now' = now /\ second' = second
      /\ append' = [append EXCEPT ![c] = NoAppend]
      /\ Saving(c)
  BY DEF ApplyEdit, ReadyToEdit, Saving
<1>1. /\ append \in [Call -> AppendType] /\ append[c] \in AppendType
      /\ headings \in Seq(Section) /\ edits \in Nat /\ now \in Nat
  BY DEF MemoryInv, AppendsOK, EntriesOK
<1>2. /\ headings' \in Seq(Section) /\ DOMAIN headings \subseteq DOMAIN headings'
      /\ \A i \in DOMAIN headings : headings'[i] = headings[i]
  BY <1>0, <1>1 DEF AppendType
<1>3. /\ new \in Entry /\ new.at = append[c].at /\ new.id = edits'
      /\ new.under \in DOMAIN headings' /\ headings'[new.under] = append[c].section
  <2>1. new.under \in DOMAIN headings' /\ headings'[new.under] = append[c].section
    BY <1>0, <1>1 DEF NewEntry, AppendType, MemoryInv, AppendsOK
  <2>2. new.under \in Nat
    BY <1>1 DEF NewEntry, AppendType
  <2>3. new.at = append[c].at /\ new.id = edits' /\ new.id \in 1..MaxSaves
    BY <1>0, <1>1, MemoryAssumption DEF NewEntry
  <2>4. QED
    BY <1>1, <2>1, <2>2, <2>3 DEF NewEntry, AppendType, Entry
<1> HIDE DEF new
<1>4. /\ append' \in [Call -> AppendType] /\ append'[c] = NoAppend
      /\ \A d \in Call \ {c} : append'[d] = append[d]
  BY <1>0, <1>1, NoAppendTyped
<1>5. Seen' \subseteq Seen \cup {new}
  BY <1>0, <1>4, NoAppendTyped DEF Seen
<1>6. EntriesOK'
  <2>1. \A e \in Seen : e.id \in Nat /\ e.id <= edits /\ e.under \in DOMAIN headings'
    BY <1>2, MemoryAssumption DEF MemoryInv, EntriesOK, Entry
  <2>2. \A e \in Seen' : e.id <= edits' /\ e.under \in DOMAIN headings'
    BY <1>0, <1>1, <1>3, <1>5, <2>1
  <2>3. \A e, f \in Seen' : e.id = f.id => e = f
    BY <1>0, <1>1, <1>3, <1>5, <2>1 DEF MemoryInv, EntriesOK
  <2>4. Seen' \subseteq Entry
    BY <1>3, <1>5 DEF MemoryInv, EntriesOK
  <2>5. edits' \in 0..MaxSaves
    BY <1>0, <1>1, MemoryAssumption
  <2>6. QED
    BY <1>0, <1>2, <2>2, <2>3, <2>4, <2>5 DEF EntriesOK, MemoryInv
<1>7. AppendsOK'
  <2> SUFFICES ASSUME NEW d \in Call
               PROVE  /\ append'[d].at <= now
                      /\ append'[d].target # 0 =>
                           /\ append'[d].target \in DOMAIN headings'
                           /\ headings'[append'[d].target] = append'[d].section
                      /\ \A i \in DOMAIN append'[d].drops : append'[d].drops[i] <= edits'
                      /\ \A e \in append'[d].overflow : headings'[e.under] = append'[d].section
    BY <1>0, <1>4 DEF AppendsOK
  <2>1. CASE d = c
    BY <1>1, <1>4, <2>1, NoAppendTyped
  <2>2. CASE d # c
    <3>1. \A e \in append[d].overflow : e.under \in DOMAIN headings
      BY DEF MemoryInv, EntriesOK, Seen
    <3>2. \A i \in DOMAIN append[d].drops : append[d].drops[i] \in Nat
      <4>1. append[d].drops \in Seq(1..MaxSaves)
        BY <1>1 DEF AppendType
      <4>2. QED
        BY <4>1, MemoryAssumption
    <3>3. /\ append[d].at <= now
          /\ append[d].target # 0 =>
               /\ append[d].target \in DOMAIN headings
               /\ headings[append[d].target] = append[d].section
          /\ \A i \in DOMAIN append[d].drops : append[d].drops[i] <= edits
          /\ \A e \in append[d].overflow : headings[e.under] = append[d].section
      BY DEF MemoryInv, AppendsOK
    <3>4. append'[d] = append[d]
      BY <1>4, <2>2
    <3>5. append[d].target # 0 => /\ append[d].target \in DOMAIN headings'
                                  /\ headings'[append[d].target] = append[d].section
      BY <1>2, <3>3
    <3>6. \A i \in DOMAIN append[d].drops : append[d].drops[i] <= edits'
      BY <1>0, <1>1, <3>2, <3>3
    <3>7. \A e \in append[d].overflow : headings'[e.under] = append[d].section
      BY <1>2, <3>1, <3>3
    <3>8. QED
      BY <3>3, <3>4, <3>5, <3>6, <3>7
  <2>3. QED
    BY <2>1, <2>2
<1>8. ASSUME second # "shared"
      PROVE  SecondsTellApart'
  <2>1. SecondsTellApart
    BY <1>8 DEF MemoryInv
  <2>2. \A d \in Call : Saving(d)' => d # c /\ Saving(d) /\ append'[d] = append[d]
    BY <1>4, NoAppendTyped DEF Saving
  <2>3. \A e \in Seen : e.at # new.at
    BY <1>0, <1>3, <2>1 DEF SecondsTellApart
  <2>4. /\ \A e, f \in Seen' : e.at = f.at => e = f
        /\ \A d \in Call, e \in Seen' : Saving(d)' => append'[d].at # e.at
        /\ \A d, b \in Call : Saving(d)' /\ Saving(b)' /\ append'[d].at = append'[b].at => d = b
    BY <1>0, <1>3, <1>5, <2>1, <2>2, <2>3 DEF SecondsTellApart
  <2>5. \A e \in Seen' : e.at <= now'
    BY <1>0, <1>3, <1>5, <2>1 DEF SecondsTellApart, MemoryInv, AppendsOK
  <2>6. second = "quiet" => /\ \A e \in Seen' : e.at < now'
                            /\ \A d \in Call : Saving(d)' => append'[d].at < now'
    BY <1>0, <1>3, <1>5, <2>1, <2>2 DEF SecondsTellApart
  <2>7. QED
    BY <1>0, <2>4, <2>5, <2>6 DEF SecondsTellApart
<1>9. ASSUME second # "shared"
      PROVE  PrunesOldOnes'
  <2>1. PrunesOldOnes
    BY <1>9 DEF MemoryInv
  <2> SUFFICES ASSUME NEW d \in Call, NEW z, z = append'[d].section
               PROVE  /\ \A e \in append'[d].overflow : Covered(z, e.at)'
                      /\ \A e \in Doomed(d)' : e \in SectionEntries(z)' /\ Covered(z, e.at)'
    BY DEF PrunesOldOnes
  <2>2. CASE d = c
    BY <1>4, <2>2, NoAppendTyped DEF Doomed
  <2>3. CASE d # c
    <3>1. append'[d] = append[d] /\ append[d].section = z /\ z \in Section
      BY <1>1, <1>4, <2>3 DEF AppendType
    <3>2. \A e \in entries \cup append[d].overflow : e.at \in Nat
      BY MemoryAssumption DEF MemoryInv, EntriesOK, Seen, Entry
    <3>3. ASSUME NEW e \in Doomed(d)'
          PROVE  e \in Doomed(d) /\ e \in entries'
      <4>1. e \in entries' /\ e.id \in ToSet(append[d].drops)
        BY <3>1 DEF Doomed
      <4>2. \A i \in DOMAIN append[d].drops : append[d].drops[i] \in Nat
                                              /\ append[d].drops[i] <= edits
        <5>1. append[d].drops \in Seq(1..MaxSaves)
          BY <1>1 DEF AppendType
        <5>2. \A i \in DOMAIN append[d].drops : append[d].drops[i] <= edits
          BY DEF MemoryInv, AppendsOK
        <5>3. QED
          BY <5>1, <5>2, MemoryAssumption
      <4>3. e.id \in Nat /\ e.id <= edits
        BY <4>1, <4>2 DEF ToSet
      <4>4. e # new
        BY <1>0, <1>1, <1>3, <4>3
      <4>5. QED
        BY <1>0, <4>1, <4>4 DEF Doomed
    <3>4. \A e \in Doomed(d)' : e \in SectionEntries(z)'
      <4>1. \A e \in Doomed(d)' : e \in entries' /\ headings[e.under] = z
        BY <2>1, <3>1, <3>3 DEF PrunesOldOnes, SectionEntries
      <4>2. \A e \in Doomed(d)' : e.under \in DOMAIN headings
        BY <3>3 DEF MemoryInv, EntriesOK, Seen, Doomed
      <4>3. QED
        BY <1>2, <4>1, <4>2 DEF SectionEntries
    <3>5. \A at \in Nat : Covered(z, at) => Covered(z, at)'
      BY <1>6, <1>9, <3>1, EditKeepsCover
    <3>6. \A e \in append'[d].overflow : Covered(z, e.at)'
      BY <2>1, <3>1, <3>2, <3>5 DEF PrunesOldOnes
    <3>7. \A e \in Doomed(d)' : Covered(z, e.at)'
      <4>1. \A e \in Doomed(d)' : e.at \in Nat /\ Covered(z, e.at)
        BY <2>1, <3>1, <3>2, <3>3 DEF PrunesOldOnes, Doomed
      <4>2. QED
        BY <4>1, <3>5
    <3>8. QED
      BY <3>4, <3>6, <3>7
  <2>4. QED
    BY <2>2, <2>3
<1>10. second' \in {"quiet", "used", "shared"}
  BY <1>0 DEF MemoryInv
<1>11. QED
  BY <1>0, <1>6, <1>7, <1>8, <1>9, <1>10 DEF MemoryInv


LEMMA MemoryInitInv == CanvasInit => MemoryInv
<1> SUFFICES ASSUME CanvasInit
             PROVE  MemoryInv
  OBVIOUS
<1>0. /\ headings = <<>> /\ entries = {} /\ edits = 0 /\ now = 0 /\ second = "quiet"
      /\ append = [c \in Call |-> NoAppend]
  BY DEF CanvasInit
<1>1. \A c \in Call : append[c] = NoAppend
  BY <1>0
<1>2. Seen = {}
  BY <1>0, <1>1, NoAppendTyped DEF Seen
<1>3. EntriesOK
  BY <1>0, <1>2, MemoryAssumption DEF EntriesOK
<1>4. AppendsOK
  BY <1>0, <1>1, NoAppendTyped DEF AppendsOK
<1>5. SecondsTellApart
  BY <1>1, <1>2, NoAppendTyped DEF SecondsTellApart, Saving
<1>6. PrunesOldOnes
  BY <1>0, <1>1, NoAppendTyped DEF PrunesOldOnes, Doomed
<1>7. QED
  BY <1>0, <1>3, <1>4, <1>5, <1>6 DEF MemoryInv

LEMMA MemoryNextInv ==
    ASSUME MemoryInv, [MemoryNext]_canvasVars
    PROVE  MemoryInv'
<1>1. ASSUME NEW c \in Call, AppendStep(c)
      PROVE  MemoryInv'
  BY <1>1, FetchKeepsInv, SectionKeepsInv, OverflowKeepsInv, EditKeepsInv, GivingUpKeepsInv
     DEF AppendStep
<1>2. ASSUME NEW c \in Call, NEW s \in Section, BeginAppend(c, s)
      PROVE  MemoryInv'
  BY <1>2, BeginKeepsInv
<1>3. CASE SecondPasses
  BY <1>3, SecondKeepsInv
<1>4. CASE DropAppends
  BY <1>4, GivingUpKeepsInv
<1>5. CASE UNCHANGED canvasVars
  <2>1. /\ UNCHANGED <<documentVars, now, second>> /\ append' = append
    BY <1>5 DEF canvasVars
  <2>2. append' \in [Call -> AppendType] /\ \A c \in Call : append'[c] \in {append[c], NoAppend}
    BY <2>1 DEF MemoryInv, AppendsOK
  <2>3. QED
    BY <2>1, <2>2, ReadingKeepsInv
<1>6. QED
  BY <1>1, <1>2, <1>3, <1>4, <1>5 DEF MemoryNext

LEMMA MemoryTyped == MemoryInv => CanvasTypeOK
<1> SUFFICES ASSUME MemoryInv
             PROVE  CanvasTypeOK
  OBVIOUS
<1>1. /\ headings \in Seq(Section) /\ edits \in 0..MaxSaves /\ now \in 0..MaxNow
      /\ entries \subseteq Entry
      /\ \A e \in entries : e.under \in DOMAIN headings
      /\ \A e, f \in entries : e.id = f.id => e = f
  BY DEF MemoryInv, EntriesOK, Seen
<1>2. ASSUME NEW c \in Call
      PROVE  /\ append[c].at \in 0..now
             /\ append[c].overflow \subseteq Entry
             /\ append[c].drops \in Seq(1..MaxSaves)
             /\ append[c].target # 0 =>
                  /\ append[c].target \in DOMAIN headings
                  /\ headings[append[c].target] = append[c].section
  <2>1. append[c] \in AppendType /\ append[c].at <= now
    BY DEF MemoryInv, AppendsOK
  <2>2. append[c].at \in 0..now
    BY <1>1, <2>1, MemoryAssumption DEF AppendType
  <2>3. QED
    BY <2>1, <2>2 DEF AppendType, MemoryInv, AppendsOK
<1>3. QED
  BY <1>1, <1>2 DEF CanvasTypeOK

LEMMA MemoryPrunes ==
    ASSUME MemoryInv, [MemoryNext]_canvasVars, second # "shared",
           NEW c \in Call, Edits(c), NEW gone \in Pruned,
           NEW s, s = append[c].section
    PROVE  /\ gone \in SectionEntries(s)
           /\ Cardinality({e \in SectionEntries(s)' : e.id # edits' /\ e.at >= gone.at})
                >= Cap - 1
<1>1. ApplyEdit(c)
  <2>1. edits' # edits
    BY DEF Edits, MemoryInv, EntriesOK
  <2>2. PICK d \in Call : ApplyEdit(d)
    BY <2>1, Zenon DEF MemoryNext, AppendStep, FetchCanvas, LookupSection, LookupOverflow, EditLocked,
       AppendFails, BeginAppend, SecondPasses, DropAppends, documentVars, canvasVars
  <2>3. CASE d = c
    BY <2>2, <2>3
  <2>4. CASE d # c
    <3>1. append'[c] = append[c]
      BY <2>2, <2>4 DEF ApplyEdit, MemoryInv, AppendsOK
    <3>2. QED
      BY <3>1, NoAppendTyped DEF Edits, ReadyToEdit
  <2>5. QED
    BY <2>3, <2>4
<1>2. MemoryInv' /\ EntriesOK'
  BY MemoryNextInv DEF MemoryInv
<1>3. Pruned \subseteq Doomed(c)
  BY <1>1 DEF Pruned, Doomed, ApplyEdit
<1>4. \A e \in Doomed(c) : e \in SectionEntries(s) /\ Covered(s, e.at)
  BY DEF MemoryInv, PrunesOldOnes
<1>5. Doomed(c) \in SUBSET entries /\ entries \subseteq Entry
  BY DEF Doomed, MemoryInv, EntriesOK, Seen
<1>6. PICK k \in Doomed(c) : \A d \in Doomed(c) : d.at <= k.at
  BY <1>3, <1>5, LatestExists
<1>7. gone.at \in Nat /\ k.at \in Nat /\ gone.at <= k.at
  BY <1>3, <1>5, <1>6, MemoryAssumption DEF Entry
<1> DEFINE kept == {e \in SectionEntries(s)' : e.id # edits' /\ e.at >= gone.at}
<1>8. Kept(s, k.at) \subseteq kept
  <2> SUFFICES ASSUME NEW e \in Kept(s, k.at)
               PROVE  e \in kept
    OBVIOUS
  <2>1. e \in entries /\ headings[e.under] = s /\ e.at > k.at /\ e.at \in Nat
    BY <1>5, MemoryAssumption DEF Kept, SectionEntries, Entry
  <2>2. e \notin Doomed(c)
    BY <1>6, <1>7, <2>1
  <2>3. e \in entries' /\ headings'[e.under] = headings[e.under]
    BY <1>1, <2>1, <2>2 DEF ApplyEdit, Doomed, MemoryInv, EntriesOK, AppendsOK, AppendType, Seen
  <2>4. e.id # edits'
    <3>1. e.id \in Nat /\ e.id <= edits /\ edits \in Nat /\ edits' = edits + 1
      BY <1>5, <2>1, MemoryAssumption DEF MemoryInv, EntriesOK, Seen, Entry, Edits
    <3>2. QED
      BY <3>1
  <2>5. QED
    BY <1>7, <2>1, <2>3, <2>4 DEF SectionEntries
<1>9. /\ kept \in SUBSET Entry
      /\ \A e, f \in kept : e.id = f.id => e = f
  BY <1>2 DEF SectionEntries, EntriesOK, Seen
<1>10. Cardinality(kept) >= Cap - 1
  <2>1. Cardinality(Kept(s, k.at)) >= Cap - 1
    BY <1>4, <1>6 DEF Covered
  <2> HIDE DEF kept
  <2>2. QED
    BY <1>8, <1>9, <2>1, MoreCovers
<1>11. QED
  BY <1>3, <1>4, <1>10

LEMMA MemoryInvIsKept == MemorySpec => []MemoryInv
<1>1. CanvasInit => MemoryInv
  BY MemoryInitInv
<1>2. MemoryInv /\ [MemoryNext]_canvasVars => MemoryInv'
  BY MemoryNextInv
<1>3. QED
  BY <1>1, <1>2, PTL DEF MemorySpec

(* Whoever writes to the Canvas, as long as no two memories were saved in one  *)
(* second, a save deletes nothing of another section, and nothing that is not  *)
(* older than the Cap - 1 memories that stay besides its own                   *)
(* (slack_canvas_memory_adapter.rs:470).                                     *)
THEOREM WritersPruneOldest == MemorySpec => PrunesOldest
<1>1. ASSUME MemoryInv, [MemoryNext]_canvasVars, second # "shared"
      PROVE  \A c \in Call : Edits(c) =>
               \A s \in {append[c].section} : \A gone \in Pruned :
                 /\ gone \in SectionEntries(s)
                 /\ Cardinality({e \in SectionEntries(s)' : e.id # edits' /\ e.at >= gone.at})
                      >= Cap - 1
  BY <1>1, MemoryPrunes
<1>2. MemoryInv /\ [MemoryNext]_canvasVars =>
        [second # "shared" =>
          \A c \in Call : Edits(c) =>
            \A s \in {append[c].section} : \A gone \in Pruned :
              /\ gone \in SectionEntries(s)
              /\ Cardinality({e \in SectionEntries(s)' : e.id # edits' /\ e.at >= gone.at})
                   >= Cap - 1]_canvasVars
  BY <1>1
<1>3. QED
  BY <1>2, MemoryInvIsKept, PTL DEF MemorySpec, PrunesOldest

(* An agent that ends drops the saves of its calls, all of them or none.        *)
LEMMA EndIsAMemoryStep ==
    ASSUME NEW a \in Agent, NEW how, Ended(a, how)
    PROVE  [MemoryNext]_canvasVars
<1>1. CASE a = lead
  <2>1. append' = [c \in Call |-> IF c \in Call THEN NoAppend ELSE append[c]]
    BY <1>1 DEF Ended
  <2>2. DropAppends
    BY <2>1 DEF DropAppends, Ended
  <2>3. QED
    BY <2>2 DEF MemoryNext
<1>2. CASE a # lead
  BY <1>2 DEF Ended, canvasVars, documentVars
<1>3. QED
  BY <1>1, <1>2

LEMMA NextIsAMemoryStep == [Next]_vars => [MemoryNext]_canvasVars
<1> SUFFICES ASSUME [Next]_vars
             PROVE  [MemoryNext]_canvasVars
  OBVIOUS
<1>1. CASE UNCHANGED vars \/ PrepareConnectors \/ TaskReturns \/ CycleReturns \/ Cancel
  BY <1>1 DEF vars, PrepareConnectors, TaskReturns, CycleReturns, Cancel
<1>2. CASE Dropped
  BY <1>2, EndIsAMemoryStep DEF Dropped, Agent
<1>3. ASSUME NEW a \in Agent, AgentStep(a)
      PROVE  [MemoryNext]_canvasVars
  <2>1. UNCHANGED canvasVars \/ \E how : Ended(a, how)
    BY <1>3, Zenon DEF AgentStep, HandleCompletionCall, HandleCompletionResponse, CompletionFails,
       NextTurn, HandleToolCall, Search, HandleToolResult
  <2>2. QED
    BY <2>1, EndIsAMemoryStep
<1>4. ASSUME NEW c \in Call, LeadCall(c)
      PROVE  [MemoryNext]_canvasVars
  <2>1. UNCHANGED canvasVars \/ \E s \in Section : BeginAppend(c, s)
    BY <1>4, Zenon DEF LeadCall, SubmitReport, SpawnAgent, SubAgentReturns, SaveMemory, MemorySaved
  <2>2. QED
    BY <2>1 DEF MemoryNext
<1>5. CASE LearnFact \/ MemoryStep
  BY <1>5 DEF LearnFact, MemoryStep, MemoryNext
<1>6. QED
  BY <1>1, <1>2, <1>3, <1>4, <1>5 DEF Next

(* A run of the agent does to the Canvas what MemorySpec allows: it begins      *)
(* saves from its calls, and drops them with its lead (save_memory.rs:60,      *)
(* learn.rs:30).                                                          *)
THEOREM RunsAreWriters == Spec => MemorySpec
<1>1. Init => CanvasInit
  BY DEF Init
<1>2. QED
  BY <1>1, NextIsAMemoryStep, PTL DEF Spec, MemorySpec

(* So a run prunes what is oldest, too, however its calls and the facts of its  *)
(* cycle race for the Canvas.                                              *)
THEOREM RunsPruneOldest == Spec => PrunesOldest
BY RunsAreWriters, WritersPruneOldest, PTL

(* Types; what a sub-agent lives on: a call of the lead that waits for it and   *)
(* for no other (spawn_agent.rs:160); and the Canvas: every entry is below a    *)
(* heading and an edit under way inserts below the heading of its section.     *)
THEOREM AgentsAreTyped == Spec => []AgentTypeOK
<1>1. AgentInv => RunTypeOK /\ SubAgentsAreCalled
  BY AgentAssumption DEF AgentInv, Shape, SubAgentsAreCalled
<1>2. MemoryInv => CanvasTypeOK
  BY MemoryTyped
<1>3. QED
  BY <1>1, <1>2, InvIsKept, RunsAreWriters, MemoryInvIsKept, PTL DEF AgentTypeOK

=============================================================================
