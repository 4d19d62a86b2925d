------------------------------ MODULE AgentRun ------------------------------
(***************************************************************************)
(* One run of the agent (adapters/outbound/agents/): a lead, which may      *)
(* spawn sub-agents from its tool calls, under the execution hook that asks *)
(* the cancellation token and the budget before and after everything the    *)
(* agents do.  The run is that of a task (runner/task_runner.rs), or that   *)
(* of an objective's cycle (runner/cycle_agent.rs), which is limited by a    *)
(* budget and hands in a report, and after which the facts of the report   *)
(* are saved (application/objective/cycle/learn.rs).                        *)
(*                                                                         *)
(* The model and the loop that drives it (the library rig) are external:    *)
(* an answer is a text or any batch of tool calls, which run concurrently;  *)
(* a hook that says stop ends its agent at once and drops what it runs.     *)
(***************************************************************************)
EXTENDS RunBudget, CanvasMemory

CONSTANTS Sub,          \* sub-agents that run at the same time
          Report,       \* contents a cycle's report may have
          None,
          AnswerTokens, \* tokens that an answer of the model takes, unless it tells none
          MaxTurns,     \* model requests of an agent
          MaxFacts,     \* facts a cycle saves at most
          MaxTaskSpawns \* bound: sub-agents that a task, which has no budget, spawns

lead == "lead"
Agent == Sub \cup {lead}

Outcomes == {"cancelled", "failed", "succeeded", "completed", "dropped"}

(* The last conjunct: no task comes near the limits that stand for none.    *)
ASSUME AgentAssumption ==
    /\ lead \notin Sub
    /\ None \notin Report \cup Sub \cup Outcomes
    /\ IsFiniteSet(Sub) /\ Sub # {}
    /\ AnswerTokens \in Nat \ {0}
    /\ {MaxTurns, MaxTaskSpawns} \subseteq Nat
    /\ AnswerTokens * (MaxTurns * (MaxTaskSpawns + 1)) < 2 * NoLimit

VARIABLES mode,         \* "task" or "objective"
          phase,        \* phase[a]: what agent a is at
          turn,         \* turn[a]: its model requests so far
          tool,         \* tool[a][c]: the tool of call c of its current batch
          call,         \* call[a][c]: what call c is at
          child,        \* child[c]: the sub-agent the lead's call c has spawned
          cancelled,    \* the token
          reportSlot,   \* the last report accepted and not taken
          outcome,      \* how the run ended
          returned,     \* the report it returned
          facts,        \* facts of that report still to be saved
          openCalls,    \* auxiliary: tool calls shown as started and not as completed
          allowedCalls, \* auxiliary: tool calls the budget let through
          spawned,      \* auxiliary: sub-agents that were started
          accepted      \* auxiliary: the last report that was accepted

runVars == <<phase, turn, tool, call, child>>
endVars == <<reportSlot, outcome, returned, facts>>
auxVars == <<openCalls, allowedCalls, spawned, accepted>>
vars == <<mode, runVars, cancelled, endVars, auxVars, budgetVars, canvasVars>>

Tools(a) == {"search"} \cup
            (IF a # lead THEN {}
             ELSE {"spawn_agent"} \cup
                  (IF mode = "task" THEN {"save_memory"} ELSE {"submit_cycle_report"}))

NoCalls == [c \in Call |-> "none"]

Init == /\ BudgetInit
        /\ CanvasInit
        /\ mode = IF limits = Unlimited THEN "task" ELSE "objective"
        /\ phase = [a \in Agent |-> IF a = lead THEN "preparing" ELSE "absent"]
        /\ turn = [a \in Agent |-> 0]
        /\ tool = [a \in Agent |-> NoCalls]
        /\ call = [a \in Agent |-> NoCalls]
        /\ child = [c \in Call |-> None]
        /\ cancelled = FALSE
        /\ reportSlot = None
        /\ outcome = None
        /\ returned = None
        /\ facts = 0
        /\ openCalls = {}
        /\ allowedCalls = 0
        /\ spawned = 0
        /\ accepted = None

-----------------------------------------------------------------------------
(* The ends of an agent and of the run                                      *)

Working(a) == phase[a] \in {"completion_call", "completing", "tools"}

(* Mutant: the sub-agents run as tasks of their own and survive their lead. *)
EndedAlone(a, how) ==
    /\ phase' = [phase EXCEPT ![a] = how]
    /\ call' = [call EXCEPT ![a] = NoCalls]
    /\ tool' = [tool EXCEPT ![a] = NoCalls]
    /\ turn' = [turn EXCEPT ![a] = 0]
    /\ child' = IF a = lead THEN [c \in Call |-> None] ELSE child
    /\ append' = IF a = lead THEN [c \in Call |-> NoAppend] ELSE append
    /\ UNCHANGED <<documentVars, now, second>>

(* An agent that ends drops the calls it is in the middle of, and with them *)
(* the sub-agents they wait for and the memories they save.                 *)
Ended(a, how) ==
    /\ phase' = [b \in Agent |-> CASE b = a -> how
                                   [] b # a /\ a = lead -> "absent"
                                   [] OTHER -> phase[b]]
    /\ call' = [b \in Agent |-> IF a \in {b, lead} THEN NoCalls ELSE call[b]]
    /\ tool' = [b \in Agent |-> IF a \in {b, lead} THEN NoCalls ELSE tool[b]]
    /\ turn' = [b \in Agent |-> IF a \in {b, lead} THEN 0 ELSE turn[b]]
    /\ child' = IF a = lead THEN [c \in Call |-> None] ELSE child
    /\ append' = IF a = lead THEN [c \in Call |-> NoAppend] ELSE append
    /\ UNCHANGED <<documentVars, now, second>>

Returns(result, report) ==
    /\ outcome' = result
    /\ returned' = report
    /\ facts' = IF report = None THEN 0 ELSE MaxFacts
    /\ reportSlot' = IF result = "completed" THEN None ELSE reportSlot

(* run_task and run_cycle_agent up to the first prompt: connectors that     *)
(* cannot be prepared fail the run.                                         *)
PrepareConnectors ==
    /\ phase[lead] = "preparing"
    /\ outcome = None
    /\ \/ /\ cancelled
          /\ Returns("cancelled", None)
          /\ UNCHANGED phase
       \/ /\ ~cancelled
          /\ Returns("failed", None)
          /\ UNCHANGED phase
       \/ /\ ~cancelled
          /\ phase' = [phase EXCEPT ![lead] = "completion_call"]
          /\ UNCHANGED endVars
    /\ UNCHANGED <<mode, turn, tool, call, child, cancelled, auxVars, budgetVars, canvasVars>>

(* The prompt of a task's lead has returned.  A stop is taken for the       *)
(* cancellation: nothing else stops a run that has no limits.               *)
TaskReturns ==
    /\ mode = "task"
    /\ outcome = None
    /\ \/ /\ phase[lead] = "stopped"
          /\ Returns("cancelled", None)
       \/ /\ phase[lead] \in {"turns_used_up", "error"}
          /\ Returns("failed", None)
       \/ /\ phase[lead] = "answered"
          /\ cancelled
          /\ Returns("cancelled", None)
       \/ /\ phase[lead] = "answered"           \* MessageOutputCreated may not be taken
          /\ ~cancelled
          /\ \/ Returns("succeeded", None)
             \/ Returns("failed", None)
    /\ UNCHANGED <<mode, runVars, cancelled, auxVars, budgetVars, canvasVars>>

(* Mutant: an error of the model fails the run whatever was submitted.      *)
CycleReturnsAfterErrorBare(report) ==
    /\ phase[lead] = "error"
    /\ Returns("failed", None)

(* The model failed: a report that was submitted before counts.             *)
CycleReturnsAfterError(report) ==
    /\ phase[lead] = "error"
    /\ IF report # None THEN Returns("completed", report) ELSE Returns("failed", None)

CycleReturns ==
    /\ mode = "objective"
    /\ outcome = None
    /\ \/ CycleReturnsAfterError(reportSlot)
       \/ /\ phase[lead] \in {"stopped", "turns_used_up", "answered"}
          /\ IF cancelled THEN Returns("cancelled", None) ELSE Returns("completed", reportSlot)
    /\ UNCHANGED <<mode, runVars, cancelled, auxVars, budgetVars, canvasVars>>

(* The caller gives up the run: the worker on a cancellation, the cycle at  *)
(* the end of the grace period.                                             *)
Dropped ==
    /\ cancelled
    /\ outcome = None
    /\ Ended(lead, "dropped")
    /\ Returns("dropped", None)
    /\ UNCHANGED <<mode, cancelled, auxVars, budgetVars>>

Cancel ==
    /\ outcome = None
    /\ ~cancelled
    /\ cancelled' = TRUE
    /\ UNCHANGED <<mode, runVars, endVars, auxVars, budgetVars, canvasVars>>

-----------------------------------------------------------------------------
(* The hook around a model request                                          *)

(* Mutant: the hard stop compares with the budget one request too late.     *)
HandleCompletionCallLate(a) ==
    /\ phase[a] = "completion_call"
    /\ IF turn[a] = MaxTurns
       THEN Ended(a, "turns_used_up")
       ELSE IF cancelled \/ tokens > 2 * limits.tokens
       THEN Ended(a, "stopped")
       ELSE /\ phase' = [phase EXCEPT ![a] = "completing"]
            /\ turn' = [turn EXCEPT ![a] = @ + 1]
            /\ UNCHANGED <<tool, call, child, canvasVars>>
    /\ UNCHANGED <<mode, cancelled, endVars, auxVars, budgetVars>>

(* handle_completion_call, after rig has counted the turn.                  *)
HandleCompletionCall(a) ==
    /\ phase[a] = "completion_call"
    /\ IF turn[a] = MaxTurns
       THEN Ended(a, "turns_used_up")
       ELSE IF cancelled \/ HardLimitReached
       THEN Ended(a, "stopped")
       ELSE /\ phase' = [phase EXCEPT ![a] = "completing"]
            /\ turn' = [turn EXCEPT ![a] = @ + 1]
            /\ UNCHANGED <<tool, call, child, canvasVars>>
    /\ UNCHANGED <<mode, cancelled, endVars, auxVars, budgetVars>>

CompletionFails(a) ==
    /\ phase[a] = "completing"
    /\ Ended(a, "error")
    /\ UNCHANGED <<mode, cancelled, endVars, auxVars, budgetVars>>

(* The model answers with a text, or with tool calls.  Its native web        *)
(* searches are over by now: they are shown as started and completed at     *)
(* once.                                                                    *)
HandleCompletionResponse(a) ==
    /\ phase[a] = "completing"
    /\ \E used \in {0, AnswerTokens} : RecordTokens(used)
    /\ \/ /\ cancelled
          /\ Ended(a, "stopped")
       \/ /\ ~cancelled
          /\ Ended(a, "answered")
       \/ /\ ~cancelled
          /\ \E asked \in [Call -> Tools(a) \cup {"none"}] \ {NoCalls} :
                /\ tool' = [tool EXCEPT ![a] = asked]
                /\ call' = [call EXCEPT ![a] =
                               [c \in Call |-> IF asked[c] = "none" THEN "none" ELSE "asked"]]
          /\ phase' = [phase EXCEPT ![a] = "tools"]
          /\ UNCHANGED <<turn, child, canvasVars>>
    /\ UNCHANGED <<mode, cancelled, endVars, auxVars, limits, toolCalls, subAgents>>

(* All calls of the batch have their results: the next request.             *)
NextTurn(a) ==
    /\ phase[a] = "tools"
    /\ \A c \in Call : call[a][c] \in {"none", "done"}
    /\ phase' = [phase EXCEPT ![a] = "completion_call"]
    /\ call' = [call EXCEPT ![a] = NoCalls]
    /\ tool' = [tool EXCEPT ![a] = NoCalls]
    /\ UNCHANGED <<mode, turn, child, cancelled, endVars, auxVars, budgetVars, canvasVars>>

-----------------------------------------------------------------------------
(* The hook around a tool call, and the tools                               *)

At(a, c, where) == phase[a] = "tools" /\ call[a][c] = where

(* A call that may not be made gets the reason for its result; one that may  *)
(* is shown as started.                                                     *)
HandleToolCall(a, c) ==
    /\ At(a, c, "asked")
    /\ \/ /\ cancelled
          /\ Ended(a, "stopped")
          /\ UNCHANGED <<auxVars, toolCalls>>
       \/ /\ ~cancelled
          /\ \E allowed \in BOOLEAN :
                /\ OnToolCall(tool[a][c], allowed)
                /\ call' = [call EXCEPT ![a][c] = IF allowed THEN "running" ELSE "done"]
                /\ openCalls' = IF allowed THEN openCalls \cup {<<a, c>>} ELSE openCalls
                /\ allowedCalls' = IF allowed /\ tool[a][c] # "submit_cycle_report"
                                   THEN allowedCalls + 1 ELSE allowedCalls
          /\ UNCHANGED <<phase, turn, tool, child, spawned, accepted, canvasVars>>
    /\ UNCHANGED <<mode, cancelled, endVars, limits, subAgents, tokens>>

ToolReturns(a, c) == call' = [call EXCEPT ![a][c] = "returned"]

(* A tool that only reads: a search, a connector, a progress report.        *)
Search(a, c) ==
    /\ At(a, c, "running")
    /\ tool[a][c] = "search"
    /\ ToolReturns(a, c)
    /\ UNCHANGED <<mode, phase, turn, tool, child, cancelled, endVars, auxVars, budgetVars, canvasVars>>

(* submit_cycle_report: a report that does not hold together is refused with *)
(* the reasons; one that does replaces what was submitted before.           *)
SubmitReport(c) ==
    /\ At(lead, c, "running")
    /\ tool[lead][c] = "submit_cycle_report"
    /\ ToolReturns(lead, c)
    /\ \/ UNCHANGED <<reportSlot, accepted>>
       \/ \E report \in Report : /\ reportSlot' = report
                                 /\ accepted' = report
    /\ UNCHANGED <<mode, phase, turn, tool, child, cancelled, outcome, returned, facts,
                   openCalls, allowedCalls, spawned, budgetVars, canvasVars>>

(* spawn_agent: a specification that is not valid is refused before the      *)
(* budget is asked.                                                         *)
SpawnAgent(c) ==
    /\ At(lead, c, "running")
    /\ tool[lead][c] = "spawn_agent"
    /\ \/ /\ ToolReturns(lead, c)
          /\ UNCHANGED <<phase, child, subAgents, spawned>>
       \/ \E allowed \in BOOLEAN :
             /\ mode = "task" => spawned < MaxTaskSpawns
             /\ OnSpawnSubAgent(allowed)
             /\ IF ~allowed
                THEN ToolReturns(lead, c) /\ UNCHANGED <<phase, child>>
                ELSE \E sub \in Sub :
                     /\ phase[sub] = "absent"
                     /\ phase' = [phase EXCEPT ![sub] = "completion_call"]
                     /\ child' = [child EXCEPT ![c] = sub]
                     /\ call' = [call EXCEPT ![lead][c] = "waiting"]
             /\ spawned' = IF allowed THEN spawned + 1 ELSE spawned
    /\ UNCHANGED <<mode, turn, tool, cancelled, endVars, openCalls, allowedCalls, accepted,
                   limits, toolCalls, tokens, canvasVars>>

(* The sub-agent's answer, or its error, is the result of the call.         *)
SubAgentReturns(c) ==
    /\ At(lead, c, "waiting")
    /\ child[c] # None
    /\ ~Working(child[c])
    /\ phase' = [phase EXCEPT ![child[c]] = "absent"]
    /\ child' = [child EXCEPT ![c] = None]
    /\ ToolReturns(lead, c)
    /\ UNCHANGED <<mode, turn, tool, cancelled, endVars, auxVars, budgetVars, canvasVars>>

(* save_memory and save_shared_memory of a task's lead.                     *)
SaveMemory(c) ==
    /\ At(lead, c, "running")
    /\ tool[lead][c] = "save_memory"
    /\ \E s \in Section : BeginAppend(c, s)
    /\ call' = [call EXCEPT ![lead][c] = "waiting"]
    /\ UNCHANGED <<mode, phase, turn, tool, child, cancelled, endVars, auxVars, budgetVars>>

(* A memory that could not be saved is reported to the model as such.       *)
MemorySaved(c) ==
    /\ At(lead, c, "waiting")
    /\ tool[lead][c] = "save_memory"
    /\ ~Saving(c)
    /\ ToolReturns(lead, c)
    /\ UNCHANGED <<mode, phase, turn, tool, child, cancelled, endVars, auxVars, budgetVars, canvasVars>>

(* Mutant: the result of a sub-agent is shown by the sub-agent alone.       *)
HandleToolResultOfOthers(a, c) ==
    /\ At(a, c, "returned")
    /\ openCalls' = IF tool[a][c] = "spawn_agent" THEN openCalls ELSE openCalls \ {<<a, c>>}
    /\ IF cancelled
       THEN Ended(a, "stopped")
       ELSE /\ call' = [call EXCEPT ![a][c] = "done"]
            /\ UNCHANGED <<phase, turn, tool, child, canvasVars>>
    /\ UNCHANGED <<mode, cancelled, endVars, allowedCalls, spawned, accepted, budgetVars>>

(* handle_tool_result: shown as completed in any case.                      *)
HandleToolResult(a, c) ==
    /\ At(a, c, "returned")
    /\ openCalls' = openCalls \ {<<a, c>>}
    /\ IF cancelled
       THEN Ended(a, "stopped")
       ELSE /\ call' = [call EXCEPT ![a][c] = "done"]
            /\ UNCHANGED <<phase, turn, tool, child, canvasVars>>
    /\ UNCHANGED <<mode, cancelled, endVars, allowedCalls, spawned, accepted, budgetVars>>

-----------------------------------------------------------------------------
(* The facts of a cycle's report are saved one after the other, those that   *)
(* are known already passed over.                                           *)
LearnFact ==
    /\ facts > 0
    /\ \A c \in Call : ~Saving(c)
    /\ facts' = facts - 1
    /\ \/ \E c \in Call, s \in Section : BeginAppend(c, s)
       \/ UNCHANGED canvasVars
    /\ UNCHANGED <<mode, runVars, cancelled, reportSlot, outcome, returned, auxVars, budgetVars>>

MemoryStep ==
    /\ SecondPasses \/ \E c \in Call : AppendStep(c)
    /\ UNCHANGED <<mode, runVars, cancelled, endVars, auxVars, budgetVars>>

AgentStep(a) ==
    \/ HandleCompletionCall(a)
    \/ HandleCompletionResponse(a)
    \/ CompletionFails(a)
    \/ NextTurn(a)
    \/ \E c \in Call : HandleToolCall(a, c) \/ Search(a, c) \/ HandleToolResult(a, c)

LeadCall(c) == \/ SubmitReport(c)
               \/ SpawnAgent(c)
               \/ SubAgentReturns(c)
               \/ SaveMemory(c)
               \/ MemorySaved(c)

Next == \/ PrepareConnectors
        \/ TaskReturns
        \/ CycleReturns
        \/ Dropped
        \/ Cancel
        \/ \E a \in Agent : AgentStep(a)
        \/ \E c \in Call : LeadCall(c)
        \/ LearnFact
        \/ MemoryStep

Spec == Init /\ [][Next]_vars

-----------------------------------------------------------------------------
Phases == {"absent", "preparing", "completion_call", "completing", "tools",
           "stopped", "turns_used_up", "error", "answered", "dropped"}
CallStates == {"none", "asked", "running", "waiting", "returned", "done"}
ToolNames == {"none", "search", "spawn_agent", "save_memory", "submit_cycle_report"}

RunTypeOK ==
    /\ mode \in {"task", "objective"}
    /\ phase \in [Agent -> Phases]
    /\ turn \in [Agent -> 0..MaxTurns]
    /\ tool \in [Agent -> [Call -> ToolNames]]
    /\ call \in [Agent -> [Call -> CallStates]]
    /\ child \in [Call -> Sub \cup {None}]
    /\ cancelled \in BOOLEAN
    /\ outcome \in Outcomes \cup {None}
    /\ {reportSlot, returned, accepted} \subseteq Report \cup {None}
    /\ openCalls \subseteq Agent \X Call
    /\ {toolCalls, subAgents, tokens, allowedCalls, spawned} \subseteq Nat
    /\ limits \in {RunLimits, Unlimited}

(* A sub-agent lives just as long as a tool call of the lead waits for it.   *)
SubAgentsAreCalled ==
    \A s \in Sub : phase[s] # "absent" <=>
        \E c \in Call : /\ child[c] = s
                        /\ call[lead][c] = "waiting" /\ tool[lead][c] = "spawn_agent"

AgentTypeOK == RunTypeOK /\ SubAgentsAreCalled /\ CanvasTypeOK

(* However the lead's and the sub-agents' calls race for the counters, a    *)
(* run makes no more tool calls and starts no more sub-agents than its       *)
(* limits say (budget.rs:56, :77).                                          *)
AllowedWithinBudget == /\ allowedCalls <= limits.toolCalls
                       /\ spawned <= limits.subAgents

(* Completions are allowed beyond the token budget, up to its double: only  *)
(* the requests that are under way when the limit is reached, one for each  *)
(* agent, come on top (execution_hook.rs:161).                              *)
OverspendBounded == tokens < 2 * limits.tokens + Cardinality(Sub) * AnswerTokens

(* A report that was accepted is what a run returns that was not cancelled,  *)
(* also when the budget or the turns ran out or the model failed after it   *)
(* (cycle_agent.rs:70-92).                                                  *)
AcceptedReportIsReturned ==
    /\ outcome = "completed" => returned = accepted
    /\ outcome = "failed" => accepted = None

(* A run is reported as cancelled only when its cancellation was requested:  *)
(* a task's prompt that a hook has stopped is taken for that without a look  *)
(* at the token (task_runner.rs:120).                                       *)
CancelledOnlyOnRequest == outcome = "cancelled" => cancelled

(* When a run returns a result, every tool call that was shown as started    *)
(* has been shown as completed, those of sub-agents that failed included.    *)
StartedCallsAreCompleted == outcome \in {"succeeded", "completed"} => openCalls = {}

=============================================================================
