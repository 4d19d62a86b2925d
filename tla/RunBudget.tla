------------------------------ MODULE RunBudget ------------------------------
(***************************************************************************)
(* The budget of one agent run (core/src/cycle_agent/budget.rs): three      *)
(* atomic counters that the lead agent and its sub-agents share.  Each     *)
(* operation is one step: what on_tool_call reads before it counts may be   *)
(* outdated by the time it counts, but then it might as well have come      *)
(* first.                                                                   *)
(***************************************************************************)
EXTENDS Naturals

CONSTANTS MaxToolCalls,     \* limits of a cycle's run
          MaxTokens,
          MaxSubAgents

ASSUME LimitsAssumption == {MaxToolCalls, MaxTokens, MaxSubAgents} \subseteq Nat

VARIABLES limits,           \* the limits of this run
          toolCalls,        \* calls asked for, the denied ones included
          subAgents,        \* sub-agents asked for, the denied ones included
          tokens            \* tokens the model's answers took

budgetVars == <<limits, toolCalls, subAgents, tokens>>

RunLimits == [toolCalls |-> MaxToolCalls, tokens |-> MaxTokens, subAgents |-> MaxSubAgents]

(* u32::MAX and u64::MAX, which no run comes near. *)
NoLimit == 10000

(* Mutant: a task gets the limits of a cycle. *)
UnlimitedAsACycle == RunLimits

Unlimited == [toolCalls |-> NoLimit, tokens |-> NoLimit, subAgents |-> NoLimit]

BudgetInit == /\ limits \in {RunLimits, Unlimited}
              /\ toolCalls = 0
              /\ subAgents = 0
              /\ tokens = 0

TokensExhausted == tokens >= limits.tokens

(* Completions go on beyond the token budget, so that the report can still *)
(* be submitted, up to twice the budget.                                    *)
HardLimitReached == tokens >= 2 * limits.tokens

(* Counting stops one past the limit: no comparison tells the values beyond it apart. *)
CountUpTo(n, limit) == IF n > limit THEN n ELSE n + 1

(* Mutant: fetch_add returns the count before the call, and the call at     *)
(* hand is not added to it.                                                 *)
OnToolCallLate(tool, allowed) ==
    /\ toolCalls' = CountUpTo(toolCalls, limits.toolCalls)
    /\ allowed = (tool = "submit_cycle_report" \/ toolCalls <= limits.toolCalls)

(* on_tool_call: the report may always be submitted and is not counted;     *)
(* other calls are counted whether they are then allowed or not, except     *)
(* when the tokens have run out.                                            *)
OnToolCall(tool, allowed) ==
    \/ /\ tool = "submit_cycle_report"
       /\ allowed = TRUE
       /\ UNCHANGED toolCalls
    \/ /\ tool # "submit_cycle_report"
       /\ TokensExhausted
       /\ allowed = FALSE
       /\ UNCHANGED toolCalls
    \/ /\ tool # "submit_cycle_report"
       /\ ~TokensExhausted
       /\ toolCalls' = CountUpTo(toolCalls, limits.toolCalls)
       /\ allowed = (toolCalls' <= limits.toolCalls)

OnSpawnSubAgent(allowed) ==
    /\ subAgents' = CountUpTo(subAgents, limits.subAgents)
    /\ allowed = (subAgents' <= limits.subAgents)

RecordTokens(n) == tokens' = tokens + n

=============================================================================
