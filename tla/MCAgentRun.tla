----------------------------- MODULE MCAgentRun -----------------------------
(* Instances of AgentRun for TLC. *)
EXTENDS AgentRun

CONSTANTS channel

MCSection == {channel, Shared}

Symmetry == Permutations(Call) \cup Permutations(Sub)

=============================================================================
