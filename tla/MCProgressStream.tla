-------------------------- MODULE MCProgressStream --------------------------
(***************************************************************************)
(* ProgressStream for TLC: a lead and one sub-agent, which runs in the     *)
(* first tool call of the lead.                                            *)
(***************************************************************************)
EXTENDS ProgressStream

CONSTANTS lead, sub, t1

MCOwner == {lead, sub}
MCSpawnCall == [a \in {sub} |-> t1]
=============================================================================
