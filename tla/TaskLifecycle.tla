--------------------------- MODULE TaskLifecycle ---------------------------
(***************************************************************************)
(* What task execution promises, whatever queue, registry and loops do to  *)
(* keep it: a task is queued once, runs at most Slots at a time and each   *)
(* at most once at a time, is retried at most MaxRetry times, and ends in  *)
(* one of three ways, for good.  TaskExecution implements it.              *)
(***************************************************************************)
EXTENDS Naturals, FiniteSets

CONSTANTS
  Job,
  MaxRetry,
  Slots      \* how many tasks may run at the same time

VARIABLES
  phase,     \* where each task is in its life
  retries    \* how often it was retried

lifecycleVars == <<phase, retries>>

Final == {"completed", "cancelled", "dead"}

Move(j, from, to) ==
  /\ phase[j] = from
  /\ phase' = [phase EXCEPT ![j] = to]

LifecycleInit ==
  /\ phase = [j \in Job |-> "absent"]
  /\ retries = [j \in Job |-> 0]

Submit(j) == Move(j, "absent", "queued") /\ UNCHANGED retries

Start(j) ==
  /\ Cardinality({k \in Job : phase[k] = "running"}) < Slots
  /\ Move(j, "queued", "running")
  /\ UNCHANGED retries

Retry(j) ==
  /\ retries[j] < MaxRetry
  /\ Move(j, "running", "queued")
  /\ retries' = [retries EXCEPT ![j] = @ + 1]

Finish(j) ==
  /\ \E how \in Final : Move(j, "running", how)
  /\ UNCHANGED retries

Withdraw(j) == Move(j, "queued", "cancelled") /\ UNCHANGED retries

LifecycleNext ==
  \E j \in Job : Submit(j) \/ Start(j) \/ Retry(j) \/ Finish(j) \/ Withdraw(j)

LifecycleSpec == LifecycleInit /\ [][LifecycleNext]_lifecycleVars
=============================================================================
