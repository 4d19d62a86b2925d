-------------------------- MODULE InFlightRegistry --------------------------
(***************************************************************************)
(* The registry through which a Cancel click reaches the worker that runs  *)
(* the job: application/src/execution/in_flight_registry.rs.  Its two maps *)
(* share one mutex, so every operation is one atomic step.                 *)
(*                                                                         *)
(* A worker has at most one TaskCancellation at a time, the one it made    *)
(* for the job it is processing, so the token is named by its worker.      *)
(***************************************************************************)
EXTENDS Naturals

CONSTANTS
  Job,
  Worker,   \* the worker loops
  User,     \* who may request a cancellation
  None      \* the absent entry of a map

VARIABLES
  cancellation_requests,  \* job id -> who asked, while a record exists
  cancellations,          \* job id -> the worker whose token is attached
  cancelled               \* the flag of each worker's current TaskCancellation

registryVars == <<cancellation_requests, cancellations, cancelled>>

RegistryTypeOK ==
  /\ cancellation_requests \in [Job -> User \cup {None}]
  /\ cancellations \in [Job -> Worker \cup {None}]
  /\ cancelled \in [Worker -> BOOLEAN]

RegistryInit ==
  /\ cancellation_requests = [j \in Job |-> None]
  /\ cancellations = [j \in Job |-> None]
  /\ cancelled = [w \in Worker |-> FALSE]

CancelRequested(j) == cancellation_requests[j] # None

(* Mutants: the fresh token is not cancelled for a request that came first; the
   token of the previous job is used again. *)
AttachUncancelled(j, w) ==
  /\ cancellations' = [cancellations EXCEPT ![j] = w]
  /\ cancelled' = [cancelled EXCEPT ![w] = FALSE]
  /\ UNCHANGED cancellation_requests

AttachUsedToken(j, w) ==
  /\ cancellations' = [cancellations EXCEPT ![j] = w]
  /\ cancelled' = [cancelled EXCEPT ![w] = @ \/ CancelRequested(j)]
  /\ UNCHANGED cancellation_requests

(* attach_cancellation of the new token of w; it returns CancelRequested, and
   the token starts cancelled, exactly when CancelRequested(j). *)
AttachCancellation(j, w) ==
  /\ cancellations' = [cancellations EXCEPT ![j] = w]
  /\ cancelled' = [cancelled EXCEPT ![w] = CancelRequested(j)]
  /\ UNCHANGED cancellation_requests

(* Mutant: the token is cancelled, and nobody noted who asked. *)
RequestCancelUnrecorded(j, u) ==
  /\ cancelled' = [w \in Worker |-> cancelled[w] \/ cancellations[j] = w]
  /\ UNCHANGED <<cancellation_requests, cancellations>>

(* request_cancel: Accepted for the first request, which also cancels the
   attached token; AlreadyRequested for a later one, which changes nothing. *)
RequestCancel(j, u) ==
  \/ /\ CancelRequested(j)
     /\ UNCHANGED registryVars
  \/ /\ ~CancelRequested(j)
     /\ cancellation_requests' = [cancellation_requests EXCEPT ![j] = u]
     /\ cancelled' = [w \in Worker |-> cancelled[w] \/ cancellations[j] = w]
     /\ UNCHANGED cancellations

Remove(j) ==
  /\ cancellation_requests' = [cancellation_requests EXCEPT ![j] = None]
  /\ cancellations' = [cancellations EXCEPT ![j] = None]
  /\ UNCHANGED cancelled
=============================================================================
