------------------------------ MODULE JobQueue ------------------------------
(***************************************************************************)
(* The in-memory job queue: adapters/src/queue/in_memory_job_queue.rs      *)
(* behind the port of core/src/queue/job_queue.rs.                         *)
(*                                                                         *)
(* All four containers live under one mutex, so every operation of the     *)
(* port is one atomic step here.  A job is its id: the payload never       *)
(* changes, and retry_count, the only field that does, is kept per id.     *)
(*                                                                         *)
(* Time is abstracted to the one comparison the code makes with it:        *)
(* "ready" holds the delayed jobs whose available_at is not later than     *)
(* now, and BackoffElapses(j) is the clock passing j's available_at.       *)
(***************************************************************************)
EXTENDS Naturals, Sequences, FiniteSets, Functions

CONSTANTS
  Job,        \* the job ids (a fresh UUID per enqueued task)
  MaxRetry    \* job_max_retry of the runtime configuration

ASSUME QueueAssumption ==
  /\ IsFiniteSet(Job)
  /\ MaxRetry \in Nat

VARIABLES
  pending_jobs,      \* VecDeque: jobs to claim, oldest first
  delayed_jobs,      \* Vec: jobs waiting for their backoff, oldest failure first
  ready,             \* the delayed jobs whose available_at has passed
  claimed_jobs,      \* HashMap: jobs some worker has claimed
  dead_letter_jobs,  \* Vec that is only pushed to: its order is never read
  retry_count        \* the retry_count field of each job

queueVars == <<pending_jobs, delayed_jobs, ready, claimed_jobs,
               dead_letter_jobs, retry_count>>

QueueTypeOK ==
  /\ pending_jobs \in Seq(Job)
  /\ delayed_jobs \in Seq(Job)
  /\ ready \in SUBSET Job
  /\ claimed_jobs \in SUBSET Job
  /\ dead_letter_jobs \in SUBSET Job
  /\ retry_count \in [Job -> 0..MaxRetry]

QueueInit ==
  /\ pending_jobs = <<>>
  /\ delayed_jobs = <<>>
  /\ ready = {}
  /\ claimed_jobs = {}
  /\ dead_letter_jobs = {}
  /\ retry_count = [j \in Job |-> 0]

InQueue(j) == j \in Range(pending_jobs) \cup Range(delayed_jobs)

Known(j) == InQueue(j) \/ j \in claimed_jobs \cup dead_letter_jobs
-----------------------------------------------------------------------------
Precedes(s, x, y) ==
  \E a, b \in DOMAIN s : a < b /\ s[a] = x /\ s[b] = y

(***************************************************************************)
(* The sequence that keeps of s the elements of S, in the order they have  *)
(* in s, as the one-element set of it.  It is SelectSeq, characterised by  *)
(* what it returns, for an s without duplicates and S \subseteq Range(s).  *)
(***************************************************************************)
Keeping(s, S) ==
  {t \in [1..Cardinality(S) -> S] :
     /\ Range(t) = S
     /\ \A i, k \in DOMAIN t : i < k => Precedes(s, t[i], t[k])}

(***************************************************************************)
(* promote_ready_delayed_jobs: pending_jobs once every ready job is pushed *)
(* behind the pending ones, and delayed_jobs without them (each the one    *)
(* element of a set).  Run first by claim and by cancel, and by nothing    *)
(* else.                                                                   *)
(***************************************************************************)
(* Mutant: the ready jobs are drained, and pushed nowhere. *)
WithReadyDropped == {pending_jobs}

WithReady == {pending_jobs \o moved : moved \in Keeping(delayed_jobs, ready)}

StillDelayed == Keeping(delayed_jobs, Range(delayed_jobs) \ ready)
-----------------------------------------------------------------------------
Enqueue(j) ==
  /\ pending_jobs' = Append(pending_jobs, j)
  /\ retry_count' = [retry_count EXCEPT ![j] = 0]
  /\ UNCHANGED <<delayed_jobs, ready, claimed_jobs, dead_letter_jobs>>

(* Mutant: pop_back, the newest pending job first. *)
ClaimNewest(j) ==
  \E pending \in WithReady, delayed \in StillDelayed :
    /\ pending # <<>>
    /\ j = pending[Len(pending)]
    /\ pending_jobs' = SubSeq(pending, 1, Len(pending) - 1)
    /\ delayed_jobs' = delayed
    /\ ready' = {}
    /\ claimed_jobs' = claimed_jobs \cup {j}
    /\ UNCHANGED <<dead_letter_jobs, retry_count>>

(* Mutant: claim does not promote the ready jobs. *)
ClaimWithoutPromotion(j) ==
  /\ pending_jobs # <<>>
  /\ j = Head(pending_jobs)
  /\ pending_jobs' = Tail(pending_jobs)
  /\ claimed_jobs' = claimed_jobs \cup {j}
  /\ UNCHANGED <<delayed_jobs, ready, dead_letter_jobs, retry_count>>

(* claim returning Some(j).  claim returning None changes nothing: with no
   pending job after the promotion, no delayed job was ready. *)
Claim(j) ==
  \E pending \in WithReady, delayed \in StillDelayed :
    /\ pending # <<>>
    /\ j = Head(pending)
    /\ pending_jobs' = Tail(pending)
    /\ delayed_jobs' = delayed
    /\ ready' = {}
    /\ claimed_jobs' = claimed_jobs \cup {j}
    /\ UNCHANGED <<dead_letter_jobs, retry_count>>

NothingToClaim == pending_jobs = <<>> /\ ready = {}

(* cancel returning Cancelled(j), out of the pending or the delayed jobs. *)
CancelQueued(j) ==
  \E pending \in WithReady, delayed \in StillDelayed :
    /\ \/ /\ j \in Range(pending)
          /\ pending_jobs' \in Keeping(pending, Range(pending) \ {j})
          /\ delayed_jobs' = delayed
       \/ /\ j \notin Range(pending)
          /\ j \in Range(delayed)
          /\ pending_jobs' = pending
          /\ delayed_jobs' \in Keeping(delayed, Range(delayed) \ {j})
    /\ ready' = {}
    /\ UNCHANGED <<claimed_jobs, dead_letter_jobs, retry_count>>

(* cancel returning AlreadyClaimed or NotFound: only the promotion happens. *)
CancelNotQueued(j) ==
  \E pending \in WithReady, delayed \in StillDelayed :
    /\ ~InQueue(j)
    /\ pending_jobs' = pending
    /\ delayed_jobs' = delayed
    /\ ready' = {}
    /\ UNCHANGED <<claimed_jobs, dead_letter_jobs, retry_count>>

CancelAlreadyClaimed(j) == j \in claimed_jobs /\ CancelNotQueued(j)

CancelNotFound(j) == j \notin claimed_jobs /\ CancelNotQueued(j)

Complete(j) ==
  /\ claimed_jobs' = claimed_jobs \ {j}
  /\ UNCHANGED <<pending_jobs, delayed_jobs, ready, dead_letter_jobs, retry_count>>

(* Mutants of fail: a retry too many; the claim is kept; no backoff; a retry
   that is not counted. *)
FailRequeuedOnceMore(j, max_retry) ==
  /\ j \in claimed_jobs
  /\ retry_count[j] <= max_retry
  /\ claimed_jobs' = claimed_jobs \ {j}
  /\ retry_count' = [retry_count EXCEPT ![j] = @ + 1]
  /\ delayed_jobs' = Append(delayed_jobs, j)
  /\ UNCHANGED <<pending_jobs, ready, dead_letter_jobs>>

FailRequeuedKeepsClaim(j, max_retry) ==
  /\ j \in claimed_jobs
  /\ retry_count[j] < max_retry
  /\ retry_count' = [retry_count EXCEPT ![j] = @ + 1]
  /\ delayed_jobs' = Append(delayed_jobs, j)
  /\ UNCHANGED <<pending_jobs, ready, claimed_jobs, dead_letter_jobs>>

FailRequeuedAtOnce(j, max_retry) ==
  /\ j \in claimed_jobs
  /\ retry_count[j] < max_retry
  /\ claimed_jobs' = claimed_jobs \ {j}
  /\ retry_count' = [retry_count EXCEPT ![j] = @ + 1]
  /\ pending_jobs' = Append(pending_jobs, j)
  /\ UNCHANGED <<delayed_jobs, ready, dead_letter_jobs>>

FailRequeuedUncounted(j, max_retry) ==
  /\ j \in claimed_jobs
  /\ retry_count[j] < max_retry
  /\ claimed_jobs' = claimed_jobs \ {j}
  /\ delayed_jobs' = Append(delayed_jobs, j)
  /\ UNCHANGED <<pending_jobs, ready, dead_letter_jobs, retry_count>>

(* fail returning Requeued: one more retry, after a backoff. *)
FailRequeued(j, max_retry) ==
  /\ j \in claimed_jobs
  /\ retry_count[j] < max_retry
  /\ claimed_jobs' = claimed_jobs \ {j}
  /\ retry_count' = [retry_count EXCEPT ![j] = @ + 1]
  /\ delayed_jobs' = Append(delayed_jobs, j)
  /\ UNCHANGED <<pending_jobs, ready, dead_letter_jobs>>

(* fail returning DeadLetter: the job keeps its count. *)
FailDeadLetter(j, max_retry) ==
  /\ j \in claimed_jobs
  /\ retry_count[j] >= max_retry
  /\ claimed_jobs' = claimed_jobs \ {j}
  /\ dead_letter_jobs' = dead_letter_jobs \cup {j}
  /\ UNCHANGED <<pending_jobs, delayed_jobs, ready, retry_count>>

(* fail returning Err: the job is not claimed, and nothing changes. *)
FailNotClaimed(j) ==
  /\ j \notin claimed_jobs
  /\ UNCHANGED queueVars

(* The clock reaches the available_at of a delayed job. *)
BackoffElapses(j) ==
  /\ j \in Range(delayed_jobs) \ ready
  /\ ready' = ready \cup {j}
  /\ UNCHANGED <<pending_jobs, delayed_jobs, claimed_jobs, dead_letter_jobs,
                 retry_count>>
-----------------------------------------------------------------------------
(***************************************************************************)
(* The queue under arbitrary callers.  They may complete, fail and cancel  *)
(* any id at any time, more than once, and choose any max_retry up to the  *)
(* configured one; an enqueued id is new to the queue (it is a UUID).      *)
(***************************************************************************)
QueueNext ==
  \E j \in Job :
    \/ ~Known(j) /\ Enqueue(j)
    \/ Claim(j)
    \/ CancelQueued(j)
    \/ CancelAlreadyClaimed(j)
    \/ CancelNotFound(j)
    \/ Complete(j)
    \/ \E max_retry \in 0..MaxRetry : \/ FailRequeued(j, max_retry)
                                      \/ FailDeadLetter(j, max_retry)
    \/ FailNotClaimed(j)
    \/ BackoffElapses(j)

QueueSpec == QueueInit /\ [][QueueNext]_queueVars
-----------------------------------------------------------------------------
(* No job is ever in two containers, or twice in one: a duplicate would be
   executed twice, or would survive the cancel that removed its twin (cancel
   stops at the first container that has the id). *)
EachJobInOnePlace ==
  /\ IsInjective(pending_jobs)
  /\ IsInjective(delayed_jobs)
  /\ Range(pending_jobs) \cap Range(delayed_jobs) = {}
  /\ claimed_jobs \cap (Range(pending_jobs) \cup Range(delayed_jobs)) = {}
  /\ dead_letter_jobs \cap
       (Range(pending_jobs) \cup Range(delayed_jobs) \cup claimed_jobs) = {}

(* Jobs are claimed in the order they became claimable: a job is never
   claimed while an older pending job stays behind (a retried job joins the
   back of the line and cannot starve fresh ones, and the other way round). *)
NoOvertaking ==
  [][\A old, new \in Job :
       /\ Precedes(pending_jobs, old, new)
       /\ new \in claimed_jobs' \ claimed_jobs
       => old \notin Range(pending_jobs')]_queueVars

(* A failed attempt is not retried at once: the only way from claimed back to
   the pending jobs is through a backoff that elapsed. *)
RetryWaitsForBackoff ==
  [][\A j \in Job :
       j \in Range(pending_jobs') /\ ~(j \in Range(pending_jobs))
         => \/ j \in ready
            \/ ~Known(j) /\ retry_count'[j] = 0]_queueVars
=============================================================================
