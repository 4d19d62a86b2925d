--------------------------- MODULE JobQueue_proofs ---------------------------
(***************************************************************************)
(* The safety properties of JobQueue, for every finite set of jobs and     *)
(* every retry limit, and what each operation does to the two sets its     *)
(* callers care about: the jobs in the queue and the claimed ones.         *)
(*                                                                         *)
(* QueueInv is inductive: EachJobInOnePlace alone is not, because it is    *)
(* ready \subseteq Range(delayed_jobs) that makes the promotion move a job *)
(* instead of inventing one.                                               *)
(***************************************************************************)
EXTENDS JobQueue, SequenceTheorems, FiniteSetTheorems, TLAPS

(* Only a job that waits for its backoff can have one that elapsed. *)
ReadyAreDelayed == ready \subseteq Range(delayed_jobs)

QueueInv == QueueTypeOK /\ EachJobInOnePlace /\ ReadyAreDelayed

Queued == Range(pending_jobs) \cup Range(delayed_jobs)
-----------------------------------------------------------------------------
(* push_back of an element that is not there keeps a sequence duplicate-free. *)
LEMMA InjectiveAppend ==
  ASSUME NEW s \in Seq(Job), IsInjective(s), NEW x \in Job, x \notin Range(s)
  PROVE  /\ Append(s, x) \in Seq(Job)
         /\ IsInjective(Append(s, x))
         /\ Range(Append(s, x)) = Range(s) \cup {x}
<1> DEFINE t == Append(s, x)
<1>1. /\ t \in Seq(Job)
      /\ Len(t) = Len(s) + 1
      /\ \A i \in 1..Len(s) : t[i] = s[i]
      /\ t[Len(s) + 1] = x
  BY AppendProperties
<1>2. /\ Len(s) \in Nat
      /\ DOMAIN s = 1..Len(s)
      /\ DOMAIN t = 1..(Len(s) + 1)
  BY <1>1, LenProperties
<1> HIDE DEF t
<1>3. Range(t) = Range(s) \cup {x}
  BY <1>1, <1>2 DEF Range
<1>4. ASSUME NEW a \in DOMAIN t, NEW b \in DOMAIN t, t[a] = t[b]
      PROVE  a = b
  BY <1>1, <1>2, <1>4 DEF IsInjective, Range
<1>5. QED
  BY <1>1, <1>3, <1>4 DEF IsInjective, t

(* Joining two duplicate-free sequences without a common element. *)
LEMMA InjectiveConcat ==
  ASSUME NEW s \in Seq(Job), IsInjective(s), NEW t \in Seq(Job), IsInjective(t),
         Range(s) \cap Range(t) = {}
  PROVE  /\ s \o t \in Seq(Job)
         /\ IsInjective(s \o t)
         /\ Range(s \o t) = Range(s) \cup Range(t)
<1> DEFINE u == s \o t
<1>1. /\ u \in Seq(Job)
      /\ Len(u) = Len(s) + Len(t)
      /\ \A i \in 1..(Len(s) + Len(t)) :
           u[i] = IF i <= Len(s) THEN s[i] ELSE t[i - Len(s)]
  BY ConcatProperties
<1>2. /\ Len(s) \in Nat /\ DOMAIN s = 1..Len(s)
      /\ Len(t) \in Nat /\ DOMAIN t = 1..Len(t)
      /\ DOMAIN u = 1..(Len(s) + Len(t))
  BY <1>1, LenProperties
<1>3. Range(u) = Range(s) \cup Range(t)
  BY RangeConcatenation
<1> HIDE DEF u
<1>4. \A i \in DOMAIN s, k \in DOMAIN t : s[i] # t[k]
  BY DEF Range
<1>5. ASSUME NEW a \in DOMAIN u, NEW b \in DOMAIN u, u[a] = u[b]
      PROVE  a = b
  <2>1. CASE a <= Len(s) /\ b <= Len(s)
    BY <1>1, <1>2, <1>5, <2>1 DEF IsInjective
  <2>2. CASE a > Len(s) /\ b > Len(s)
    <3>1. /\ a - Len(s) \in DOMAIN t /\ b - Len(s) \in DOMAIN t
          /\ t[a - Len(s)] = t[b - Len(s)]
      BY <1>1, <1>2, <1>5, <2>2
    <3>2. a - Len(s) = b - Len(s)
      BY <3>1 DEF IsInjective
    <3>3. QED
      BY <3>2, <1>2
  <2>3. CASE a <= Len(s) /\ b > Len(s)
    <3>1. a \in DOMAIN s /\ b - Len(s) \in DOMAIN t /\ s[a] = t[b - Len(s)]
      BY <1>1, <1>2, <1>5, <2>3
    <3>2. QED
      BY <3>1, <1>4
  <2>4. CASE a > Len(s) /\ b <= Len(s)
    <3>1. b \in DOMAIN s /\ a - Len(s) \in DOMAIN t /\ s[b] = t[a - Len(s)]
      BY <1>1, <1>2, <1>5, <2>4
    <3>2. QED
      BY <3>1, <1>4
  <2>5. QED
    BY <1>2, <2>1, <2>2, <2>3, <2>4
<1>6. QED
  BY <1>1, <1>3, <1>5 DEF IsInjective, u

(* pop_front of a duplicate-free sequence removes the popped element from it. *)
LEMMA InjectiveTail ==
  ASSUME NEW s \in Seq(Job), IsInjective(s), s # <<>>
  PROVE  /\ Head(s) \in Range(s)
         /\ Tail(s) \in Seq(Job)
         /\ IsInjective(Tail(s))
         /\ Range(Tail(s)) = Range(s) \ {Head(s)}
<1> DEFINE t == Tail(s)
<1>1. /\ t \in Seq(Job)
      /\ Len(t) = Len(s) - 1
      /\ \A i \in 1..Len(t) : t[i] = s[i + 1]
      /\ Head(s) = s[1]
  BY HeadTailProperties
<1>2. /\ Len(s) \in Nat /\ Len(s) >= 1 /\ DOMAIN s = 1..Len(s)
      /\ DOMAIN t = 1..(Len(s) - 1)
  BY <1>1, LenProperties, EmptySeq
<1> HIDE DEF t
<1>3. Head(s) \in Range(s)
  BY <1>1, <1>2 DEF Range
<1>4. \A i \in DOMAIN t : i + 1 \in DOMAIN s /\ i + 1 # 1 /\ t[i] = s[i + 1]
  BY <1>1, <1>2
<1>5. IsInjective(t)
  <2> SUFFICES ASSUME NEW a \in DOMAIN t, NEW b \in DOMAIN t, t[a] = t[b]
               PROVE  a = b
    BY DEF IsInjective
  <2>1. a + 1 = b + 1
    BY <1>4 DEF IsInjective
  <2>2. QED
    BY <2>1, <1>2
<1>6. Range(t) = Range(s) \ {Head(s)}
  <2>1. Range(t) \subseteq Range(s) \ {Head(s)}
    BY <1>1, <1>2, <1>4 DEF Range, IsInjective
  <2>2. ASSUME NEW i \in DOMAIN s, s[i] # Head(s)
        PROVE  s[i] \in Range(t)
    <3>1. i # 1 /\ i - 1 \in DOMAIN t /\ t[i - 1] = s[(i - 1) + 1]
      BY <1>1, <1>2, <2>2
    <3>2. QED
      BY <3>1, <1>2 DEF Range
  <2>3. QED
    BY <2>1, <2>2 DEF Range
<1>7. QED
  BY <1>1, <1>3, <1>5, <1>6 DEF t
-----------------------------------------------------------------------------
(* Keeping(s, S) removes everything but S from s, and nothing else. *)
LEMMA KeepingIsExact ==
  ASSUME NEW s \in Seq(Job), IsInjective(s), NEW S \in SUBSET Range(s),
         NEW t \in Keeping(s, S)
  PROVE  t \in Seq(Job) /\ IsInjective(t) /\ Range(t) = S
<1>1. S \subseteq Job
  BY RangeOfSeq
<1>2. Cardinality(S) \in Nat
  BY <1>1, QueueAssumption, FS_Subset, FS_CardinalityType
<1>3. t \in [1..Cardinality(S) -> S] /\ Range(t) = S
  BY DEF Keeping
<1>4. t \in Seq(Job)
  BY <1>1, <1>2, <1>3, IsASeq
<1>5. \A i, k \in DOMAIN t : i < k => t[i] # t[k]
  <2> SUFFICES ASSUME NEW i \in DOMAIN t, NEW k \in DOMAIN t, i < k
               PROVE  t[i] # t[k]
    OBVIOUS
  <2>1. PICK a \in DOMAIN s, b \in DOMAIN s : a < b /\ s[a] = t[i] /\ s[b] = t[k]
    BY DEF Keeping, Precedes
  <2>2. a # b
    BY <2>1, LenProperties
  <2>3. QED
    BY <2>1, <2>2 DEF IsInjective
<1>6. IsInjective(t)
  <2>1. DOMAIN t = 1..Cardinality(S)
    BY <1>3
  <2>2. QED
    BY <1>2, <1>5, <2>1 DEF IsInjective
<1>7. QED
  BY <1>3, <1>4, <1>6

(* The promotion moves the ready jobs behind the pending ones, and loses or
   duplicates none. *)
LEMMA PromotionMovesReady ==
  ASSUME QueueInv, NEW pending \in WithReady, NEW delayed \in StillDelayed
  PROVE  /\ pending \in Seq(Job) /\ IsInjective(pending)
         /\ delayed \in Seq(Job) /\ IsInjective(delayed)
         /\ Range(pending) = Range(pending_jobs) \cup ready
         /\ Range(delayed) = Range(delayed_jobs) \ ready
<1> USE DEF QueueInv, QueueTypeOK, EachJobInOnePlace, ReadyAreDelayed
<1>1. PICK moved \in Keeping(delayed_jobs, ready) : pending = pending_jobs \o moved
  BY DEF WithReady
<1>2. moved \in Seq(Job) /\ IsInjective(moved) /\ Range(moved) = ready
  BY KeepingIsExact
<1>3. /\ delayed \in Seq(Job) /\ IsInjective(delayed)
      /\ Range(delayed) = Range(delayed_jobs) \ ready
  <2>1. Range(delayed_jobs) \ ready \in SUBSET Range(delayed_jobs)
    OBVIOUS
  <2>2. QED
    BY <2>1, KeepingIsExact DEF StillDelayed
<1>4. Range(pending_jobs) \cap Range(moved) = {}
  BY <1>2
<1>5. /\ pending \in Seq(Job) /\ IsInjective(pending)
      /\ Range(pending) = Range(pending_jobs) \cup ready
  BY <1>1, <1>2, <1>4, InjectiveConcat
<1>6. QED
  BY <1>3, <1>5
-----------------------------------------------------------------------------
LEMMA QueueInitInv == QueueInit => QueueInv /\ Queued = {} /\ claimed_jobs = {}
<1> SUFFICES ASSUME QueueInit PROVE QueueInv /\ Queued = {} /\ claimed_jobs = {}
  OBVIOUS
<1>1. <<>> \in Seq(Job) /\ Range(<<>>) = {} /\ IsInjective(<<>>)
  BY DEF Range, IsInjective
<1>2. 0 \in 0..MaxRetry
  BY QueueAssumption
<1>3. QED
  BY <1>1, <1>2 DEF QueueInit, QueueInv, QueueTypeOK, EachJobInOnePlace,
                    ReadyAreDelayed, Queued

(* Each operation keeps the invariant, and moves the job it is about. *)
LEMMA EnqueueInv ==
  ASSUME QueueInv, NEW j \in Job, ~Known(j), Enqueue(j)
  PROVE  /\ QueueInv'
         /\ Queued' = Queued \cup {j}
         /\ UNCHANGED <<claimed_jobs, dead_letter_jobs>>
<1> USE DEF QueueInv, QueueTypeOK, EachJobInOnePlace, ReadyAreDelayed, Enqueue
<1>1. /\ pending_jobs' \in Seq(Job) /\ IsInjective(pending_jobs')
      /\ Range(pending_jobs') = Range(pending_jobs) \cup {j}
  BY InjectiveAppend DEF Known, InQueue
<1>2. retry_count' \in [Job -> 0..MaxRetry]
  BY QueueAssumption
<1>3. QED
  BY <1>1, <1>2 DEF Queued, Known, InQueue

LEMMA ClaimInv ==
  ASSUME QueueInv, NEW j, Claim(j)
  PROVE  /\ QueueInv'
         /\ j \in Queued /\ Queued' = Queued \ {j}
         /\ claimed_jobs' = claimed_jobs \cup {j} /\ UNCHANGED dead_letter_jobs
<1> USE DEF QueueInv, QueueTypeOK, EachJobInOnePlace, ReadyAreDelayed
<1>1. PICK pending \in WithReady, delayed \in StillDelayed :
        /\ pending # <<>>
        /\ j = Head(pending)
        /\ pending_jobs' = Tail(pending)
        /\ delayed_jobs' = delayed
        /\ ready' = {}
        /\ claimed_jobs' = claimed_jobs \cup {j}
        /\ UNCHANGED <<dead_letter_jobs, retry_count>>
  BY DEF Claim
<1>2. /\ pending \in Seq(Job) /\ IsInjective(pending)
      /\ delayed \in Seq(Job) /\ IsInjective(delayed)
      /\ Range(pending) = Range(pending_jobs) \cup ready
      /\ Range(delayed) = Range(delayed_jobs) \ ready
  BY PromotionMovesReady
<1>3. /\ j \in Range(pending)
      /\ pending_jobs' \in Seq(Job) /\ IsInjective(pending_jobs')
      /\ Range(pending_jobs') = Range(pending) \ {j}
  BY <1>1, <1>2, InjectiveTail
<1>4. Range(pending) \subseteq Job
  BY <1>2, RangeOfSeq
<1>5. QED
  BY <1>1, <1>2, <1>3, <1>4 DEF Queued

LEMMA CancelQueuedInv ==
  ASSUME QueueInv, NEW j, CancelQueued(j)
  PROVE  /\ QueueInv'
         /\ j \in Queued /\ Queued' = Queued \ {j}
         /\ UNCHANGED <<claimed_jobs, dead_letter_jobs>>
<1> USE DEF QueueInv, QueueTypeOK, EachJobInOnePlace, ReadyAreDelayed
<1>1. PICK pending \in WithReady, delayed \in StillDelayed :
        /\ \/ /\ j \in Range(pending)
              /\ pending_jobs' \in Keeping(pending, Range(pending) \ {j})
              /\ delayed_jobs' = delayed
           \/ /\ j \notin Range(pending)
              /\ j \in Range(delayed)
              /\ pending_jobs' = pending
              /\ delayed_jobs' \in Keeping(delayed, Range(delayed) \ {j})
        /\ ready' = {}
        /\ UNCHANGED <<claimed_jobs, dead_letter_jobs, retry_count>>
  BY DEF CancelQueued
<1>2. /\ pending \in Seq(Job) /\ IsInjective(pending)
      /\ delayed \in Seq(Job) /\ IsInjective(delayed)
      /\ Range(pending) = Range(pending_jobs) \cup ready
      /\ Range(delayed) = Range(delayed_jobs) \ ready
  BY PromotionMovesReady
<1>3. /\ Range(pending) \ {j} \in SUBSET Range(pending)
      /\ Range(delayed) \ {j} \in SUBSET Range(delayed)
  OBVIOUS
<1>4. /\ pending_jobs' \in Seq(Job) /\ IsInjective(pending_jobs')
      /\ delayed_jobs' \in Seq(Job) /\ IsInjective(delayed_jobs')
      /\ j \in Range(pending) \cup Range(delayed)
      /\ Range(pending_jobs') = Range(pending) \ {j}
      /\ Range(delayed_jobs') = Range(delayed) \ {j}
  <2>1. CASE /\ j \in Range(pending)
             /\ pending_jobs' \in Keeping(pending, Range(pending) \ {j})
             /\ delayed_jobs' = delayed
    <3>1. /\ pending_jobs' \in Seq(Job) /\ IsInjective(pending_jobs')
          /\ Range(pending_jobs') = Range(pending) \ {j}
      BY <1>2, <1>3, <2>1, KeepingIsExact
    <3>2. j \notin Range(delayed)
      BY <1>2, <2>1
    <3>3. QED
      BY <1>2, <2>1, <3>1, <3>2
  <2>2. CASE /\ j \notin Range(pending)
             /\ j \in Range(delayed)
             /\ pending_jobs' = pending
             /\ delayed_jobs' \in Keeping(delayed, Range(delayed) \ {j})
    <3>1. /\ delayed_jobs' \in Seq(Job) /\ IsInjective(delayed_jobs')
          /\ Range(delayed_jobs') = Range(delayed) \ {j}
      BY <1>2, <1>3, <2>2, KeepingIsExact
    <3>2. QED
      BY <1>2, <2>2, <3>1
  <2>3. QED
    BY <1>1, <2>1, <2>2
<1>5. QED
  BY <1>1, <1>2, <1>4 DEF Queued

LEMMA CancelNotQueuedInv ==
  ASSUME QueueInv, NEW j, CancelNotQueued(j)
  PROVE  QueueInv' /\ UNCHANGED <<Queued, claimed_jobs, dead_letter_jobs>>
<1> USE DEF QueueInv, QueueTypeOK, EachJobInOnePlace, ReadyAreDelayed
<1>1. PICK pending \in WithReady, delayed \in StillDelayed :
        /\ pending_jobs' = pending
        /\ delayed_jobs' = delayed
        /\ ready' = {}
        /\ UNCHANGED <<claimed_jobs, dead_letter_jobs, retry_count>>
  BY DEF CancelNotQueued
<1>2. /\ pending \in Seq(Job) /\ IsInjective(pending)
      /\ delayed \in Seq(Job) /\ IsInjective(delayed)
      /\ Range(pending) = Range(pending_jobs) \cup ready
      /\ Range(delayed) = Range(delayed_jobs) \ ready
  BY PromotionMovesReady
<1>3. QED
  BY <1>1, <1>2 DEF Queued

LEMMA CompleteInv ==
  ASSUME QueueInv, NEW j, Complete(j)
  PROVE  /\ QueueInv'
         /\ claimed_jobs' = claimed_jobs \ {j}
         /\ UNCHANGED <<Queued, dead_letter_jobs>>
BY DEF QueueInv, QueueTypeOK, EachJobInOnePlace, ReadyAreDelayed, Complete, Queued

LEMMA FailRequeuedInv ==
  ASSUME QueueInv, NEW j, NEW max_retry \in 0..MaxRetry, FailRequeued(j, max_retry)
  PROVE  /\ QueueInv'
         /\ Queued' = Queued \cup {j}
         /\ j \in claimed_jobs /\ claimed_jobs' = claimed_jobs \ {j}
         /\ UNCHANGED dead_letter_jobs
<1> USE DEF QueueInv, QueueTypeOK, EachJobInOnePlace, ReadyAreDelayed, FailRequeued
<1>1. j \in Job
  OBVIOUS
<1>2. /\ delayed_jobs' \in Seq(Job) /\ IsInjective(delayed_jobs')
      /\ Range(delayed_jobs') = Range(delayed_jobs) \cup {j}
  BY <1>1, InjectiveAppend
<1>3. retry_count' \in [Job -> 0..MaxRetry]
  BY <1>1, QueueAssumption
<1>4. QED
  BY <1>1, <1>2, <1>3 DEF Queued

LEMMA FailDeadLetterInv ==
  ASSUME QueueInv, NEW j, NEW max_retry, FailDeadLetter(j, max_retry)
  PROVE  /\ QueueInv'
         /\ Queued' = Queued
         /\ j \in claimed_jobs /\ claimed_jobs' = claimed_jobs \ {j}
         /\ dead_letter_jobs' = dead_letter_jobs \cup {j}
BY DEF QueueInv, QueueTypeOK, EachJobInOnePlace, ReadyAreDelayed, FailDeadLetter,
       Queued

LEMMA BackoffElapsesInv ==
  ASSUME QueueInv, NEW j \in Job, BackoffElapses(j)
  PROVE  QueueInv' /\ UNCHANGED <<Queued, claimed_jobs, dead_letter_jobs>>
BY DEF QueueInv, QueueTypeOK, EachJobInOnePlace, ReadyAreDelayed, BackoffElapses,
       Queued

LEMMA UnchangedQueueInv ==
  ASSUME QueueInv, UNCHANGED queueVars
  PROVE  QueueInv' /\ UNCHANGED <<Queued, claimed_jobs, dead_letter_jobs>>
BY DEF QueueInv, QueueTypeOK, EachJobInOnePlace, ReadyAreDelayed, queueVars, Queued
-----------------------------------------------------------------------------
LEMMA QueueStepInv == QueueInv /\ [QueueNext]_queueVars => QueueInv'
<1> SUFFICES ASSUME QueueInv, [QueueNext]_queueVars PROVE QueueInv'
  OBVIOUS
<1>1. CASE UNCHANGED queueVars
  BY <1>1, UnchangedQueueInv
<1>2. ASSUME NEW j \in Job, ~Known(j), Enqueue(j) PROVE QueueInv'
  BY <1>2, EnqueueInv
<1>3. ASSUME NEW j \in Job, Claim(j) PROVE QueueInv'
  BY <1>3, ClaimInv
<1>4. ASSUME NEW j \in Job, CancelQueued(j) PROVE QueueInv'
  BY <1>4, CancelQueuedInv
<1>5. ASSUME NEW j \in Job, CancelNotQueued(j) PROVE QueueInv'
  BY <1>5, CancelNotQueuedInv
<1>6. ASSUME NEW j \in Job, Complete(j) PROVE QueueInv'
  BY <1>6, CompleteInv
<1>7. ASSUME NEW j \in Job, NEW max_retry \in 0..MaxRetry, FailRequeued(j, max_retry)
      PROVE  QueueInv'
  BY <1>7, FailRequeuedInv
<1>8. ASSUME NEW j \in Job, NEW max_retry \in 0..MaxRetry, FailDeadLetter(j, max_retry)
      PROVE  QueueInv'
  BY <1>8, FailDeadLetterInv
<1>9. ASSUME NEW j \in Job, FailNotClaimed(j) PROVE QueueInv'
  BY <1>9, UnchangedQueueInv DEF FailNotClaimed
<1>10. ASSUME NEW j \in Job, BackoffElapses(j) PROVE QueueInv'
  BY <1>10, BackoffElapsesInv
<1>11. QED
  BY <1>1, <1>2, <1>3, <1>4, <1>5, <1>6, <1>7, <1>8, <1>9, <1>10
     DEF QueueNext, CancelAlreadyClaimed, CancelNotFound

(* Whatever its callers do, the queue never holds a job twice: not in one
   container, and not in two (in_memory_job_queue.rs, all operations). *)
THEOREM QueueKeepsJobsApart == QueueSpec => [](QueueTypeOK /\ EachJobInOnePlace)
<1>1. QueueInit => QueueInv
  BY QueueInitInv
<1>2. QueueInv => QueueTypeOK /\ EachJobInOnePlace
  BY DEF QueueInv
<1>3. QED
  BY <1>1, <1>2, QueueStepInv, PTL DEF QueueSpec

-----------------------------------------------------------------------------
(* A step of the queue, by the operation that took it. *)
LEMMA QueueStepCases ==
  ASSUME [QueueNext]_queueVars
  PROVE  \/ \E j \in Job : ~Known(j) /\ Enqueue(j)
         \/ \E j \in Job : Claim(j)
         \/ \E j \in Job : CancelQueued(j) \/ CancelNotQueued(j)
         \/ /\ UNCHANGED pending_jobs
            /\ claimed_jobs' \subseteq claimed_jobs
BY DEF QueueNext, queueVars, CancelAlreadyClaimed, CancelNotFound, Complete, FailRequeued,
       FailDeadLetter, FailNotClaimed, BackoffElapses

(* What is claimed was at the head of the line, and nothing precedes the head. *)
LEMMA ClaimTakesTheHead ==
  ASSUME QueueInv, NEW j, Claim(j), NEW old
  PROVE  ~Precedes(pending_jobs, old, j)
<1> SUFFICES ASSUME NEW a \in DOMAIN pending_jobs, NEW b \in DOMAIN pending_jobs,
                    a < b, pending_jobs[b] = j
             PROVE  FALSE
  BY DEF Precedes
<1>1. PICK pending \in WithReady, delayed \in StillDelayed : pending # <<>> /\ j = Head(pending)
  BY DEF Claim
<1>2. pending \in Seq(Job) /\ IsInjective(pending)
  BY PromotionMovesReady
<1>3. PICK moved \in Keeping(delayed_jobs, ready) : pending = pending_jobs \o moved
  BY DEF WithReady
<1>4. /\ pending_jobs \in Seq(Job) /\ delayed_jobs \in Seq(Job) /\ IsInjective(delayed_jobs)
      /\ ready \in SUBSET Range(delayed_jobs)
  BY DEF QueueInv, QueueTypeOK, EachJobInOnePlace, ReadyAreDelayed
<1>5. moved \in Seq(Job)
  BY <1>4, KeepingIsExact
<1>6. /\ Len(pending) = Len(pending_jobs) + Len(moved)
      /\ \A i \in 1..(Len(pending_jobs) + Len(moved)) :
           pending[i] = IF i <= Len(pending_jobs) THEN pending_jobs[i] ELSE moved[i - Len(pending_jobs)]
  BY <1>3, <1>4, <1>5, ConcatProperties
<1>7. /\ Len(pending_jobs) \in Nat /\ DOMAIN pending_jobs = 1..Len(pending_jobs)
      /\ Len(moved) \in Nat /\ DOMAIN pending = 1..Len(pending)
  BY <1>2, <1>4, <1>5, LenProperties
<1>8. pending[b] = j /\ b \in DOMAIN pending /\ b > 1
  BY <1>6, <1>7
<1>9. pending[1] = j /\ 1 \in DOMAIN pending
  BY <1>1, <1>2, <1>6, <1>7, HeadTailProperties
<1> QED  BY <1>2, <1>8, <1>9 DEF IsInjective

(* Jobs are claimed in the order in which they became claimable, whoever          *)
(* enqueues, claims, fails and cancels in between (promote_ready_delayed_jobs     *)
(* and claim of in_memory_job_queue.rs).                                     *)
THEOREM ClaimsKeepTheOrder == QueueSpec => NoOvertaking
<1>1. ASSUME QueueInv, [QueueNext]_queueVars,
             NEW old \in Job, NEW new \in Job, Precedes(pending_jobs, old, new),
             new \in claimed_jobs' \ claimed_jobs
      PROVE  FALSE
  <2>1. CASE \E j \in Job : Claim(j)
    <3>1. Claim(new)
      BY <1>1, <2>1 DEF Claim
    <3> QED  BY <1>1, <3>1, ClaimTakesTheHead
  <2>2. CASE \E j \in Job : ~Known(j) /\ Enqueue(j)
    BY <1>1, <2>2 DEF Enqueue
  <2>3. CASE \E j \in Job : CancelQueued(j) \/ CancelNotQueued(j)
    BY <1>1, <2>3 DEF CancelQueued, CancelNotQueued
  <2> QED  BY <1>1, <2>1, <2>2, <2>3, QueueStepCases
<1>2. QueueInv /\ [QueueNext]_queueVars =>
        [\A old, new \in Job :
           /\ Precedes(pending_jobs, old, new)
           /\ new \in claimed_jobs' \ claimed_jobs
           => old \notin Range(pending_jobs')]_queueVars
  BY <1>1
<1>3. QueueSpec => []QueueInv
  BY QueueInitInv, QueueStepInv, PTL DEF QueueSpec
<1> QED  BY <1>2, <1>3, PTL DEF QueueSpec, NoOvertaking

(* A failed attempt is not retried before its backoff has elapsed, whatever else   *)
(* promotes delayed jobs meanwhile: only enqueueing a new id, with no retries      *)
(* yet, makes a job pending without a backoff.                                *)
THEOREM RetriesWait == QueueSpec => RetryWaitsForBackoff
<1>1. ASSUME QueueInv, [QueueNext]_queueVars,
             NEW j \in Job, j \in Range(pending_jobs'), j \notin Range(pending_jobs)
      PROVE  j \in ready \/ (~Known(j) /\ retry_count'[j] = 0)
  <2>1. ASSUME NEW pending \in WithReady, NEW delayed \in StillDelayed,
               Range(pending_jobs') \subseteq Range(pending)
        PROVE  j \in ready
    BY <1>1, <2>1, PromotionMovesReady
  <2>2. CASE \E k \in Job : Claim(k)
    <3>1. PICK pending \in WithReady, delayed \in StillDelayed :
            pending # <<>> /\ pending_jobs' = Tail(pending)
      BY <2>2 DEF Claim
    <3>2. Range(Tail(pending)) \subseteq Range(pending)
      BY <1>1, <3>1, PromotionMovesReady, InjectiveTail
    <3> QED  BY <2>1, <3>1, <3>2
  <2>3. ASSUME NEW k \in Job, ~Known(k), Enqueue(k)
        PROVE  ~Known(j) /\ retry_count'[j] = 0
    <3>1. /\ pending_jobs \in Seq(Job) /\ IsInjective(pending_jobs)
          /\ retry_count \in [Job -> 0..MaxRetry]
      BY <1>1 DEF QueueInv, QueueTypeOK, EachJobInOnePlace
    <3>2. Range(pending_jobs') = Range(pending_jobs) \cup {k}
      BY <2>3, <3>1, InjectiveAppend DEF Enqueue, Known, InQueue
    <3>3. j = k
      BY <1>1, <3>2
    <3> QED  BY <2>3, <3>1, <3>3 DEF Enqueue
  <2>4. CASE \E k \in Job : CancelQueued(k) \/ CancelNotQueued(k)
    <3>1. PICK k \in Job : CancelQueued(k) \/ CancelNotQueued(k)
      BY <2>4
    <3>2. PICK pending \in WithReady, delayed \in StillDelayed :
            pending_jobs' = pending \/ pending_jobs' \in Keeping(pending, Range(pending) \ {k})
      BY <3>1 DEF CancelQueued, CancelNotQueued
    <3>3. Range(pending_jobs') \subseteq Range(pending)
      BY <3>2 DEF Keeping
    <3> QED  BY <2>1, <3>2, <3>3
  <2> QED  BY <1>1, <2>2, <2>3, <2>4, QueueStepCases
<1>2. QueueInv /\ [QueueNext]_queueVars =>
        [\A j \in Job :
           j \in Range(pending_jobs') /\ ~(j \in Range(pending_jobs))
             => \/ j \in ready
                \/ ~Known(j) /\ retry_count'[j] = 0]_queueVars
  BY <1>1
<1>3. QueueSpec => []QueueInv
  BY QueueInitInv, QueueStepInv, PTL DEF QueueSpec
<1> QED  BY <1>2, <1>3, PTL DEF QueueSpec, RetryWaitsForBackoff
=============================================================================
