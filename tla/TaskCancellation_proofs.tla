----------------------- MODULE TaskCancellation_proofs ----------------------
(***************************************************************************)
(* What becomes of cancellations, reports and control messages, for every  *)
(* number of jobs, loops and clicks: a token in the registry is that of an *)
(* attempt at its job that is under way, nobody's task is cancelled        *)
(* unasked, the message names who asked, and a task is only called         *)
(* completed when its report was posted.  Where the backoff outlasts the   *)
(* clean-up, a request on record is seen by the attempt under way, and the *)
(* control message of a task that is over tells how it ended.              *)
(*                                                                         *)
(* The registry keeps a token and a request for each job, and the loops    *)
(* keep flags and handles of their own, each written at a step of its own. *)
(* CancelInv says how they agree; ReachInv adds that the token of an       *)
(* attempt is the one in the registry, ToldInv that whoever ends a task    *)
(* goes on to say so.                                                      *)
(***************************************************************************)
EXTENDS TaskExecution_proofs

(* Where a loop's token may be in the registry; where its job is over, and     *)
(* where it has not begun an attempt.                                       *)
Attempting == Holding \ {"claimed"}
Ending == {"removeCompleted", "removeCancelled", "removeDead"}
Attached == Attempting \cup Ending \cup {"removeRequeued"}
Unattached == Resting \cup {"claimed"}
Cancelling == {"completeCancelled", "removeCancelled"}

Asks(c, j) == click_job[c] = j /\ Accepted(c)

TokensAreAttached ==
  \A j \in Job, w \in Worker : cancellations[j] = w => job[w] = j /\ pc[w] \in Attached

(* The flag of a token that is in the registry, and the request there.       *)
TokensAgree ==
  \A j \in Job, w \in Worker :
    cancellations[j] = w => (cancelled[w] <=> cancellation_requests[j] # None)

(* Of two loops at one job, the one whose token was replaced has requeued it.  *)
NewestTokenStays ==
  \A j \in Job : \A v, w \in Worker :
    cancellations[j] = v /\ w # v /\ job[w] = j /\ pc[w] \in Attached => pc[w] = "removeRequeued"

EndingJobsAreOver == \A w \in Worker : pc[w] \in Ending => outcome[job[w]] # "none"

RequestsHaveClicks ==
  \A j \in Job : cancellation_requests[j] # None => Asks(cancellation_requests[j], j)

HandlesHaveClicks ==
  \A w \in Worker :
    /\ handle[w] # None => Asks(handle[w], job[w])
    /\ pc[w] \in Unattached => handle[w] = None
    /\ pc[w] = "announceCancelled" => handle[w] # None

CancelledAttemptsWereAsked ==
  \A w \in Worker :
    /\ pc[w] \in Attempting /\ cancelled[w] => \E c \in Click : Asks(c, job[w])
    /\ woken[w] => cancelled[w] /\ pc[w] \notin Unattached
    /\ pc[w] \in Cancelling => cancelled[w]

ClicksHaveJobs == \A c \in Click : click_pc[c] # "none" => click_job[c] \in Job

CancelInv ==
  /\ TaskInv
  /\ TokensAreAttached
  /\ TokensAgree
  /\ NewestTokenStays
  /\ EndingJobsAreOver
  /\ RequestsHaveClicks
  /\ HandlesHaveClicks
  /\ CancelledAttemptsWereAsked
  /\ ClicksHaveJobs
  /\ OnlyCancelledOnRequest

LEMMA CancelTypes ==
  ASSUME TaskInv
  PROVE  /\ cancellation_requests \in [Job -> Click \cup {None}]
         /\ cancellations \in [Job -> Worker \cup {None}]
         /\ cancelled \in [Worker -> BOOLEAN]
         /\ pc \in [Worker -> Holding \cup Releasing \cup Resting]
         /\ job \in [Worker -> Job \cup {None}]
         /\ handle \in [Worker -> Click \cup {None}]
         /\ woken \in [Worker -> BOOLEAN]
         /\ click_pc \in [Click -> ClickPlaces]
         /\ click_job \in [Click -> Job \cup {None}]
         /\ outcome \in [Job -> Outcomes \cup {"none"}]
         /\ reported \in SUBSET Job
BY DEF TaskInv, TaskTypeOK, Registry!RegistryTypeOK

LEMMA BusyJob ==
  ASSUME TaskInv, NEW w \in Worker, pc[w] \notin Resting
  PROVE  job[w] \in Job
BY DEF TaskInv, BusyLoopsHaveJobs

(* What is claimed is not over.                                            *)
LEMMA HeldJobsAreNotOver ==
  ASSUME TaskInv, NEW w \in Worker, pc[w] \in Holding
  PROVE  outcome[job[w]] = "none"
<1>1. job[w] \in Job /\ job[w] \in claimed_jobs
  BY BusyJob, PlacesAreDisjoint DEF TaskInv, ExclusiveExecution, Holders
<1> QED  BY <1>1 DEF TaskInv, NoJobLost

(* The places, told apart once and for all.                                 *)
LEMMA Places ==
  /\ Attempting = {"announceRunning", "starting", "registering", "running",
                   "replying", "completing", "completeCancelled", "failing"}
  /\ Attached = Attempting \cup {"removeCompleted", "removeCancelled", "removeDead", "removeRequeued"}
  /\ Unattached = {"loop", "claiming", "stopped", "claimed"}
  /\ Resting = {"loop", "claiming", "stopped"}
BY DEF Attempting, Attached, Ending, Unattached, Holding, Resting

-----------------------------------------------------------------------------
(* A step of loop w between two places, both of which a token may be attached
   in or neither of them, that leaves the registry and the clicks alone. *)
LEMMA LoopStep ==
  ASSUME CancelInv, NEW w \in Worker, NEW from, NEW to, Goto(w, from, to), SameRegistry,
         UNCHANGED clickVars,
         from \in Attached <=> to \in Attached,
         to \in Attempting => from \in Attempting,
         from # "removeRequeued",
         to \in Cancelling => from \in Cancelling \/ cancelled[w],
         to # "announceCancelled",
         \/ UNCHANGED <<job, handle, woken>> /\ (to \in Unattached => from \in Unattached)
         \/ /\ to = "loop" /\ job' = [job EXCEPT ![w] = None]
            /\ handle' = [handle EXCEPT ![w] = None] /\ woken' = [woken EXCEPT ![w] = FALSE]
         \/ /\ from \in Unattached /\ to \in Unattached
            /\ \E j \in Job : job' = [job EXCEPT ![w] = j]
            /\ UNCHANGED <<handle, woken>>,
         \A j \in Job : outcome[j] # "none" => outcome'[j] # "none",
         to \in Ending => outcome'[job[w]] # "none",
         OnlyCancelledOnRequest',
         TaskInv'
  PROVE  CancelInv'
<1> USE Places
<1>1. /\ pc \in [Worker -> Holding \cup Releasing \cup Resting]
      /\ pc[w] = from /\ pc' = [pc EXCEPT ![w] = to]
      /\ job \in [Worker -> Job \cup {None}] /\ handle \in [Worker -> Click \cup {None}]
      /\ woken \in [Worker -> BOOLEAN]
      /\ UNCHANGED <<cancellation_requests, cancellations, cancelled, click_pc, click_job>>
  BY CancelTypes DEF CancelInv, Goto, SameRegistry, clickVars
<1>2. \A v \in Worker : v # w => /\ pc'[v] = pc[v] /\ job'[v] = job[v]
                                 /\ handle'[v] = handle[v] /\ woken'[v] = woken[v]
  BY <1>1
<1>3. pc'[w] = to
  BY <1>1
<1>4. to \in Attached => job'[w] = job[w] /\ handle'[w] = handle[w] /\ woken'[w] = woken[w]
  BY <1>1
<1>5. TokensAreAttached' /\ TokensAgree'
  BY <1>1, <1>2, <1>3, <1>4 DEF CancelInv, TokensAreAttached, TokensAgree
<1>6. NewestTokenStays'
  BY <1>1, <1>2, <1>3, <1>4 DEF CancelInv, NewestTokenStays
<1>7. EndingJobsAreOver'
  <2> SUFFICES ASSUME NEW v \in Worker, pc'[v] \in Ending PROVE outcome'[job'[v]] # "none"
    BY DEF EndingJobsAreOver
  <2>1. CASE v = w
    BY <1>3, <1>4, <2>1 DEF Ending
  <2>2. CASE v # w
    <3>1. pc[v] \in Ending /\ job'[v] = job[v]
      BY <1>2, <2>2
    <3>2. job[v] \in Job
      BY <3>1, BusyJob DEF CancelInv, Ending
    <3> QED  BY <3>1, <3>2 DEF CancelInv, EndingJobsAreOver
  <2> QED  BY <2>1, <2>2
<1>8. RequestsHaveClicks'
  BY <1>1 DEF CancelInv, RequestsHaveClicks, Asks, Accepted
<1>9. HandlesHaveClicks'
  BY <1>1, <1>2, <1>3, <1>4 DEF CancelInv, HandlesHaveClicks, Asks, Accepted
<1>10. CancelledAttemptsWereAsked'
  BY <1>1, <1>2, <1>3, <1>4 DEF CancelInv, CancelledAttemptsWereAsked, Asks, Accepted, Cancelling
<1>11. ClicksHaveJobs'
  BY <1>1 DEF CancelInv, ClicksHaveJobs
<1> QED  BY <1>5, <1>6, <1>7, <1>8, <1>9, <1>10, <1>11 DEF CancelInv

(* A step that moves no loop, and after which who asked still asks. *)
LEMMA BystanderStep ==
  ASSUME CancelInv, SameRegistry, UNCHANGED <<pc, job, handle, woken>>,
         \A c \in Click, j \in Job : Asks(c, j) => Asks(c, j)',
         \A j \in Job : outcome[j] # "none" => outcome'[j] # "none",
         ClicksHaveJobs',
         OnlyCancelledOnRequest',
         TaskInv'
  PROVE  CancelInv'
<1> USE Places
<1>1. /\ cancellation_requests \in [Job -> Click \cup {None}]
      /\ handle \in [Worker -> Click \cup {None}]
      /\ UNCHANGED <<cancellation_requests, cancellations, cancelled>>
  BY CancelTypes DEF CancelInv, SameRegistry
<1>2. \A w \in Worker : pc[w] \notin Resting => job[w] \in Job
  BY BusyJob DEF CancelInv
<1>3. TokensAreAttached' /\ TokensAgree' /\ NewestTokenStays'
  BY <1>1 DEF CancelInv, TokensAreAttached, TokensAgree, NewestTokenStays
<1>4. EndingJobsAreOver'
  BY <1>2 DEF CancelInv, EndingJobsAreOver, Ending
<1>5. RequestsHaveClicks'
  BY <1>1 DEF CancelInv, RequestsHaveClicks
<1>6. HandlesHaveClicks'
  BY <1>1, <1>2 DEF CancelInv, HandlesHaveClicks
<1>7. CancelledAttemptsWereAsked'
  BY <1>1, <1>2 DEF CancelInv, CancelledAttemptsWereAsked
<1> QED  BY <1>3, <1>4, <1>5, <1>6, <1>7 DEF CancelInv

(* Where nobody's outcome becomes "cancelled" and who asked still asks.       *)
LEMMA NobodyCancelled ==
  ASSUME CancelInv, NEW j \in Job, NEW how \in {"completed", "dead"},
         UNCHANGED outcome \/ End(j, how), UNCHANGED clickVars
  PROVE  OnlyCancelledOnRequest'
BY CancelTypes DEF CancelInv, OnlyCancelledOnRequest, End, clickVars, Accepted

LEMMA NobodyEnded ==
  ASSUME CancelInv, UNCHANGED outcome, UNCHANGED clickVars
  PROVE  OnlyCancelledOnRequest'
BY DEF CancelInv, OnlyCancelledOnRequest, clickVars, Accepted

LEMMA EndedStays ==
  ASSUME CancelInv, NEW j \in Job, NEW how \in {"completed", "cancelled", "dead"}, End(j, how)
  PROVE  /\ \A k \in Job : outcome[k] # "none" => outcome'[k] # "none"
         /\ outcome'[j] # "none"
BY CancelTypes DEF CancelInv, End

-----------------------------------------------------------------------------
(* The loops. *)
LEMMA QuietWorkerSteps ==
  ASSUME CancelInv, NEW w \in Worker, TaskInv',
         \/ CheckRunning(w) \/ ClaimNothing(w) \/ AnnounceRunning(w) \/ AwaitNotification(w)
         \/ PostReport(w) \/ AnnounceFailed(w)
  PROVE  CancelInv'
<1> DEFINE Step(from, to) ==
      /\ Goto(w, from, to) /\ SameRegistry /\ UNCHANGED clickVars
      /\ UNCHANGED <<job, handle, woken>> /\ UNCHANGED outcome
<1>1. \/ Step("loop", "claiming") \/ Step("loop", "stopped") \/ Step("claiming", "loop")
      \/ Step("announceRunning", "starting") \/ Step("registering", "running")
      \/ Step("replying", "completing") \/ Step("replying", "failing")
      \/ Step("announceFailed", "postFailure")
  BY DEF CheckRunning, ClaimNothing, AnnounceRunning, AwaitNotification, PostReport,
     AnnounceFailed, KeepLocals
<1>2. ASSUME NEW from, NEW to, Step(from, to),
             from \in Attached <=> to \in Attached,
             to \in Attempting => from \in Attempting,
             from # "removeRequeued",
             to \notin Cancelling \cup Ending \cup {"announceCancelled"},
             to \in Unattached => from \in Unattached
      PROVE  CancelInv'
  BY <1>2, LoopStep, NobodyEnded
<1> HIDE DEF Step
<1> QED  BY <1>1, <1>2, Places DEF Cancelling, Ending

LEMMA ClaimJobKeeps ==
  ASSUME CancelInv, NEW w \in Worker, TaskInv', ClaimJob(w)
  PROVE  CancelInv'
<1>1. /\ Goto(w, "claiming", "claimed") /\ SameRegistry /\ UNCHANGED clickVars
      /\ \E j \in Job : job' = [job EXCEPT ![w] = j]
      /\ UNCHANGED <<handle, woken, outcome>>
  BY DEF ClaimJob
<1> QED  BY <1>1, LoopStep, NobodyEnded, Places DEF Cancelling, Ending

LEMMA RunEndsKeeps ==
  ASSUME CancelInv, NEW w \in Worker, TaskInv',
         StartRun(w) \/ RunnerReturns(w) \/ RunCancelled(w)
  PROVE  CancelInv'
<1> DEFINE Step(from, to) ==
      /\ Goto(w, from, to) /\ SameRegistry /\ UNCHANGED clickVars
      /\ UNCHANGED <<job, handle, woken>> /\ UNCHANGED outcome
<1>1. \/ Step("starting", "completeCancelled") /\ cancelled[w]
      \/ Step("starting", "registering")
      \/ Step("running", "completeCancelled") /\ cancelled[w]
      \/ Step("running", "replying") \/ Step("running", "failing")
  BY DEF StartRun, RunnerReturns, RunCancelled, KeepLocals, CancelInv, CancelledAttemptsWereAsked
<1>2. ASSUME NEW from \in {"starting", "running"}, NEW to \in Attempting, Step(from, to),
             to = "completeCancelled" => cancelled[w]
      PROVE  CancelInv'
  BY <1>2, LoopStep, NobodyEnded, Places DEF Cancelling, Ending
<1> HIDE DEF Step
<1> QED  BY <1>1, <1>2, Places

(* An attempt at its end: its job is over, or on its way back.               *)
LEMMA CompletionKeeps ==
  ASSUME CancelInv, NEW w \in Worker, TaskInv',
         CompleteJob(w) \/ CompleteCancelledJob(w) \/ FailJob(w)
  PROVE  CancelInv'
<1>1. pc[w] \in Attempting /\ job[w] \in Job
  BY Places, BusyJob DEF CompleteJob, CompleteCancelledJob, FailJob, Goto, CancelInv
<1>2. /\ SameRegistry /\ UNCHANGED clickVars /\ UNCHANGED <<job, handle, woken>>
  BY DEF CompleteJob, CompleteCancelledJob, FailJob, KeepLocals
<1>3. CASE Goto(w, "completing", "removeCompleted") /\ End(job[w], "completed")
  <2>1. OnlyCancelledOnRequest'
    BY <1>1, <1>2, <1>3, NobodyCancelled
  <2> QED  BY <1>1, <1>2, <1>3, <2>1, EndedStays, LoopStep, Places DEF Cancelling, Ending
<1>4. CASE Goto(w, "completeCancelled", "removeCancelled") /\ End(job[w], "cancelled")
  <2>1. PICK c \in Click : Asks(c, job[w])
    BY <1>1, <1>4 DEF CancelInv, CancelledAttemptsWereAsked, Goto, Cancelling
  <2>2. OnlyCancelledOnRequest'
    BY <1>1, <1>2, <1>4, <2>1, CancelTypes
       DEF CancelInv, OnlyCancelledOnRequest, End, clickVars, Accepted, Asks
  <2> QED  BY <1>1, <1>2, <1>4, <2>2, EndedStays, LoopStep, Places DEF Cancelling, Ending
<1>5. CASE Goto(w, "failing", "removeRequeued") /\ UNCHANGED outcome
  BY <1>1, <1>2, <1>5, NobodyEnded, LoopStep, Places DEF Cancelling, Ending
<1>6. CASE Goto(w, "failing", "removeDead") /\ End(job[w], "dead")
  <2>1. OnlyCancelledOnRequest'
    BY <1>1, <1>2, <1>6, NobodyCancelled
  <2> QED  BY <1>1, <1>2, <1>6, <2>1, EndedStays, LoopStep, Places DEF Cancelling, Ending
<1> QED  BY <1>3, <1>4, <1>5, <1>6 DEF CompleteJob, CompleteCancelledJob, FailJob

LEMMA IterationEndKeeps ==
  ASSUME CancelInv, NEW w \in Worker, TaskInv',
         AnnounceCompleted(w) \/ AnnounceCancelled(w) \/ PostFailure(w)
  PROVE  CancelInv'
<1>1. /\ \E from \in {"announceCompleted", "announceCancelled", "postFailure"} : Goto(w, from, "loop")
      /\ SameRegistry /\ UNCHANGED clickVars /\ UNCHANGED outcome
      /\ job' = [job EXCEPT ![w] = None]
      /\ handle' = [handle EXCEPT ![w] = None] /\ woken' = [woken EXCEPT ![w] = FALSE]
  BY DEF AnnounceCompleted, AnnounceCancelled, PostFailure, EndIteration
<1> QED  BY <1>1, NobodyEnded, LoopStep, Places DEF Cancelling, Ending

-----------------------------------------------------------------------------
(* The steps that change the registry. *)
LEMMA AttachKeeps ==
  ASSUME CancelInv, NEW w \in Worker, TaskInv', Attach(w)
  PROVE  CancelInv'
<1> USE Places
<1> DEFINE j == job[w]
<1>1. /\ cancellation_requests \in [Job -> Click \cup {None}]
      /\ cancellations \in [Job -> Worker \cup {None}]
      /\ cancelled \in [Worker -> BOOLEAN]
      /\ pc \in [Worker -> Holding \cup Releasing \cup Resting]
      /\ handle \in [Worker -> Click \cup {None}]
  BY CancelTypes DEF CancelInv
<1>2. pc[w] = "claimed" /\ j \in Job /\ outcome[j] = "none"
  BY BusyJob, HeldJobsAreNotOver DEF CancelInv, Attach, Goto, Holding
<1>3. /\ cancellations' = [cancellations EXCEPT ![j] = w]
      /\ cancelled' = [cancelled EXCEPT ![w] = (cancellation_requests[j] # None)]
      /\ UNCHANGED <<cancellation_requests, job, woken, click_pc, click_job, outcome>>
  BY DEF Attach, Registry!AttachCancellation, Registry!CancelRequested, clickVars
<1>4. \/ /\ pc' = [pc EXCEPT ![w] = "completeCancelled"]
         /\ cancellation_requests[j] # None
         /\ handle' = [handle EXCEPT ![w] = cancellation_requests[j]]
      \/ pc' = [pc EXCEPT ![w] = "announceRunning"] /\ UNCHANGED handle
  BY DEF Attach, Goto, Registry!CancelRequested
<1>5. /\ pc'[w] \in {"completeCancelled", "announceRunning"}
      /\ pc'[w] = "completeCancelled" => cancellation_requests[j] # None
      /\ \A v \in Worker : v # w => /\ pc'[v] = pc[v] /\ handle'[v] = handle[v]
                                    /\ cancelled'[v] = cancelled[v]
      /\ cancelled'[w] <=> cancellation_requests[j] # None
      /\ cancellations'[j] = w
      /\ \A k \in Job : k # j => cancellations'[k] = cancellations[k]
      /\ handle'[w] # None => Asks(handle'[w], j)
  BY <1>1, <1>2, <1>3, <1>4 DEF CancelInv, RequestsHaveClicks, HandlesHaveClicks
<1>6. \A k \in Job : cancellations[k] # w
  BY <1>2 DEF CancelInv, TokensAreAttached
<1>7. TokensAreAttached' /\ TokensAgree'
  BY <1>2, <1>3, <1>5, <1>6 DEF CancelInv, TokensAreAttached, TokensAgree
(* A loop that attached before and is at the same job cannot hold it, nor have
   brought it to an end. *)
<1>8. ASSUME NEW v \in Worker, v # w, job[v] = j, pc[v] \in Attached
      PROVE  pc[v] = "removeRequeued"
  <2>1. pc[v] \notin Ending
    BY <1>2, <1>8 DEF CancelInv, EndingJobsAreOver
  <2>2. pc[v] \notin Attempting
    BY <1>2, <1>8 DEF CancelInv, TaskInv, ExclusiveExecution, Holders, Attempting, Holding
  <2> QED  BY <1>8, <2>1, <2>2 DEF Attached
<1>9. NewestTokenStays'
  <2> SUFFICES ASSUME NEW k \in Job, NEW u \in Worker, NEW v \in Worker,
                      cancellations'[k] = u, v # u, job'[v] = k, pc'[v] \in Attached
               PROVE  pc'[v] = "removeRequeued"
    BY DEF NewestTokenStays
  <2>1. v # w
    BY <1>3, <1>5
  <2>2. CASE k = j
    BY <1>3, <1>5, <1>8, <2>1, <2>2
  <2>3. CASE k # j
    BY <1>3, <1>5, <2>1, <2>3 DEF CancelInv, NewestTokenStays
  <2> QED  BY <2>2, <2>3
<1>10. EndingJobsAreOver'
  BY <1>3, <1>5 DEF CancelInv, EndingJobsAreOver, Ending
<1>11. RequestsHaveClicks'
  BY <1>3 DEF CancelInv, RequestsHaveClicks, Asks, Accepted
<1>12. HandlesHaveClicks'
  BY <1>3, <1>5 DEF CancelInv, HandlesHaveClicks, Asks, Accepted
<1>13. CancelledAttemptsWereAsked'
  <2>1. cancelled'[w] => \E c \in Click : Asks(c, j)
    BY <1>1, <1>2, <1>5 DEF CancelInv, RequestsHaveClicks
  <2>2. ~woken[w]
    BY <1>2 DEF CancelInv, CancelledAttemptsWereAsked
  <2> QED  BY <1>3, <1>5, <2>1, <2>2 DEF CancelInv, CancelledAttemptsWereAsked, Asks, Accepted, Cancelling
<1>14. OnlyCancelledOnRequest' /\ ClicksHaveJobs'
  BY <1>3 DEF CancelInv, OnlyCancelledOnRequest, Accepted, ClicksHaveJobs
<1> QED  BY <1>7, <1>9, <1>10, <1>11, <1>12, <1>13, <1>14 DEF CancelInv

(* remove by loop w.  Whichever loop's token it takes, no token or request is
   left for the job; a loop that goes on to name somebody knows whom. *)
LEMMA RemoveStep ==
  ASSUME CancelInv, NEW w \in Worker,
         NEW from \in Ending \cup {"removeRequeued"},
         NEW to \in {"announceCompleted", "announceCancelled", "announceFailed", "loop"},
         Goto(w, from, to), Registry!Remove(job[w]),
         UNCHANGED <<click_pc, click_job, outcome>>,
         NEW kept \in Click \cup {None},
         handle' = [handle EXCEPT ![w] = kept],
         \/ UNCHANGED <<job, woken>> /\ to # "loop"
         \/ /\ job' = [job EXCEPT ![w] = None] /\ kept = None
            /\ woken' = [woken EXCEPT ![w] = FALSE] /\ to = "loop",
         kept # None => Asks(kept, job[w]),
         to = "announceCancelled" => kept # None,
         TaskInv'
  PROVE  CancelInv'
<1> USE Places
<1> DEFINE j == job[w]
<1>1. /\ cancellation_requests \in [Job -> Click \cup {None}]
      /\ cancellations \in [Job -> Worker \cup {None}]
      /\ pc \in [Worker -> Holding \cup Releasing \cup Resting]
      /\ job \in [Worker -> Job \cup {None}]
      /\ handle \in [Worker -> Click \cup {None}]
      /\ woken \in [Worker -> BOOLEAN]
  BY CancelTypes DEF CancelInv
<1>2. pc[w] = from /\ j \in Job
  BY BusyJob DEF CancelInv, Goto, Ending
<1>3. /\ pc'[w] = to /\ handle'[w] = kept
      /\ \A v \in Worker : v # w => /\ pc'[v] = pc[v] /\ job'[v] = job[v]
                                    /\ handle'[v] = handle[v] /\ woken'[v] = woken[v]
      /\ cancellations'[j] = None /\ cancellation_requests'[j] = None
      /\ \A k \in Job : k # j => /\ cancellations'[k] = cancellations[k]
                                 /\ cancellation_requests'[k] = cancellation_requests[k]
      /\ cancelled' = cancelled
  BY <1>1, <1>2 DEF Goto, Registry!Remove
<1>4. None \notin Worker
  BY TaskAssumption
<1>5. \A k \in Job : k # j => cancellations[k] # w
  BY DEF CancelInv, TokensAreAttached
<1>6. TokensAreAttached' /\ TokensAgree'
  BY <1>3, <1>4, <1>5 DEF CancelInv, TokensAreAttached, TokensAgree
<1>7. NewestTokenStays'
  BY <1>3, <1>4, <1>5 DEF CancelInv, NewestTokenStays
<1>8. EndingJobsAreOver'
  BY <1>3 DEF CancelInv, EndingJobsAreOver, Ending
<1>9. RequestsHaveClicks'
  BY <1>3 DEF CancelInv, RequestsHaveClicks, Asks, Accepted
<1>10. HandlesHaveClicks'
  BY <1>3 DEF CancelInv, HandlesHaveClicks, Asks, Accepted
<1>11. CancelledAttemptsWereAsked'
  <2>1. woken'[w] => cancelled[w] /\ to \notin Unattached
    BY <1>1, <1>2 DEF CancelInv, CancelledAttemptsWereAsked, Ending
  <2> QED  BY <1>3, <2>1 DEF CancelInv, CancelledAttemptsWereAsked, Asks, Accepted, Cancelling
<1>12. OnlyCancelledOnRequest' /\ ClicksHaveJobs'
  BY DEF CancelInv, OnlyCancelledOnRequest, Accepted, ClicksHaveJobs
<1> QED  BY <1>6, <1>7, <1>8, <1>9, <1>10, <1>11, <1>12 DEF CancelInv

LEMMA RemoveKeeps ==
  ASSUME CancelInv, NEW w \in Worker, TaskInv',
         RemoveCompleted(w) \/ RemoveRequeued(w) \/ RemoveDead(w)
  PROVE  CancelInv'
<1> DEFINE kept == IF pc[w] = "removeRequeued" THEN None ELSE handle[w]
<1>1. /\ Registry!Remove(job[w]) /\ UNCHANGED <<click_pc, click_job, outcome>>
      /\ handle \in [Worker -> Click \cup {None}]
  BY CancelTypes DEF CancelInv, RemoveCompleted, RemoveRequeued, RemoveDead, clickVars
<1>2. kept \in Click \cup {None} /\ (kept # None => Asks(kept, job[w]))
  BY <1>1 DEF CancelInv, HandlesHaveClicks
<1>3. CASE RemoveRequeued(w)
  <2>1. /\ Goto(w, "removeRequeued", "loop") /\ kept = None
        /\ job' = [job EXCEPT ![w] = None] /\ handle' = [handle EXCEPT ![w] = kept]
        /\ woken' = [woken EXCEPT ![w] = FALSE]
    BY <1>3 DEF RemoveRequeued, EndIteration, Goto
  <2> DEFINE from == "removeRequeued"
             to == "loop"
  <2>2. Goto(w, from, to) /\ to # "announceCancelled" /\ to = "loop"
        /\ from \in Ending \cup {"removeRequeued"}
        /\ to \in {"announceCompleted", "announceCancelled", "announceFailed", "loop"}
    BY <2>1
  <2> HIDE DEF kept, from, to
  <2> QED  BY <1>1, <1>2, <2>1, <2>2, RemoveStep
<1>4. ASSUME NEW from \in Ending, NEW to \in {"announceCompleted", "announceFailed"},
             Goto(w, from, to), UNCHANGED <<job, handle, woken>>
      PROVE  CancelInv'
  <2>1. handle' = [handle EXCEPT ![w] = kept]
    BY <1>1, <1>4 DEF Goto, Ending
  <2>2. /\ to # "announceCancelled" /\ to # "loop"
        /\ from \in Ending \cup {"removeRequeued"}
        /\ to \in {"announceCompleted", "announceCancelled", "announceFailed", "loop"}
        /\ UNCHANGED <<job, woken>> /\ Goto(w, from, to)
    BY <1>4
  <2> HIDE DEF kept
  <2> QED  BY <1>1, <1>2, <2>1, <2>2, RemoveStep
<1>5. CASE RemoveCompleted(w)
  BY <1>4, <1>5 DEF RemoveCompleted, KeepLocals, Ending
<1>6. CASE RemoveDead(w)
  BY <1>4, <1>6 DEF RemoveDead, KeepLocals, Ending
<1> QED  BY <1>3, <1>5, <1>6

(* The record that is removed names who asked: a token that is still there is
   that of this loop, and its flag is set. *)
LEMMA RemoveCancelledKeeps ==
  ASSUME CancelInv, NEW w \in Worker, TaskInv', RemoveCancelled(w)
  PROVE  CancelInv'
<1> DEFINE j == job[w]
           removed == cancellation_requests[j] # None \/ cancellations[j] # None
           kept == IF removed THEN cancellation_requests[j] ELSE handle[w]
<1>1. /\ pc[w] = "removeCancelled" /\ Registry!Remove(j)
      /\ UNCHANGED <<click_pc, click_job, outcome>>
  BY DEF RemoveCancelled, EndIteration, Goto, clickVars
<1>2. /\ cancellation_requests \in [Job -> Click \cup {None}]
      /\ cancellations \in [Job -> Worker \cup {None}]
      /\ handle \in [Worker -> Click \cup {None}] /\ j \in Job /\ outcome[j] # "none"
  BY <1>1, CancelTypes, BusyJob, Places DEF CancelInv, EndingJobsAreOver, Ending
<1>3. kept \in Click \cup {None} /\ (kept # None => Asks(kept, j))
  BY <1>2 DEF CancelInv, HandlesHaveClicks, RequestsHaveClicks
<1>4. removed => cancellation_requests[j] # None
  <2> SUFFICES ASSUME cancellations[j] # None PROVE cancellation_requests[j] # None
    OBVIOUS
  <2>1. PICK v \in Worker : cancellations[j] = v
    BY <1>2
  <2>2. v = w
    BY <1>1, <1>2, <2>1, Places DEF CancelInv, NewestTokenStays, Attached, Ending
  <2>3. cancelled[w]
    BY <1>1 DEF CancelInv, CancelledAttemptsWereAsked, Cancelling
  <2> QED  BY <1>2, <2>1, <2>2, <2>3 DEF CancelInv, TokensAgree
<1>5. CASE /\ Goto(w, "removeCancelled", "announceCancelled")
           /\ removed \/ handle[w] # None
           /\ handle' = [handle EXCEPT ![w] = kept]
           /\ UNCHANGED <<job, woken>>
  <2>1. kept # None
    BY <1>4, <1>5
  <2> HIDE DEF kept, removed
  <2> QED  BY <1>1, <1>3, <1>5, <2>1, RemoveStep DEF Ending
<1>6. CASE EndIteration(w, "removeCancelled") /\ ~removed /\ handle[w] = None
  <2>1. /\ Goto(w, "removeCancelled", "loop") /\ kept = None
        /\ job' = [job EXCEPT ![w] = None] /\ handle' = [handle EXCEPT ![w] = kept]
        /\ woken' = [woken EXCEPT ![w] = FALSE]
    BY <1>6 DEF EndIteration
  <2> HIDE DEF kept, removed
  <2> QED  BY <1>1, <1>3, <2>1, RemoveStep DEF Ending
<1>7. \/ /\ Goto(w, "removeCancelled", "announceCancelled")
         /\ removed \/ handle[w] # None
         /\ handle' = [handle EXCEPT ![w] = IF removed THEN cancellation_requests[j] ELSE @]
         /\ UNCHANGED <<job, woken>>
      \/ EndIteration(w, "removeCancelled") /\ ~removed /\ handle[w] = None
  BY DEF RemoveCancelled, Registry!CancelRequested
<1>8. [handle EXCEPT ![w] = IF removed THEN cancellation_requests[j] ELSE @]
        = [handle EXCEPT ![w] = kept]
  OBVIOUS
<1> HIDE DEF removed, kept
<1> QED  BY <1>5, <1>6, <1>7, <1>8

(* request_cancel of click c: it reaches the token in the registry, if there is
   one, which is that of an attempt at the very job. *)
LEMMA CancelInFlightKeeps ==
  ASSUME CancelInv, NEW c \in Click, TaskInv', CancelInFlight(c)
  PROVE  CancelInv'
<1> USE Places
<1> DEFINE j == click_job[c]
<1>1. /\ cancellation_requests \in [Job -> Click \cup {None}]
      /\ cancellations \in [Job -> Worker \cup {None}]
      /\ cancelled \in [Worker -> BOOLEAN]
      /\ woken \in [Worker -> BOOLEAN]
      /\ handle \in [Worker -> Click \cup {None}]
      /\ click_pc \in [Click -> ClickPlaces]
      /\ \A w \in Worker : pc[w] \notin Resting => job[w] \in Job
  BY CancelTypes, BusyJob DEF CancelInv
<1>2. /\ click_pc[c] = "requesting" /\ click_pc' = [click_pc EXCEPT ![c] = "announceRequested"]
      /\ j \in Job
      /\ UNCHANGED <<click_job, pc, job, handle, outcome>>
      /\ woken' = [w \in Worker |->
                     woken[w] \/ (pc[w] = "running" /\ ~cancelled[w] /\ cancelled'[w])]
  BY DEF CancelInFlight, ClickGoto, CancelInv, ClicksHaveJobs
<1>3. Asks(c, j)' /\ \A d \in Click, k \in Job : Asks(d, k) => Asks(d, k)'
  BY <1>1, <1>2 DEF Asks, Accepted
<1>4. \/ UNCHANGED <<cancellation_requests, cancellations, cancelled>>
      \/ /\ cancellation_requests' = [cancellation_requests EXCEPT ![j] = c]
         /\ cancelled' = [w \in Worker |-> cancelled[w] \/ cancellations[j] = w]
         /\ UNCHANGED cancellations
  BY DEF CancelInFlight, Registry!RequestCancel, Registry!registryVars
<1>5. /\ UNCHANGED cancellations
      /\ \A w \in Worker : cancelled[w] => cancelled'[w]
  BY <1>1, <1>4
<1>6. ASSUME NEW w \in Worker, cancelled'[w], ~cancelled[w]
      PROVE  job[w] = j /\ j \in Job
  <2>1. cancellations[j] = w
    BY <1>1, <1>4, <1>6
  <2> QED  BY <1>2, <2>1 DEF CancelInv, TokensAreAttached
<1>7. TokensAreAttached' /\ NewestTokenStays'
  BY <1>2, <1>5 DEF CancelInv, TokensAreAttached, NewestTokenStays
<1>8. TokensAgree'
  <2> SUFFICES ASSUME NEW k \in Job, NEW w \in Worker, cancellations[k] = w
               PROVE  cancelled'[w] <=> cancellation_requests'[k] # None
    BY <1>5 DEF TokensAgree
  <2>1. cancelled[w] <=> cancellation_requests[k] # None
    BY DEF CancelInv, TokensAgree
  <2>2. cancellations[j] = w => k = j
    BY <1>2 DEF CancelInv, TokensAreAttached
  <2>3. c # None
    BY TaskAssumption
  <2> QED  BY <1>1, <1>2, <1>4, <2>1, <2>2, <2>3
<1>9. EndingJobsAreOver'
  BY <1>2 DEF CancelInv, EndingJobsAreOver
<1>10. RequestsHaveClicks'
  <2> SUFFICES ASSUME NEW k \in Job, cancellation_requests'[k] # None
               PROVE  Asks(cancellation_requests[k], k)'
    BY DEF RequestsHaveClicks
  <2>1. cancellation_requests'[k] = cancellation_requests[k] \/ (k = j /\ cancellation_requests'[k] = c)
    BY <1>1, <1>4
  <2>2. CASE cancellation_requests'[k] = cancellation_requests[k]
    <3>1. /\ cancellation_requests[k] \in Click
          /\ Asks(cancellation_requests[k], k)
      BY <1>1, <2>2 DEF CancelInv, RequestsHaveClicks
    <3> QED  BY <1>1, <1>2, <2>2, <3>1 DEF Asks, Accepted
  <2>3. CASE k = j /\ cancellation_requests'[k] = c
    BY <1>1, <1>2, <2>3 DEF Asks, Accepted
  <2> QED  BY <2>1, <2>2, <2>3
<1>11. HandlesHaveClicks'
  BY <1>1, <1>2, <1>3 DEF CancelInv, HandlesHaveClicks
<1>12. CancelledAttemptsWereAsked'
  <2> SUFFICES ASSUME NEW w \in Worker
               PROVE  /\ pc[w] \in Attempting /\ cancelled'[w] => \E d \in Click : Asks(d, job[w])'
                      /\ woken'[w] => cancelled'[w] /\ pc[w] \notin Unattached
                      /\ pc[w] \in Cancelling => cancelled'[w]
    BY <1>2 DEF CancelledAttemptsWereAsked
  <2>1. pc[w] \in Attempting /\ cancelled'[w] => \E d \in Click : Asks(d, job[w])'
    <3> SUFFICES ASSUME pc[w] \in Attempting, cancelled'[w] PROVE \E d \in Click : Asks(d, job[w])'
      OBVIOUS
    <3>1. CASE cancelled[w]
      <4>1. PICK d \in Click : Asks(d, job[w])
        BY <3>1 DEF CancelInv, CancelledAttemptsWereAsked
      <4> QED  BY <1>1, <1>2, <1>3, <4>1
    <3>2. CASE ~cancelled[w]
      BY <1>2, <1>3, <1>6, <3>2
    <3> QED  BY <3>1, <3>2
  <2>2. woken'[w] => cancelled'[w] /\ pc[w] \notin Unattached
    BY <1>2, <1>5 DEF CancelInv, CancelledAttemptsWereAsked
  <2>3. pc[w] \in Cancelling => cancelled'[w]
    BY <1>5 DEF CancelInv, CancelledAttemptsWereAsked
  <2> QED  BY <2>1, <2>2, <2>3
<1>13. OnlyCancelledOnRequest' /\ ClicksHaveJobs'
  BY <1>1, <1>2 DEF CancelInv, OnlyCancelledOnRequest, Accepted, ClicksHaveJobs
<1> QED  BY <1>7, <1>8, <1>9, <1>10, <1>11, <1>12, <1>13 DEF CancelInv

-----------------------------------------------------------------------------
(* The other steps of the clicks, and those of the handlers, the timers and the
   operator, move no loop. *)
LEMMA ClickCancelKeeps ==
  ASSUME CancelInv, NEW c \in Click, NEW j \in Job, TaskInv', ClickCancel(c, j)
  PROVE  CancelInv'
<1>1. /\ click_pc[c] = "none"
      /\ click_pc' = [click_pc EXCEPT ![c] = "clicked"]
      /\ click_job' = [click_job EXCEPT ![c] = j]
      /\ SameRegistry /\ UNCHANGED <<pc, job, handle, woken, outcome>>
  BY DEF ClickCancel, workerVars
<1>2. \A d \in Click : d # c => click_pc'[d] = click_pc[d] /\ click_job'[d] = click_job[d]
  BY <1>1, CancelTypes DEF CancelInv
<1>3. \A d \in Click, k \in Job : Asks(d, k) => Asks(d, k)'
  BY <1>1, <1>2 DEF Asks, Accepted
<1>4. ClicksHaveJobs'
  BY <1>1, <1>2, CancelTypes DEF CancelInv, ClicksHaveJobs
<1>5. OnlyCancelledOnRequest'
  BY <1>1, <1>2 DEF CancelInv, OnlyCancelledOnRequest, Accepted
<1> QED  BY <1>1, <1>3, <1>4, <1>5, BystanderStep

LEMMA CancelInQueueKeeps ==
  ASSUME CancelInv, NEW c \in Click, TaskInv', CancelInQueue(c)
  PROVE  CancelInv'
<1> DEFINE j == click_job[c]
<1>1. /\ click_pc[c] = "clicked" /\ j \in Job
      /\ click_pc'[c] \in {"announceCancelled", "requesting", "ignored"}
      /\ \A d \in Click : d # c => click_pc'[d] = click_pc[d]
      /\ SameRegistry /\ UNCHANGED <<pc, job, handle, woken, click_job>>
  BY CancelTypes DEF CancelInQueue, ClickGoto, workerVars, CancelInv, ClicksHaveJobs
<1>2. \/ End(j, "cancelled") /\ click_pc'[c] = "announceCancelled"
      \/ UNCHANGED outcome
  BY CancelTypes DEF CancelInQueue, ClickGoto, CancelInv
<1>3. \A k \in Job : outcome[k] # "none" => outcome'[k] # "none"
  BY <1>1, <1>2, EndedStays
<1>4. \A d \in Click, k \in Job : Asks(d, k) => Asks(d, k)'
  BY <1>1 DEF Asks, Accepted
<1>5. ClicksHaveJobs'
  BY <1>1 DEF CancelInv, ClicksHaveJobs
<1>6. OnlyCancelledOnRequest'
  BY <1>1, <1>2, CancelTypes DEF CancelInv, OnlyCancelledOnRequest, End, Accepted
<1> QED  BY <1>1, <1>3, <1>4, <1>5, <1>6, BystanderStep

LEMMA AnnounceClickKeeps ==
  ASSUME CancelInv, NEW c \in Click, TaskInv', AnnounceClick(c)
  PROVE  CancelInv'
<1>1. /\ \/ click_pc[c] = "announceCancelled" /\ click_pc'[c] = "cancelled"
         \/ click_pc[c] = "announceRequested" /\ click_pc'[c] = "requested"
      /\ \A d \in Click : d # c => click_pc'[d] = click_pc[d]
      /\ SameRegistry /\ UNCHANGED <<pc, job, handle, woken, click_job, outcome>>
  BY CancelTypes DEF AnnounceClick, ClickGoto, workerVars, CancelInv
<1>2. \A d \in Click, k \in Job : Asks(d, k) => Asks(d, k)'
  BY <1>1 DEF Asks, Accepted
<1>3. ClicksHaveJobs'
  BY <1>1 DEF CancelInv, ClicksHaveJobs
<1>4. OnlyCancelledOnRequest'
  BY <1>1 DEF CancelInv, OnlyCancelledOnRequest, Accepted
<1> QED  BY <1>1, <1>2, <1>3, <1>4, BystanderStep

LEMMA OtherStepsKeep ==
  ASSUME CancelInv, TaskInv',
         \/ Stop
         \/ \E j \in Job : IngressStep(j) \/ BackoffTimer(j)
  PROVE  CancelInv'
<1>1. SameRegistry /\ UNCHANGED <<pc, job, handle, woken, click_pc, click_job, outcome>>
  BY DEF Stop, IngressStep, PostControlMessage, EnqueueJob, BackoffTimer, workerVars, clickVars
<1>2. ClicksHaveJobs' /\ OnlyCancelledOnRequest'
  BY <1>1 DEF CancelInv, ClicksHaveJobs, OnlyCancelledOnRequest, Accepted
<1>3. \A d \in Click, k \in Job : Asks(d, k) => Asks(d, k)'
  BY <1>1 DEF Asks, Accepted
<1> QED  BY <1>1, <1>2, <1>3, BystanderStep

-----------------------------------------------------------------------------
LEMMA CancelInitInv == TaskInit => CancelInv
<1> SUFFICES ASSUME TaskInit PROVE CancelInv
  OBVIOUS
<1>1. TaskInv
  BY TaskInitInv
<1>2. /\ \A j \in Job : /\ cancellation_requests[j] = None /\ cancellations[j] = None
                        /\ outcome[j] = "none"
      /\ \A w \in Worker : pc[w] = "loop" /\ handle[w] = None /\ woken[w] = FALSE
      /\ \A c \in Click : click_pc[c] = "none"
  BY DEF TaskInit, Registry!RegistryInit
<1>3. TokensAreAttached /\ TokensAgree /\ NewestTokenStays
  BY <1>2, TaskAssumption DEF TokensAreAttached, TokensAgree, NewestTokenStays
<1>4. EndingJobsAreOver /\ RequestsHaveClicks /\ HandlesHaveClicks
  BY <1>2 DEF EndingJobsAreOver, RequestsHaveClicks, HandlesHaveClicks, Ending
<1>5. CancelledAttemptsWereAsked /\ ClicksHaveJobs /\ OnlyCancelledOnRequest
  BY <1>2, Places DEF CancelledAttemptsWereAsked, ClicksHaveJobs, OnlyCancelledOnRequest,
     Cancelling
<1> QED  BY <1>1, <1>3, <1>4, <1>5 DEF CancelInv

LEMMA CancelStutter ==
  ASSUME CancelInv, TaskInv', UNCHANGED taskVars PROVE CancelInv'
<1>1. SameRegistry /\ UNCHANGED <<pc, job, handle, woken, click_pc, click_job, outcome>>
  BY DEF taskVars, workerVars, clickVars, SameRegistry
<1>2. ClicksHaveJobs' /\ OnlyCancelledOnRequest'
  BY <1>1 DEF CancelInv, ClicksHaveJobs, OnlyCancelledOnRequest, Accepted
<1>3. \A d \in Click, k \in Job : Asks(d, k) => Asks(d, k)'
  BY <1>1 DEF Asks, Accepted
<1> QED  BY <1>1, <1>2, <1>3, BystanderStep

LEMMA CancelStepInv == CancelInv /\ [TaskNext]_taskVars => CancelInv'
<1> SUFFICES ASSUME CancelInv, [TaskNext]_taskVars PROVE CancelInv'
  OBVIOUS
<1>1. TaskInv'
  BY TaskStepInv DEF CancelInv
<1>2. ASSUME NEW w \in Worker, WorkerStep(w) PROVE CancelInv'
  <2>1. \/ CheckRunning(w) \/ ClaimNothing(w) \/ AnnounceRunning(w) \/ AwaitNotification(w)
        \/ PostReport(w) \/ AnnounceFailed(w)
        \/ ClaimJob(w) \/ Attach(w) \/ StartRun(w) \/ RunnerReturns(w) \/ RunCancelled(w)
        \/ CompleteJob(w) \/ CompleteCancelledJob(w) \/ FailJob(w)
        \/ AnnounceCompleted(w) \/ AnnounceCancelled(w) \/ PostFailure(w)
        \/ RemoveCompleted(w) \/ RemoveRequeued(w) \/ RemoveDead(w) \/ RemoveCancelled(w)
    BY <1>2 DEF WorkerStep, WorkerProgress
  <2> QED
    BY <1>1, <2>1, QuietWorkerSteps, ClaimJobKeeps, AttachKeeps, RunEndsKeeps,
       CompletionKeeps, IterationEndKeeps, RemoveKeeps, RemoveCancelledKeeps
<1>3. ASSUME NEW c \in Click, ClickStep(c) \/ \E j \in Job : ClickCancel(c, j) PROVE CancelInv'
  BY <1>1, <1>3, CancelInQueueKeeps, CancelInFlightKeeps, AnnounceClickKeeps, ClickCancelKeeps
     DEF ClickStep
<1>4. CASE \/ Stop
           \/ \E j \in Job : IngressStep(j) \/ BackoffTimer(j)
  BY <1>1, <1>4, OtherStepsKeep
<1>5. CASE UNCHANGED taskVars
  BY <1>1, <1>5, CancelStutter
<1> QED  BY <1>2, <1>3, <1>4, <1>5 DEF TaskNext

-----------------------------------------------------------------------------
(* Where the clean-up of an attempt is over before its job is claimed again, an
   attempt's own token is the one in the registry, and a request is seen. *)
Waiting == Range(delayed_jobs) \ ready

RequeuedJobsWait ==
  \A w \in Worker : pc[w] = "removeRequeued" => outcome[job[w]] # "none" \/ job[w] \in Waiting

AttemptsAreAttached == \A w \in Worker : pc[w] \in Attempting => cancellations[job[w]] = w

ReachInv ==
  /\ CancelInv
  /\ RequeuedJobsWait
  /\ AttemptsAreAttached

(* A job goes on waiting until its own backoff elapses, or it is cancelled.   *)
LEMMA WaitingStays ==
  ASSUME QueueInv, NEW j \in Waiting,
         \/ UNCHANGED <<delayed_jobs, ready>>
         \/ \E k \in Job : \/ Claim(k) \/ CancelNotQueued(k)
                           \/ k # j /\ (CancelQueued(k) \/ BackoffElapses(k))
                           \/ \E m \in Nat : FailRequeued(k, m)
  PROVE  j \in Waiting'
<1> USE DEF Waiting, QueueInv
<1>1. CASE UNCHANGED <<delayed_jobs, ready>>
  BY <1>1
<1>2. ASSUME NEW k \in Job, Claim(k) \/ CancelNotQueued(k) PROVE j \in Waiting'
  <2>1. PICK delayed \in StillDelayed, pending \in WithReady : delayed_jobs' = delayed /\ ready' = {}
    BY <1>2 DEF Claim, CancelNotQueued
  <2> QED  BY <2>1, PromotionMovesReady
<1>3. ASSUME NEW k \in Job, k # j, CancelQueued(k) PROVE j \in Waiting'
  <2>1. PICK delayed \in StillDelayed, pending \in WithReady :
          /\ ready' = {}
          /\ delayed_jobs' = delayed \/ delayed_jobs' \in Keeping(delayed, Range(delayed) \ {k})
    BY <1>3 DEF CancelQueued
  <2>2. delayed \in Seq(Job) /\ IsInjective(delayed) /\ Range(delayed) = Range(delayed_jobs) \ ready
    BY PromotionMovesReady
  <2>3. Range(delayed) \ {k} \in SUBSET Range(delayed)
    OBVIOUS
  <2> QED  BY <1>3, <2>1, <2>2, <2>3, KeepingIsExact
<1>4. ASSUME NEW k \in Job, k # j, BackoffElapses(k) PROVE j \in Waiting'
  BY <1>4 DEF BackoffElapses
<1>5. ASSUME NEW k \in Job, NEW m \in Nat, FailRequeued(k, m) PROVE j \in Waiting'
  <2>1. k \notin Range(delayed_jobs) /\ delayed_jobs \in Seq(Job) /\ IsInjective(delayed_jobs)
    BY <1>5 DEF FailRequeued, EachJobInOnePlace, QueueTypeOK
  <2>2. Range(Append(delayed_jobs, k)) = Range(delayed_jobs) \cup {k}
    BY <2>1, InjectiveAppend
  <2> QED  BY <1>5, <2>2 DEF FailRequeued
<1> QED  BY <1>1, <1>2, <1>3, <1>4, <1>5

(* What a step of a loop may do to the places, the tokens and the waiting jobs. *)
LEMMA LoopMoves ==
  ASSUME CancelInv, NEW w \in Worker, WorkerStep(w)
  PROVE  /\ \A v \in Worker : v # w => pc'[v] = pc[v] /\ job'[v] = job[v]
         /\ pc'[w] \in Attempting => (pc[w] \in Attempting /\ job'[w] = job[w]) \/ Attach(w)
         /\ pc'[w] = "removeRequeued" => FailJob(w)
         /\ \/ UNCHANGED cancellations
            \/ Attach(w)
            \/ /\ pc[w] \in Ending \cup {"removeRequeued"} /\ pc'[w] \notin Attempting
               /\ Registry!Remove(job[w])
         /\ \/ UNCHANGED <<delayed_jobs, ready>>
            \/ FailJob(w)
            \/ \E j \in Job : Claim(j)
<1> USE Places
<1>1. pc \in [Worker -> Holding \cup Releasing \cup Resting] /\ job \in [Worker -> Job \cup {None}]
  BY CancelTypes DEF CancelInv
<1> DEFINE Quiet(from, to) ==
      /\ Goto(w, from, to) /\ UNCHANGED <<cancellations, delayed_jobs, ready>>
      /\ UNCHANGED job \/ (to \notin Attempting /\ \E j \in Job \cup {None} : job' = [job EXCEPT ![w] = j])
      /\ to \in Attempting => from \in Attempting
      /\ to # "removeRequeued"
           Removes(from, to) ==
      /\ Goto(w, from, to) /\ UNCHANGED <<delayed_jobs, ready>> /\ Registry!Remove(job[w])
      /\ UNCHANGED job \/ job' = [job EXCEPT ![w] = None]
      /\ from \in Ending \cup {"removeRequeued"}
      /\ to \notin Attempting \cup {"removeRequeued"}
<1>2. ASSUME NEW from, NEW to, Quiet(from, to) \/ Removes(from, to)
      PROVE  /\ \A v \in Worker : v # w => pc'[v] = pc[v] /\ job'[v] = job[v]
             /\ pc'[w] \in Attempting => pc[w] \in Attempting /\ job'[w] = job[w]
             /\ pc'[w] # "removeRequeued"
             /\ UNCHANGED <<delayed_jobs, ready>>
             /\ \/ UNCHANGED cancellations
                \/ /\ pc[w] \in Ending \cup {"removeRequeued"} /\ pc'[w] \notin Attempting
                   /\ Registry!Remove(job[w])
  BY <1>1, <1>2 DEF Goto
<1>3. CASE \/ CheckRunning(w) \/ ClaimNothing(w) \/ AnnounceRunning(w) \/ StartRun(w)
           \/ AwaitNotification(w) \/ RunnerReturns(w) \/ RunCancelled(w) \/ PostReport(w)
           \/ AnnounceFailed(w)
  <2>1. \E from, to : Quiet(from, to)
    BY <1>3 DEF CheckRunning, ClaimNothing, AnnounceRunning, StartRun, AwaitNotification,
       RunnerReturns, RunCancelled, PostReport, AnnounceFailed, KeepLocals, SameRegistry, queueVars
  <2> HIDE DEF Quiet, Removes
  <2> QED  BY <1>2, <2>1
<1>4. CASE AnnounceCompleted(w) \/ AnnounceCancelled(w) \/ PostFailure(w)
  <2>1. \E from, to : Quiet(from, to)
    BY <1>4 DEF AnnounceCompleted, AnnounceCancelled, PostFailure, EndIteration, SameRegistry,
       queueVars
  <2> HIDE DEF Quiet, Removes
  <2> QED  BY <1>2, <2>1
<1>5. CASE CompleteJob(w) \/ CompleteCancelledJob(w)
  <2>1. \E from, to : Quiet(from, to)
    BY <1>5 DEF CompleteJob, CompleteCancelledJob, Complete, KeepLocals, SameRegistry, Ending
  <2> HIDE DEF Quiet, Removes
  <2> QED  BY <1>2, <2>1
<1>6. CASE \/ RemoveCompleted(w) \/ RemoveCancelled(w) \/ RemoveRequeued(w) \/ RemoveDead(w)
  <2>1. \E from, to : Removes(from, to)
    BY <1>6 DEF RemoveCompleted, RemoveCancelled, RemoveRequeued, RemoveDead, KeepLocals,
       EndIteration, queueVars, Ending
  <2> HIDE DEF Quiet, Removes
  <2> QED  BY <1>2, <2>1
<1>7. CASE ClaimJob(w)
  BY <1>1, <1>7 DEF ClaimJob, Goto, SameRegistry
<1>8. CASE Attach(w)
  BY <1>1, <1>8 DEF Attach, Goto, queueVars
<1>9. CASE FailJob(w)
  BY <1>1, <1>9 DEF FailJob, Goto, SameRegistry, KeepLocals
<1> QED  BY <1>3, <1>4, <1>5, <1>6, <1>7, <1>8, <1>9 DEF WorkerStep, WorkerProgress

(* A job that failed and is to be tried again waits.                        *)
LEMMA FailedJobWaits ==
  ASSUME TaskInv, NEW w \in Worker, FailJob(w), pc'[w] = "removeRequeued"
  PROVE  /\ \E m \in Nat : FailRequeued(job[w], m)
         /\ job[w] \in Job /\ job'[w] = job[w] /\ job[w] \in Waiting'
<1>1. pc \in [Worker -> Holding \cup Releasing \cup Resting] /\ job[w] \in Job
  BY BusyJob, CancelTypes DEF FailJob, Goto, Resting
<1>2. FailRequeued(job[w], EffectiveMaxRetry(w)) /\ job' = job
  BY <1>1 DEF FailJob, Goto, KeepLocals
<1>3. EffectiveMaxRetry(w) \in Nat
  BY <1>1, QueueAssumption DEF EffectiveMaxRetry, TaskInv, TaskTypeOK, QueueTypeOK
<1>4. job[w] \notin Range(delayed_jobs) /\ delayed_jobs \in Seq(Job) /\ IsInjective(delayed_jobs)
  BY <1>2 DEF FailRequeued, EachJobInOnePlace, TaskInv, TaskTypeOK, QueueTypeOK
<1>5. job[w] \notin ready
  BY <1>4 DEF TaskInv, ReadyAreDelayed
<1>6. Range(Append(delayed_jobs, job[w])) = Range(delayed_jobs) \cup {job[w]}
  BY <1>1, <1>4, InjectiveAppend
<1> QED  BY <1>1, <1>2, <1>3, <1>5, <1>6 DEF FailRequeued, Waiting

LEMMA OverStays ==
  ASSUME CancelInv, TaskNext
  PROVE  \A j \in Job : outcome[j] # "none" => outcome'[j] # "none"
<1> DEFINE Stays == \A j \in Job : outcome[j] # "none" => outcome'[j] # "none"
<1>1. ASSUME NEW j, \E how \in Outcomes : End(j, how) PROVE Stays
  BY <1>1, CancelTypes DEF CancelInv, End, Outcomes
<1>2. UNCHANGED outcome => Stays
  OBVIOUS
<1>3. ASSUME NEW w \in Worker, WorkerStep(w)
      PROVE  UNCHANGED outcome \/ \E how \in Outcomes : End(job[w], how)
  <2>1. CASE CompleteJob(w) \/ CompleteCancelledJob(w) \/ FailJob(w)
    BY <2>1 DEF CompleteJob, CompleteCancelledJob, FailJob, Outcomes
  <2>2. CASE \/ CheckRunning(w) \/ ClaimJob(w) \/ ClaimNothing(w) \/ Attach(w)
             \/ AnnounceRunning(w) \/ StartRun(w) \/ AwaitNotification(w)
             \/ RunnerReturns(w) \/ RunCancelled(w) \/ PostReport(w)
    BY <2>2 DEF CheckRunning, ClaimJob, ClaimNothing, Attach, AnnounceRunning, StartRun,
       AwaitNotification, RunnerReturns, RunCancelled, PostReport
  <2>3. CASE \/ RemoveCompleted(w) \/ AnnounceCompleted(w) \/ RemoveCancelled(w)
             \/ AnnounceCancelled(w) \/ RemoveRequeued(w) \/ RemoveDead(w)
             \/ AnnounceFailed(w) \/ PostFailure(w)
    BY <2>3 DEF RemoveCompleted, AnnounceCompleted, RemoveCancelled, AnnounceCancelled,
       RemoveRequeued, RemoveDead, AnnounceFailed, PostFailure
  <2> QED  BY <1>3, <2>1, <2>2, <2>3 DEF WorkerStep, WorkerProgress
<1>4. ASSUME NEW c \in Click, ClickStep(c) \/ \E j \in Job : ClickCancel(c, j)
      PROVE  UNCHANGED outcome \/ \E how \in Outcomes : End(click_job[c], how)
  BY <1>4 DEF ClickStep, CancelInQueue, CancelInFlight, AnnounceClick, ClickCancel, Outcomes
<1>5. Stop \/ (\E j \in Job : IngressStep(j) \/ BackoffTimer(j)) => UNCHANGED outcome
  BY DEF Stop, IngressStep, PostControlMessage, EnqueueJob, BackoffTimer
<1> HIDE DEF Stays
<1>6. Stays
  BY <1>1, <1>2, <1>3, <1>4, <1>5 DEF TaskNext
<1> QED  BY <1>6 DEF Stays

(* Of a loop that was to clean up, and still is, the job goes on waiting. *)
LEMMA RequeuedJobStays ==
  ASSUME ReachInv, BackoffOutlastsCleanup, TaskNext,
         NEW w \in Worker, pc[w] = "removeRequeued", pc'[w] = "removeRequeued", job'[w] = job[w]
  PROVE  (outcome[job[w]] # "none" \/ job[w] \in Waiting)'
<1> DEFINE j == job[w]
<1>1. CancelInv /\ TaskInv /\ QueueInv
  BY TaskInvQueue DEF ReachInv, CancelInv
<1>2. j \in Job
  BY <1>1, BusyJob DEF Resting
<1>3. CASE outcome[j] # "none"
  BY <1>1, <1>2, <1>3, OverStays
<1>4. CASE j \in Waiting
  <2>1. ASSUME \/ UNCHANGED <<delayed_jobs, ready>>
               \/ \E k \in Job : \/ Claim(k) \/ CancelNotQueued(k)
                                 \/ k # j /\ (CancelQueued(k) \/ BackoffElapses(k))
                                 \/ \E m \in Nat : FailRequeued(k, m)
        PROVE  j \in Waiting'
    BY <1>1, <1>4, <2>1, WaitingStays
  <2>2. ASSUME NEW v \in Worker, WorkerStep(v) PROVE j \in Waiting'
    <3>1. \/ UNCHANGED <<delayed_jobs, ready>> \/ FailJob(v) \/ \E k \in Job : Claim(k)
      BY <1>1, <2>2, LoopMoves
    <3>2. ASSUME FailJob(v) PROVE j \in Waiting'
      <4>1. CASE pc'[v] = "removeRequeued"
        BY <1>1, <2>1, <3>2, <4>1, FailedJobWaits
      <4>2. CASE pc'[v] # "removeRequeued"
        <5>1. UNCHANGED <<delayed_jobs, ready>>
          BY <1>1, <3>2, <4>2, CancelTypes DEF FailJob, FailDeadLetter, Goto
        <5> QED  BY <2>1, <5>1
      <4> QED  BY <4>1, <4>2
    <3> QED  BY <2>1, <3>1, <3>2
  <2>3. ASSUME NEW k \in Job, IngressStep(k) PROVE j \in Waiting'
    <3>1. UNCHANGED <<delayed_jobs, ready>>
      BY <2>3 DEF IngressStep, PostControlMessage, EnqueueJob, Enqueue, queueVars
    <3> QED  BY <2>1, <3>1
  <2>4. ASSUME NEW k \in Job, BackoffTimer(k) PROVE j \in Waiting'
    <3>1. k # j /\ BackoffElapses(k)
      BY <2>4 DEF BackoffTimer
    <3> QED  BY <2>1, <3>1
  <2>5. ASSUME NEW c \in Click, ClickStep(c) \/ \E k \in Job : ClickCancel(c, k)
        PROVE  j \in Waiting' \/ outcome'[j] # "none"
    <3>1. CASE CancelInQueue(c)
      <4>1. click_job[c] \in Job
        BY <1>1, <3>1 DEF CancelInQueue, ClickGoto, CancelInv, ClicksHaveJobs
      <4>2. CASE CancelQueued(click_job[c]) /\ End(click_job[c], "cancelled")
        <5>1. click_job[c] = j => outcome'[j] # "none"
          BY <1>1, <4>1, <4>2, EndedStays
        <5> QED  BY <2>1, <4>1, <4>2, <5>1
      <4>3. CASE CancelNotQueued(click_job[c])
        BY <2>1, <4>1, <4>3
      <4> QED  BY <3>1, <4>2, <4>3 DEF CancelInQueue, CancelAlreadyClaimed, CancelNotFound
    <3>2. CASE CancelInFlight(c) \/ AnnounceClick(c) \/ \E k \in Job : ClickCancel(c, k)
      <4>1. UNCHANGED <<delayed_jobs, ready>>
        BY <3>2 DEF CancelInFlight, AnnounceClick, ClickCancel, queueVars
      <4> QED  BY <2>1, <4>1
    <3> QED  BY <2>5, <3>1, <3>2 DEF ClickStep
  <2>6. CASE Stop
    <3>1. UNCHANGED <<delayed_jobs, ready>>
      BY <2>6 DEF Stop, queueVars
    <3> QED  BY <2>1, <3>1
  <2> QED  BY <2>2, <2>3, <2>4, <2>5, <2>6 DEF TaskNext
<1> QED  BY <1>3, <1>4 DEF ReachInv, RequeuedJobsWait

LEMMA BystandersMove ==
  ASSUME \/ Stop
         \/ \E j \in Job : IngressStep(j) \/ BackoffTimer(j)
         \/ \E c \in Click : ClickStep(c) \/ \E j \in Job : ClickCancel(c, j)
  PROVE  UNCHANGED <<pc, job, cancellations>>
BY DEF Stop, IngressStep, PostControlMessage, EnqueueJob, BackoffTimer, ClickStep, CancelInQueue,
   CancelInFlight, AnnounceClick, ClickCancel, SameRegistry, workerVars, Registry!RequestCancel,
   Registry!registryVars

LEMMA ReachInitInv == TaskInit => ReachInv
BY CancelInitInv, Places DEF TaskInit, ReachInv, RequeuedJobsWait, AttemptsAreAttached

LEMMA ReachStepInv == BackoffOutlastsCleanup /\ ReachInv /\ [TaskNext]_taskVars => ReachInv'
<1> SUFFICES ASSUME BackoffOutlastsCleanup, ReachInv, [TaskNext]_taskVars PROVE ReachInv'
  OBVIOUS
<1>1. CancelInv /\ CancelInv' /\ TaskInv /\ TaskInv'
  BY CancelStepInv DEF ReachInv, CancelInv
<1>2. CASE UNCHANGED taskVars
  BY <1>1, <1>2 DEF taskVars, workerVars, queueVars, ReachInv, RequeuedJobsWait,
     AttemptsAreAttached, Waiting
<1>3. CASE TaskNext
  <2>1. ASSUME NEW w \in Worker, pc'[w] = "removeRequeued"
        PROVE  (outcome[job[w]] # "none" \/ job[w] \in Waiting)'
    <3>1. CASE pc[w] = "removeRequeued" /\ job'[w] = job[w]
      BY <1>3, <2>1, <3>1, RequeuedJobStays
    <3>2. CASE FailJob(w)
      BY <1>1, <2>1, <3>2, FailedJobWaits
    <3> QED  BY <1>1, <1>3, <2>1, <3>1, <3>2, LoopMoves, BystandersMove DEF TaskNext
  <2>2. ASSUME NEW w \in Worker, pc'[w] \in Attempting
        PROVE  cancellations'[job'[w]] = w
    <3>1. CASE UNCHANGED <<pc, job, cancellations>>
      BY <2>2, <3>1 DEF ReachInv, AttemptsAreAttached
    <3>2. ASSUME NEW v \in Worker, WorkerStep(v) PROVE cancellations'[job'[w]] = w
      <4>1. CASE Attach(w)
        <5>1. job[w] \in Job
          BY <1>1, <4>1, BusyJob DEF Attach, Goto, Resting
        <5> QED  BY <1>1, <4>1, <5>1, CancelTypes DEF Attach, Registry!AttachCancellation
      <4>2. CASE pc[w] \in Attempting /\ job'[w] = job[w]
        <5>1. /\ job[w] \in Job /\ outcome[job[w]] = "none" /\ job[w] \in claimed_jobs
              /\ cancellations[job[w]] = w
          BY <1>1, <4>2, BusyJob, HeldJobsAreNotOver, Places
             DEF TaskInv, ExclusiveExecution, Holders, Attempting, ReachInv, AttemptsAreAttached
        <5>2. CASE UNCHANGED cancellations
          BY <4>2, <5>1, <5>2
        <5>3. CASE Attach(v)
          <6>1. pc[v] = "claimed" /\ job[v] # job[w]
            BY <1>1, <4>2, <5>3, Places
               DEF Attach, Goto, TaskInv, ExclusiveExecution, Holders, Holding, Attempting
          <6> QED  BY <1>1, <4>2, <5>1, <5>3, <6>1, CancelTypes DEF Attach, Registry!AttachCancellation
        <5>4. CASE pc[v] \in Ending \cup {"removeRequeued"} /\ Registry!Remove(job[v])
          <6>1. job[v] # job[w]
            <7>1. CASE pc[v] \in Ending
              BY <1>1, <5>1, <7>1 DEF CancelInv, EndingJobsAreOver
            <7>2. CASE pc[v] = "removeRequeued"
              BY <1>1, <5>1, <7>2
                 DEF ReachInv, RequeuedJobsWait, Waiting, TaskInv, EachJobInOnePlace
            <7> QED  BY <5>4, <7>1, <7>2
          <6> QED  BY <1>1, <4>2, <5>1, <5>4, <6>1, CancelTypes DEF Registry!Remove
        <5> QED  BY <1>1, <3>2, <5>2, <5>3, <5>4, LoopMoves
      <4> QED
        BY <1>1, <2>2, <3>2, <4>1, <4>2, LoopMoves
    <3> QED  BY <1>3, <3>1, <3>2, BystandersMove DEF TaskNext
  <2> QED  BY <1>1, <2>1, <2>2 DEF ReachInv, RequeuedJobsWait, AttemptsAreAttached
<1> QED  BY <1>2, <1>3

-----------------------------------------------------------------------------
(* A loop that is to call its task completed has posted the report. *)
Telling == {"completing", "removeCompleted", "announceCompleted"}

ReportInv ==
  /\ TaskInv
  /\ \A w \in Worker : pc[w] \in Telling => job[w] \in reported
  /\ CompletedMeansReported

LEMMA ReportMoves ==
  ASSUME TaskInv, NEW w \in Worker, WorkerStep(w)
  PROVE  /\ reported \subseteq reported'
         /\ \A v \in Worker : v # w => pc'[v] = pc[v] /\ job'[v] = job[v]
         /\ pc'[w] \in Telling => /\ job'[w] = job[w]
                                  /\ pc[w] \in Telling \/ job[w] \in reported'
         /\ \A j \in Job :
              outcome'[j] = "completed" \/ message'[j] = "Completed" =>
                \/ outcome[j] = "completed" \/ message[j] = "Completed"
                \/ j = job[w] /\ pc[w] \in Telling
<1> USE DEF Telling
<1>1. /\ pc \in [Worker -> Holding \cup Releasing \cup Resting]
      /\ job \in [Worker -> Job \cup {None}]
      /\ outcome \in [Job -> Outcomes \cup {"none"}]
      /\ message \in [Job -> Messages]
  BY DEF TaskInv, TaskTypeOK
<1> DEFINE Silent(from, to) ==
      /\ Goto(w, from, to) /\ reported \subseteq reported'
      /\ \/ UNCHANGED job
         \/ to \notin Telling /\ \E j \in Job \cup {None} : job' = [job EXCEPT ![w] = j]
      /\ to \in Telling => from \in Telling \/ job[w] \in reported'
      /\ UNCHANGED outcome \/ \E how \in {"cancelled", "dead"} : End(job[w], how)
      /\ UNCHANGED message \/ \E m \in Messages \ {"Completed"} : message' = [message EXCEPT ![job[w]] = m]
<1>2. ASSUME NEW from, NEW to, Silent(from, to)
      PROVE  /\ reported \subseteq reported'
             /\ \A v \in Worker : v # w => pc'[v] = pc[v] /\ job'[v] = job[v]
             /\ pc'[w] \in Telling => /\ job'[w] = job[w]
                                      /\ pc[w] \in Telling \/ job[w] \in reported'
             /\ \A j \in Job :
                  outcome'[j] = "completed" \/ message'[j] = "Completed" =>
                    outcome[j] = "completed" \/ message[j] = "Completed"
  BY <1>1, <1>2 DEF Goto, End
<1>3. CASE \/ CheckRunning(w) \/ ClaimJob(w) \/ ClaimNothing(w) \/ Attach(w)
           \/ StartRun(w) \/ AwaitNotification(w) \/ RunnerReturns(w) \/ RunCancelled(w)
           \/ PostReport(w)
  <2>1. \E from, to : Silent(from, to)
    BY <1>3 DEF CheckRunning, ClaimJob, ClaimNothing, Attach, StartRun, AwaitNotification,
       RunnerReturns, RunCancelled, PostReport, KeepLocals, slackVars
  <2> HIDE DEF Silent
  <2> QED  BY <1>2, <2>1
<1>4. CASE AnnounceRunning(w) \/ AnnounceCancelled(w) \/ AnnounceFailed(w) \/ PostFailure(w)
  <2>1. \E from, to : Silent(from, to)
    BY <1>4 DEF AnnounceRunning, AnnounceCancelled, AnnounceFailed, PostFailure, EndIteration,
       KeepLocals, UpdateMessage, slackVars, Messages
  <2> HIDE DEF Silent
  <2> QED  BY <1>2, <2>1
<1>5. CASE CompleteCancelledJob(w) \/ FailJob(w)
  <2>1. \E from, to : Silent(from, to)
    BY <1>5 DEF CompleteCancelledJob, FailJob, KeepLocals, slackVars
  <2> HIDE DEF Silent
  <2> QED  BY <1>2, <2>1
<1>6. CASE RemoveCompleted(w) \/ RemoveCancelled(w) \/ RemoveRequeued(w) \/ RemoveDead(w)
  <2>1. \E from, to : Silent(from, to)
    BY <1>6 DEF RemoveCompleted, RemoveCancelled, RemoveRequeued, RemoveDead, EndIteration,
       KeepLocals, slackVars
  <2> HIDE DEF Silent
  <2> QED  BY <1>2, <2>1
<1>7. CASE CompleteJob(w)
  BY <1>1, <1>7 DEF CompleteJob, Goto, End, KeepLocals, slackVars
<1>8. CASE AnnounceCompleted(w)
  BY <1>1, <1>8 DEF AnnounceCompleted, EndIteration, Goto, UpdateMessage
<1> QED  BY <1>3, <1>4, <1>5, <1>6, <1>7, <1>8 DEF WorkerStep, WorkerProgress

(* Nobody else completes a task, or says so. *)
LEMMA BystandersReportNothing ==
  ASSUME TaskInv,
         \/ Stop
         \/ \E j \in Job : IngressStep(j) \/ BackoffTimer(j)
         \/ \E c \in Click : ClickStep(c) \/ \E j \in Job : ClickCancel(c, j)
  PROVE  /\ UNCHANGED <<pc, job, reported>>
         /\ \A j \in Job :
              outcome'[j] = "completed" \/ message'[j] = "Completed" =>
                outcome[j] = "completed" \/ message[j] = "Completed"
<1>1. UNCHANGED <<pc, job>>
  BY BystandersMove
<1>2. /\ UNCHANGED reported
      /\ UNCHANGED outcome \/ \E j : End(j, "cancelled")
      /\ UNCHANGED message \/ \E j, m : m # "Completed" /\ message' = [message EXCEPT ![j] = m]
  BY DEF Stop, IngressStep, PostControlMessage, EnqueueJob, BackoffTimer, ClickStep, CancelInQueue,
     CancelInFlight, AnnounceClick, ClickCancel, UpdateMessage, slackVars
<1>3. outcome \in [Job -> Outcomes \cup {"none"}] /\ message \in [Job -> Messages]
  BY DEF TaskInv, TaskTypeOK
<1> QED  BY <1>1, <1>2, <1>3 DEF End

LEMMA ReportStepInv == ReportInv /\ [TaskNext]_taskVars => ReportInv'
<1> SUFFICES ASSUME ReportInv, [TaskNext]_taskVars PROVE ReportInv'
  OBVIOUS
<1>1. TaskInv /\ TaskInv'
  BY TaskStepInv DEF ReportInv
<1>2. ASSUME NEW w \in Worker, WorkerStep(w) PROVE ReportInv'
  BY <1>1, <1>2, ReportMoves DEF ReportInv, CompletedMeansReported
<1>3. CASE \/ Stop
           \/ \E j \in Job : IngressStep(j) \/ BackoffTimer(j)
           \/ \E c \in Click : ClickStep(c) \/ \E j \in Job : ClickCancel(c, j)
  BY <1>1, <1>3, BystandersReportNothing DEF ReportInv, CompletedMeansReported
<1>4. CASE UNCHANGED taskVars
  BY <1>1, <1>4 DEF ReportInv, CompletedMeansReported, taskVars, workerVars, slackVars
<1> QED  BY <1>2, <1>3, <1>4 DEF TaskNext

LEMMA CancelInvHolds == TaskSpec => []CancelInv
BY CancelInitInv, CancelStepInv, PTL DEF TaskSpec

(* The token in the registry is that of an attempt at the very job, whichever of
   the clean-up of an attempt and the backoff of its job comes first: a
   cancellation never reaches another job. *)
THEOREM TokensOfLiveAttempts == TaskSpec => []TokenIsLive
<1>1. CancelInv => TokenIsLive
  BY Places DEF CancelInv, TokensAreAttached, TokenIsLive
<1> QED  BY <1>1, CancelInvHolds, PTL

(* Nobody's task is cancelled unasked, however clicks, attempts and retries of
   the same and of other tasks interleave. *)
THEOREM CancelledOnlyOnRequest == TaskSpec => []OnlyCancelledOnRequest
<1>1. CancelInv => OnlyCancelledOnRequest
  BY DEF CancelInv
<1> QED  BY <1>1, CancelInvHolds, PTL

(* The control message of a cancelled task names somebody who clicked on that
   task, although the record may be gone when the loop comes to read it. *)
THEOREM CancelledNamesAClicker == TaskSpec => []CancelledNamesRequester
<1>1. CancelInv => CancelledNamesRequester
  <2> SUFFICES ASSUME CancelInv, NEW w \in Worker, pc[w] = "announceCancelled"
               PROVE  handle[w] \in Click /\ click_job[handle[w]] = job[w]
    BY DEF CancelledNamesRequester
  <2> QED  BY CancelTypes DEF CancelInv, HandlesHaveClicks, Asks
<1> QED  BY <1>1, CancelInvHolds, PTL

(* A request that is on record is seen by the attempt under way, whichever of
   attach_cancellation and request_cancel came first, where the backoff of a job
   outlasts the clean-up of the attempt that failed. *)
THEOREM RequestsReachAttempts ==
  BackoffOutlastsCleanup => (TaskSpec => []RequestReachesAttempt)
<1> SUFFICES ASSUME BackoffOutlastsCleanup PROVE TaskSpec => []RequestReachesAttempt
  OBVIOUS
<1>1. ReachInv => RequestReachesAttempt
  <2> SUFFICES ASSUME ReachInv, NEW w \in Worker, pc[w] \in Attempting,
                      Registry!CancelRequested(job[w])
               PROVE  cancelled[w]
    BY DEF RequestReachesAttempt, Attempting
  <2>1. job[w] \in Job /\ cancellations[job[w]] = w
    BY BusyJob, Places DEF ReachInv, CancelInv, AttemptsAreAttached
  <2> QED  BY <2>1 DEF ReachInv, CancelInv, TokensAgree, Registry!CancelRequested
<1>2. ReachInv /\ [TaskNext]_taskVars => ReachInv'
  BY ReachStepInv
<1> QED  BY <1>1, <1>2, ReachInitInv, PTL DEF TaskSpec

(* A task is only called completed, in the queue and in its control message,
   once its report was posted, whoever else writes the message meanwhile. *)
THEOREM CompletedTasksAreReported == TaskSpec => []CompletedMeansReported
<1>1. TaskInit => ReportInv
  BY TaskInitInv DEF TaskInit, ReportInv, CompletedMeansReported, Telling
<1>2. ReportInv => CompletedMeansReported
  BY DEF ReportInv
<1> QED  BY <1>1, <1>2, ReportStepInv, PTL DEF TaskSpec

-----------------------------------------------------------------------------
(* What the control message says in the end.  The loop, or the click, that      *)
(* ends a task goes on to say so: nobody else speaks for the task after it,     *)
(* but the handlers of accepted clicks.                                      *)
TellsAt(place, how) ==
  \/ how = "completed" /\ place \in {"removeCompleted", "announceCompleted"}
  \/ how = "cancelled" /\ place \in {"removeCancelled", "announceCancelled"}
  \/ how = "dead" /\ place \in {"removeDead", "announceFailed"}

Withdrawing(c) == click_pc[c] = "announceCancelled"

(* The loop that has ended a task is the only one with a token for it.       *)
LastAttemptIsAlone ==
  \A v, w \in Worker :
    v # w /\ pc[w] \in Ending /\ pc[v] \in Attached => job[v] # job[w]

CancelledIsAttached ==
  \A w \in Worker : pc[w] = "removeCancelled" => cancellations[job[w]] = w

NoticesAgree ==
  /\ \A w \in Worker : \A how \in Outcomes : TellsAt(pc[w], how) => outcome[job[w]] = how
  /\ \A c \in Click : Withdrawing(c) => outcome[click_job[c]] = "cancelled"

Told(j) ==
  \/ message[j] = MessageOf(outcome[j])
  \/ /\ message[j] = "CancellationRequested"
     /\ \E c \in Click : click_job[c] = j /\ click_pc[c] = "requested"

ToBeTold(j) ==
  \/ \E w \in Worker : job[w] = j /\ TellsAt(pc[w], outcome[j])
  \/ \E c \in Click : click_job[c] = j /\ Withdrawing(c)

EndsAreTold == \A j \in Job : outcome[j] # "none" => Told(j) \/ ToBeTold(j)

ToldInv ==
  /\ ReachInv
  /\ LastAttemptIsAlone
  /\ CancelledIsAttached
  /\ NoticesAgree
  /\ EndsAreTold

LEMMA ToldTypes ==
  ASSUME ReachInv
  PROVE  /\ CancelInv /\ TaskInv
         /\ pc \in [Worker -> Holding \cup Releasing \cup Resting]
         /\ job \in [Worker -> Job \cup {None}]
         /\ outcome \in [Job -> Outcomes \cup {"none"}]
         /\ message \in [Job -> Messages]
         /\ click_pc \in [Click -> ClickPlaces]
         /\ click_job \in [Click -> Job \cup {None}]
         /\ cancellations \in [Job -> Worker \cup {None}]
<1>1. CancelInv /\ TaskInv
  BY DEF ReachInv, CancelInv
<1>2. message \in [Job -> Messages]
  BY <1>1 DEF TaskInv, TaskTypeOK
<1> QED  BY <1>1, <1>2, CancelTypes

LEMMA MessagesOfEnds ==
  /\ MessageOf("completed") = "Completed"
  /\ MessageOf("cancelled") = "Cancelled"
  /\ MessageOf("dead") = "Failed"
BY DEF MessageOf

(* How a step of loop w treats the end of its task, and of no other: the task   *)
(* ends by a step of the loop that then tells how, and as long as the loop has  *)
(* not said so it goes on to.                                                *)
OutcomeDuly(w) ==
  \A j \in Job :
    \/ outcome'[j] = outcome[j]
    \/ /\ outcome[j] = "none" /\ j = job[w] /\ job'[w] = j
       /\ outcome'[j] \in Outcomes /\ TellsAt(pc'[w], outcome'[j])

MessageDuly(w) ==
  \A j \in Job :
    \/ message'[j] = message[j]
    \/ /\ j = job[w]
       /\ \/ outcome[j] = "none"
          \/ \E how \in Outcomes : TellsAt(pc[w], how) /\ message'[j] = MessageOf(how)

TellsOn(w) ==
  \A how \in Outcomes :
    TellsAt(pc[w], how) =>
      \/ job'[w] = job[w] /\ TellsAt(pc'[w], how)
      \/ message'[job[w]] = MessageOf(how)

TellsTrue(w) ==
  \A how \in Outcomes :
    TellsAt(pc'[w], how) =>
      job'[w] = job[w] /\ (TellsAt(pc[w], how) \/ outcome'[job[w]] = how)

TellsDuly(w) == OutcomeDuly(w) /\ MessageDuly(w) /\ TellsOn(w) /\ TellsTrue(w)

TellingPlaces == {"removeCompleted", "announceCompleted", "removeCancelled",
                  "announceCancelled", "removeDead", "announceFailed"}

(* A step that ends nothing and says nothing. *)
LEMMA SilentStep ==
  ASSUME ReachInv, NEW w \in Worker, NEW from, NEW to, Goto(w, from, to),
         from \notin TellingPlaces, to \notin TellingPlaces,
         UNCHANGED <<outcome, message>>
  PROVE  TellsDuly(w)
<1>1. pc[w] = from /\ pc'[w] = to
  BY ToldTypes DEF Goto
<1> QED  BY <1>1 DEF TellsDuly, OutcomeDuly, MessageDuly, TellsOn, TellsTrue, TellsAt, TellingPlaces

(* A step that ends the task of the loop. *)
LEMMA EndingStep ==
  ASSUME ReachInv, NEW w \in Worker, NEW from \in Attempting, NEW to, Goto(w, from, to),
         NEW how \in Outcomes, TellsAt(to, how), End(job[w], how),
         UNCHANGED <<job, message>>
  PROVE  TellsDuly(w)
<1>1. /\ pc[w] = from /\ pc'[w] = to /\ job[w] \in Job
      /\ from \notin TellingPlaces
      /\ outcome[job[w]] = "none"
      /\ outcome'[job[w]] = how /\ \A j \in Job : j # job[w] => outcome'[j] = outcome[j]
  BY ToldTypes, BusyJob, HeldJobsAreNotOver, Places
     DEF Goto, End, Attempting, TellingPlaces, Resting
<1>2. \A k \in Outcomes : TellsAt(to, k) => k = how
  BY DEF TellsAt
<1>3. \A k : ~TellsAt(from, k)
  BY <1>1 DEF TellsAt, TellingPlaces
<1> QED  BY <1>1, <1>2, <1>3 DEF TellsDuly, OutcomeDuly, MessageDuly, TellsOn, TellsTrue

(* A step towards the update of the message. *)
LEMMA TellingStep ==
  ASSUME ReachInv, NEW w \in Worker, NEW from, NEW to, Goto(w, from, to),
         NEW how \in Outcomes, TellsAt(from, how), TellsAt(to, how),
         UNCHANGED <<job, outcome, message>>
  PROVE  TellsDuly(w)
<1>1. pc[w] = from /\ pc'[w] = to
  BY ToldTypes DEF Goto
<1>2. \A k \in Outcomes : TellsAt(to, k) \/ TellsAt(from, k) => k = how
  BY DEF TellsAt
<1> QED  BY <1>1, <1>2 DEF TellsDuly, OutcomeDuly, MessageDuly, TellsOn, TellsTrue

(* The update itself. *)
LEMMA SayingStep ==
  ASSUME ReachInv, NEW w \in Worker, NEW from, NEW to, Goto(w, from, to),
         NEW how \in Outcomes, TellsAt(from, how), to \notin TellingPlaces,
         message' = [message EXCEPT ![job[w]] = MessageOf(how)],
         UNCHANGED outcome
  PROVE  TellsDuly(w)
<1>1. /\ pc[w] = from /\ pc'[w] = to /\ job[w] \in Job
      /\ message'[job[w]] = MessageOf(how)
      /\ \A j \in Job : j # job[w] => message'[j] = message[j]
  BY ToldTypes, BusyJob DEF Goto, TellsAt, Resting
<1>2. \A k \in Outcomes : TellsAt(from, k) => k = how
  BY DEF TellsAt
<1>3. \A k : ~TellsAt(to, k)
  BY DEF TellsAt, TellingPlaces
<1> QED  BY <1>1, <1>2, <1>3 DEF TellsDuly, OutcomeDuly, MessageDuly, TellsOn, TellsTrue

LEMMA LoopsTellDuly ==
  ASSUME ReachInv, CancelledIsAttached, ~UpdatesMayFail, NEW w \in Worker, WorkerStep(w)
  PROVE  TellsDuly(w)
<1> DEFINE Silent(from, to) ==
      /\ Goto(w, from, to) /\ UNCHANGED <<outcome, message>>
      /\ from \notin TellingPlaces /\ to \notin TellingPlaces
           Ends(from, to, how) ==
      Goto(w, from, to) /\ End(job[w], how) /\ UNCHANGED <<job, message>>
           Says(from, to, how) ==
      /\ Goto(w, from, to) /\ UNCHANGED outcome
      /\ message' = [message EXCEPT ![job[w]] = MessageOf(how)]
           Goes(from, to) == Goto(w, from, to) /\ UNCHANGED <<job, outcome, message>>
<1>1. ASSUME NEW from, NEW to, Silent(from, to) PROVE TellsDuly(w)
  BY <1>1, SilentStep
<1>2. ASSUME Ends("completing", "removeCompleted", "completed") PROVE TellsDuly(w)
  BY <1>2, EndingStep, Places DEF TellsAt, Outcomes
<1>3. ASSUME Ends("completeCancelled", "removeCancelled", "cancelled") PROVE TellsDuly(w)
  BY <1>3, EndingStep, Places DEF TellsAt, Outcomes
<1>4. ASSUME Ends("failing", "removeDead", "dead") PROVE TellsDuly(w)
  BY <1>4, EndingStep, Places DEF TellsAt, Outcomes
<1>5. ASSUME \/ Goes("removeCompleted", "announceCompleted")
             \/ Goes("removeCancelled", "announceCancelled")
             \/ Goes("removeDead", "announceFailed")
      PROVE  TellsDuly(w)
  BY <1>5, TellingStep DEF TellsAt, Outcomes
<1>6. ASSUME \/ Says("announceCompleted", "loop", "completed")
             \/ Says("announceCancelled", "loop", "cancelled")
             \/ Says("announceFailed", "postFailure", "dead")
      PROVE  TellsDuly(w)
  BY <1>6, SayingStep DEF TellsAt, Outcomes, TellingPlaces
<1>7. CASE \/ CheckRunning(w) \/ ClaimJob(w) \/ ClaimNothing(w) \/ Attach(w)
           \/ StartRun(w) \/ AwaitNotification(w) \/ RunnerReturns(w) \/ RunCancelled(w)
           \/ PostReport(w)
  <2>1. \E from, to : Silent(from, to)
    BY <1>7 DEF CheckRunning, ClaimJob, ClaimNothing, Attach, StartRun, AwaitNotification,
       RunnerReturns, RunCancelled, PostReport, slackVars, TellingPlaces
  <2> HIDE DEF Silent
  <2> QED  BY <1>1, <2>1
<1>8. CASE RemoveRequeued(w) \/ PostFailure(w)
  <2>1. \E from, to : Silent(from, to)
    BY <1>8 DEF RemoveRequeued, PostFailure, EndIteration, slackVars, TellingPlaces
  <2> HIDE DEF Silent
  <2> QED  BY <1>1, <2>1
<1>9. CASE FailJob(w)
  <2>1. Silent("failing", "removeRequeued") \/ Ends("failing", "removeDead", "dead")
    BY <1>9 DEF FailJob, KeepLocals, slackVars, TellingPlaces
  <2> HIDE DEF Silent, Ends
  <2> QED  BY <1>1, <1>4, <2>1
<1>10. CASE CompleteJob(w) \/ CompleteCancelledJob(w)
  <2>1. \/ Ends("completing", "removeCompleted", "completed")
        \/ Ends("completeCancelled", "removeCancelled", "cancelled")
    BY <1>10 DEF CompleteJob, CompleteCancelledJob, KeepLocals, slackVars
  <2> HIDE DEF Ends
  <2> QED  BY <1>2, <1>3, <2>1
<1>11. CASE RemoveCompleted(w) \/ RemoveDead(w)
  <2>1. Goes("removeCompleted", "announceCompleted") \/ Goes("removeDead", "announceFailed")
    BY <1>11 DEF RemoveCompleted, RemoveDead, KeepLocals, slackVars
  <2> HIDE DEF Goes
  <2> QED  BY <1>5, <2>1
(* The token of the loop is still in the registry: remove finds an entry, and   *)
(* the message is updated.                                                  *)
<1>12. CASE RemoveCancelled(w)
  <2>1. pc[w] = "removeCancelled"
    BY <1>12 DEF RemoveCancelled, EndIteration, Goto
  <2>2. cancellations[job[w]] # None
    BY <2>1, TaskAssumption DEF CancelledIsAttached
  <2>3. Goes("removeCancelled", "announceCancelled")
    BY <1>12, <2>2 DEF RemoveCancelled, slackVars
  <2> HIDE DEF Goes
  <2> QED  BY <1>5, <2>3
<1>13. CASE AnnounceCompleted(w) \/ AnnounceCancelled(w) \/ AnnounceFailed(w)
  <2>1. \/ Says("announceCompleted", "loop", "completed")
        \/ Says("announceCancelled", "loop", "cancelled")
        \/ Says("announceFailed", "postFailure", "dead")
    BY <1>13, MessagesOfEnds DEF AnnounceCompleted, AnnounceCancelled, AnnounceFailed,
       EndIteration, UpdateMessage
  <2> HIDE DEF Says
  <2> QED  BY <1>6, <2>1
(* "Running" is only said of a task that is not over. *)
<1>14. CASE AnnounceRunning(w)
  <2>1. /\ pc[w] = "announceRunning" /\ pc' = [pc EXCEPT ![w] = "starting"]
        /\ UNCHANGED outcome /\ message' = [message EXCEPT ![job[w]] = "Running"]
    BY <1>14 DEF AnnounceRunning, Goto, UpdateMessage
  <2>2. job[w] \in Job /\ outcome[job[w]] = "none"
    BY <2>1, ToldTypes, BusyJob, HeldJobsAreNotOver DEF Holding, Resting
  <2>3. /\ pc'[w] = "starting"
        /\ \A j \in Job : j # job[w] => message'[j] = message[j]
    BY <2>1, ToldTypes
  <2> QED  BY <2>1, <2>2, <2>3 DEF TellsDuly, OutcomeDuly, MessageDuly, TellsOn, TellsTrue, TellsAt
<1> HIDE DEF Silent, Ends, Says, Goes
<1> QED
  BY <1>7, <1>8, <1>9, <1>10, <1>11, <1>12, <1>13, <1>14 DEF WorkerStep, WorkerProgress

(* The end of the attempt. *)
LEMMA LoopPlaces ==
  ASSUME TaskInv, NEW w \in Worker, WorkerStep(w)
  PROVE  /\ pc'[w] \in Ending => job'[w] = job[w] /\ pc[w] \in Attempting
         /\ pc'[w] = "removeCancelled" => UNCHANGED cancellations
         /\ pc'[w] \in Attached =>
              job'[w] = job[w] /\ pc[w] \in Attached \cup {"claimed"}
<1> USE Places DEF Ending
<1>1. pc \in [Worker -> Holding \cup Releasing \cup Resting] /\ job \in [Worker -> Job \cup {None}]
  BY CancelTypes
<1> DEFINE Moves(from, to) ==
      /\ Goto(w, from, to)
      /\ to \in Ending => from \in Attempting
      /\ to \in Attached => UNCHANGED job /\ from \in Attached \cup {"claimed"}
      /\ to = "removeCancelled" => UNCHANGED cancellations
<1>2. ASSUME NEW from, NEW to, Moves(from, to)
      PROVE  /\ pc'[w] \in Ending => job'[w] = job[w] /\ pc[w] \in Attempting
             /\ pc'[w] = "removeCancelled" => UNCHANGED cancellations
             /\ pc'[w] \in Attached =>
                  job'[w] = job[w] /\ pc[w] \in Attached \cup {"claimed"}
  BY <1>1, <1>2 DEF Goto
<1>3. CASE \/ CheckRunning(w) \/ ClaimJob(w) \/ ClaimNothing(w) \/ Attach(w)
           \/ StartRun(w) \/ AwaitNotification(w) \/ RunnerReturns(w) \/ RunCancelled(w)
           \/ PostReport(w)
  <2>1. \E from, to : Moves(from, to)
    BY <1>3 DEF CheckRunning, ClaimJob, ClaimNothing, Attach, StartRun, AwaitNotification,
       RunnerReturns, RunCancelled, PostReport, KeepLocals
  <2> HIDE DEF Moves
  <2> QED  BY <1>2, <2>1
<1>4. CASE \/ AnnounceRunning(w) \/ AnnounceCompleted(w) \/ AnnounceCancelled(w)
           \/ AnnounceFailed(w) \/ PostFailure(w)
  <2>1. \E from, to : Moves(from, to)
    BY <1>4 DEF AnnounceRunning, AnnounceCompleted, AnnounceCancelled, AnnounceFailed,
       PostFailure, EndIteration, KeepLocals
  <2> HIDE DEF Moves
  <2> QED  BY <1>2, <2>1
<1>5. CASE CompleteJob(w) \/ CompleteCancelledJob(w) \/ FailJob(w)
  <2>1. \E from, to : Moves(from, to)
    BY <1>5 DEF CompleteJob, CompleteCancelledJob, FailJob, KeepLocals, SameRegistry
  <2> HIDE DEF Moves
  <2> QED  BY <1>2, <2>1
<1>6. CASE \/ RemoveCompleted(w) \/ RemoveCancelled(w) \/ RemoveRequeued(w) \/ RemoveDead(w)
  <2>1. \E from, to : Moves(from, to)
    BY <1>6 DEF RemoveCompleted, RemoveCancelled, RemoveRequeued, RemoveDead, KeepLocals,
       EndIteration
  <2> HIDE DEF Moves
  <2> QED  BY <1>2, <2>1
<1> HIDE DEF Moves
<1> QED  BY <1>3, <1>4, <1>5, <1>6 DEF WorkerStep, WorkerProgress

(* A loop that gives up its claim for good leaves no other at the same task. *)
LEMMA AloneStays ==
  ASSUME ReachInv, LastAttemptIsAlone, NEW w \in Worker, WorkerStep(w)
  PROVE  LastAttemptIsAlone'
<1> USE ToldTypes
<1>1. \A v \in Worker : v # w => pc'[v] = pc[v] /\ job'[v] = job[v]
  BY LoopMoves
<1>2. ASSUME NEW v \in Worker, v # w, pc[w] \in Attempting, pc[v] \in Attached
      PROVE  job[v] # job[w]
  <2>1. job[w] \in Job /\ outcome[job[w]] = "none" /\ job[w] \in claimed_jobs
    BY <1>2, BusyJob, HeldJobsAreNotOver, Places
       DEF Attempting, TaskInv, ExclusiveExecution, Holders
  <2>2. CASE pc[v] \in Attempting
    BY <1>2, <2>2 DEF Attempting, TaskInv, ExclusiveExecution, Holders
  <2>3. CASE pc[v] \in Ending
    BY <2>1, <2>3 DEF CancelInv, EndingJobsAreOver
  <2>4. CASE pc[v] = "removeRequeued"
    <3>1. outcome[job[v]] # "none" \/ job[v] \in Range(delayed_jobs)
      BY <2>4 DEF ReachInv, RequeuedJobsWait, Waiting
    <3>2. job[w] \notin Range(delayed_jobs)
      BY <2>1 DEF TaskInv, EachJobInOnePlace
    <3> QED  BY <2>1, <3>1, <3>2
  <2> QED  BY <1>2, <2>2, <2>3, <2>4 DEF Attached
<1>3. ASSUME NEW v \in Worker, v # w, pc[v] \in Ending, pc[w] \in Attached \cup {"claimed"}
      PROVE  job[v] # job[w]
  <2>1. CASE pc[w] \in Attached
    BY <1>3, <2>1 DEF LastAttemptIsAlone
  <2>2. CASE pc[w] = "claimed"
    <3>1. outcome[job[w]] = "none"
      BY <2>2, HeldJobsAreNotOver DEF Holding
    <3>2. outcome[job[v]] # "none"
      BY <1>3 DEF CancelInv, EndingJobsAreOver
    <3> QED  BY <3>1, <3>2
  <2> QED  BY <1>3, <2>1, <2>2
<1>4. /\ pc'[w] \in Ending => job'[w] = job[w] /\ pc[w] \in Attempting
      /\ pc'[w] \in Attached => job'[w] = job[w] /\ pc[w] \in Attached \cup {"claimed"}
  BY LoopPlaces
<1> QED  BY <1>1, <1>2, <1>3, <1>4 DEF LastAttemptIsAlone

(* The token of a loop that has cancelled its task stays until the loop itself
   removes it. *)
LEMMA CancelledStaysAttached ==
  ASSUME ReachInv, LastAttemptIsAlone, CancelledIsAttached, NEW w \in Worker, WorkerStep(w)
  PROVE  CancelledIsAttached'
<1> USE ToldTypes
<1>1. \A v \in Worker : v # w => pc'[v] = pc[v] /\ job'[v] = job[v]
  BY LoopMoves
<1>2. ASSUME pc'[w] = "removeCancelled" PROVE cancellations'[job'[w]] = w
  BY <1>2, LoopPlaces DEF ReachInv, AttemptsAreAttached, Ending
<1>3. ASSUME NEW v \in Worker, v # w, pc[v] = "removeCancelled"
      PROVE  cancellations'[job[v]] = v
  <2>1. cancellations[job[v]] = v /\ job[v] \in Job /\ outcome[job[v]] # "none"
    BY <1>3, BusyJob, Places DEF CancelledIsAttached, CancelInv, EndingJobsAreOver, Ending
  <2>2. CASE UNCHANGED cancellations
    BY <2>1, <2>2
  <2>3. CASE Attach(w)
    <3>1. outcome[job[w]] = "none"
      BY <2>3, HeldJobsAreNotOver DEF Attach, Goto, Holding
    <3>2. cancellations' = [cancellations EXCEPT ![job[w]] = w]
      BY <2>3 DEF Attach, Registry!AttachCancellation
    <3> QED  BY <2>1, <3>1, <3>2
  <2>4. CASE pc[w] \in Ending \cup {"removeRequeued"} /\ Registry!Remove(job[w])
    <3>1. job[w] # job[v]
      BY <1>3, <2>4 DEF LastAttemptIsAlone, Attached, Ending
    <3>2. cancellations' = [cancellations EXCEPT ![job[w]] = None]
      BY <2>4 DEF Registry!Remove
    <3> QED  BY <2>1, <3>1, <3>2
  <2> QED  BY <2>2, <2>3, <2>4, LoopMoves
<1> QED  BY <1>1, <1>2, <1>3 DEF CancelledIsAttached

LEMMA LoopsLeaveClicks ==
  ASSUME NEW w \in Worker, WorkerStep(w)
  PROVE  UNCHANGED <<click_pc, click_job>>
<1>1. CASE \/ CheckRunning(w) \/ ClaimJob(w) \/ ClaimNothing(w) \/ Attach(w)
           \/ AnnounceRunning(w) \/ StartRun(w) \/ AwaitNotification(w)
           \/ RunnerReturns(w) \/ RunCancelled(w) \/ PostReport(w)
  BY <1>1 DEF CheckRunning, ClaimJob, ClaimNothing, Attach, AnnounceRunning, StartRun,
     AwaitNotification, RunnerReturns, RunCancelled, PostReport, clickVars
<1>2. CASE CompleteJob(w) \/ CompleteCancelledJob(w) \/ FailJob(w)
  BY <1>2 DEF CompleteJob, CompleteCancelledJob, FailJob, clickVars
<1>3. CASE \/ RemoveCompleted(w) \/ AnnounceCompleted(w) \/ RemoveCancelled(w)
           \/ AnnounceCancelled(w) \/ RemoveRequeued(w) \/ RemoveDead(w)
           \/ AnnounceFailed(w) \/ PostFailure(w)
  BY <1>3 DEF RemoveCompleted, AnnounceCompleted, RemoveCancelled, AnnounceCancelled,
     RemoveRequeued, RemoveDead, AnnounceFailed, PostFailure, clickVars
<1> QED  BY <1>1, <1>2, <1>3 DEF WorkerStep, WorkerProgress

(* A loop tells how its task ended, or goes on to; what was said stays said. *)
LEMMA LoopsKeepWhatIsToTell ==
  ASSUME ToldInv, ~UpdatesMayFail, NEW w \in Worker, WorkerStep(w)
  PROVE  NoticesAgree' /\ EndsAreTold'
<1>1. /\ CancelInv /\ TaskInv
      /\ OutcomeDuly(w) /\ MessageDuly(w) /\ TellsOn(w) /\ TellsTrue(w)
      /\ \A v \in Worker : v # w => pc'[v] = pc[v] /\ job'[v] = job[v]
  BY ToldTypes, LoopsTellDuly, LoopMoves DEF ToldInv, TellsDuly
<1>2. UNCHANGED <<click_pc, click_job>>
  BY LoopsLeaveClicks
<1>3. \A v \in Worker : \A how : TellsAt(pc[v], how) => job[v] \in Job
  BY <1>1, BusyJob DEF TellsAt, Resting
<1>4. \A c \in Click : Withdrawing(c) => click_job[c] \in Job
  BY <1>1 DEF CancelInv, ClicksHaveJobs, Withdrawing
<1>5. \A j \in Job : outcome[j] # "none" => outcome'[j] = outcome[j]
  BY <1>1 DEF OutcomeDuly
<1>6. /\ \A v \in Worker : \A how \in Outcomes : TellsAt(pc[v], how) => outcome[job[v]] = how
      /\ \A c \in Click : Withdrawing(c) => outcome[click_job[c]] = "cancelled"
  BY DEF ToldInv, NoticesAgree
<1>7. NoticesAgree'
  <2>1. ASSUME NEW v \in Worker, NEW how \in Outcomes, TellsAt(pc'[v], how)
        PROVE  outcome'[job'[v]] = how
    <3>1. CASE v # w \/ TellsAt(pc[v], how)
      <4>1. TellsAt(pc[v], how) /\ job'[v] = job[v]
        BY <1>1, <2>1, <3>1 DEF TellsTrue
      <4>2. outcome[job[v]] = how /\ how # "none" /\ job[v] \in Job
        BY <1>3, <1>6, <4>1 DEF Outcomes
      <4> QED  BY <1>5, <4>1, <4>2
    <3>2. CASE v = w /\ ~TellsAt(pc[v], how)
      BY <1>1, <2>1, <3>2 DEF TellsTrue
    <3> QED  BY <3>1, <3>2
  <2>2. ASSUME NEW c \in Click, click_pc'[c] = "announceCancelled"
        PROVE  outcome'[click_job'[c]] = "cancelled"
    BY <1>2, <1>4, <1>5, <1>6, <2>2 DEF Withdrawing
  <2> QED  BY <2>1, <2>2 DEF NoticesAgree, Withdrawing
<1>8. ASSUME NEW j \in Job, outcome'[j] # "none" PROVE Told(j)' \/ ToBeTold(j)'
  <2>1. CASE outcome[j] = "none"
    BY <1>1, <1>8, <2>1 DEF OutcomeDuly, ToBeTold
  <2>2. CASE outcome[j] # "none"
    <3>1. outcome'[j] = outcome[j]
      BY <1>5, <2>2
    <3>2. CASE message'[j] # message[j]
      <4>1. PICK how \in Outcomes : j = job[w] /\ TellsAt(pc[w], how) /\ message'[j] = MessageOf(how)
        BY <1>1, <2>2, <3>2 DEF MessageDuly
      <4>2. outcome[j] = how
        BY <1>6, <4>1
      <4> QED  BY <3>1, <4>1, <4>2 DEF Told
    <3>3. CASE message'[j] = message[j]
      <4>1. Told(j) \/ ToBeTold(j)
        BY <2>2 DEF ToldInv, EndsAreTold
      <4>2. CASE Told(j)
        BY <1>2, <3>1, <3>3, <4>2 DEF Told
      <4>3. ASSUME NEW v \in Worker, job[v] = j, TellsAt(pc[v], outcome[j])
            PROVE  Told(j)' \/ ToBeTold(j)'
        <5>1. CASE v # w
          BY <1>1, <3>1, <4>3, <5>1 DEF ToBeTold
        <5>2. CASE v = w
          <6>1. outcome[j] \in Outcomes
            BY <4>3 DEF TellsAt, Outcomes
          <6>2. \/ job'[w] = j /\ TellsAt(pc'[w], outcome[j])
                \/ message'[j] = MessageOf(outcome[j])
            BY <1>1, <4>3, <5>2, <6>1 DEF TellsOn
          <6> QED  BY <3>1, <6>2 DEF Told, ToBeTold
        <5> QED  BY <5>1, <5>2
      <4>4. CASE \E c \in Click : click_job[c] = j /\ Withdrawing(c)
        BY <1>2, <4>4 DEF ToBeTold, Withdrawing
      <4> QED  BY <4>1, <4>2, <4>3, <4>4 DEF ToBeTold
    <3> QED  BY <3>2, <3>3
  <2> QED  BY <2>1, <2>2
<1> QED  BY <1>7, <1>8 DEF EndsAreTold

(* A click moves itself, and no loop. *)
LEMMA ClickMoves ==
  ASSUME ToldInv, NEW c \in Click, ClickStep(c) \/ \E j \in Job : ClickCancel(c, j)
  PROVE  /\ UNCHANGED <<pc, job>>
         /\ \A d \in Click : d # c => click_pc'[d] = click_pc[d] /\ click_job'[d] = click_job[d]
         /\ click_pc[c] # "requested" /\ (click_pc[c] # "none" => click_job'[c] = click_job[c])
<1>1. UNCHANGED <<pc, job>>
  BY BystandersMove
<1>2. click_pc \in [Click -> ClickPlaces] /\ click_job \in [Click -> Job \cup {None}]
  BY ToldTypes DEF ToldInv
<1> QED
  BY <1>1, <1>2 DEF ClickStep, CancelInQueue, CancelInFlight, AnnounceClick, ClickCancel, ClickGoto

LEMMA ClicksKeepWhatIsToTell ==
  ASSUME ToldInv, ~UpdatesMayFail, NEW c \in Click,
         ClickStep(c) \/ \E j \in Job : ClickCancel(c, j)
  PROVE  NoticesAgree' /\ EndsAreTold'
<1> DEFINE k == click_job[c]
<1>1. /\ CancelInv /\ TaskInv
      /\ outcome \in [Job -> Outcomes \cup {"none"}] /\ message \in [Job -> Messages]
      /\ click_pc \in [Click -> ClickPlaces] /\ click_job \in [Click -> Job \cup {None}]
  BY ToldTypes DEF ToldInv
<1>2. /\ UNCHANGED <<pc, job>>
      /\ \A d \in Click : d # c => click_pc'[d] = click_pc[d] /\ click_job'[d] = click_job[d]
      /\ click_pc[c] # "requested" /\ (click_pc[c] # "none" => click_job'[c] = k)
  BY ClickMoves
<1>3. \A v \in Worker : \A how : TellsAt(pc[v], how) => job[v] \in Job
  BY <1>1, BusyJob DEF TellsAt, Resting
<1>4. \A d \in Click : click_pc[d] # "none" => click_job[d] \in Job
  BY <1>1 DEF CancelInv, ClicksHaveJobs
<1>5. /\ \A v \in Worker : \A how \in Outcomes : TellsAt(pc[v], how) => outcome[job[v]] = how
      /\ \A d \in Click : click_pc[d] = "announceCancelled" => outcome[click_job[d]] = "cancelled"
      /\ \A j \in Job : outcome[j] # "none" => Told(j) \/ ToBeTold(j)
  BY DEF ToldInv, NoticesAgree, EndsAreTold, Withdrawing
(* The three kinds of steps: the click ends the task, says so, or neither. *)
<1>6. CASE /\ click_pc[c] = "clicked" /\ click_pc'[c] = "announceCancelled"
           /\ k \in Job /\ outcome[k] = "none"
           /\ End(k, "cancelled") /\ UNCHANGED message
  <2>1. /\ click_job'[c] = k /\ outcome'[k] = "cancelled"
        /\ \A j \in Job : j # k => outcome'[j] = outcome[j]
    BY <1>1, <1>2, <1>6 DEF End
  <2>2. NoticesAgree'
    <3>1. ASSUME NEW v \in Worker, NEW how \in Outcomes, TellsAt(pc'[v], how)
          PROVE  outcome'[job'[v]] = how
      <4>1. job[v] \in Job /\ outcome[job[v]] = how /\ how # "none"
        BY <1>2, <1>3, <1>5, <3>1 DEF Outcomes
      <4> QED  BY <1>2, <1>6, <2>1, <4>1
    <3>2. ASSUME NEW d \in Click, click_pc'[d] = "announceCancelled"
          PROVE  outcome'[click_job'[d]] = "cancelled"
      BY <1>2, <1>4, <1>5, <1>6, <2>1, <3>2
    <3> QED  BY <3>1, <3>2 DEF NoticesAgree, Withdrawing
  <2>3. ASSUME NEW j \in Job, outcome'[j] # "none" PROVE Told(j)' \/ ToBeTold(j)'
    <3>1. CASE j = k
      BY <1>6, <2>1, <3>1 DEF ToBeTold, Withdrawing
    <3>2. CASE j # k
      <4>1. Told(j) \/ ToBeTold(j)
        BY <1>5, <2>1, <2>3, <3>2
      <4>2. Told(j) => Told(j)'
        BY <1>2, <1>6, <2>1, <3>2 DEF Told
      <4>3. ToBeTold(j) => ToBeTold(j)'
        BY <1>2, <1>6, <2>1, <3>2 DEF ToBeTold, Withdrawing
      <4> QED  BY <4>1, <4>2, <4>3
    <3> QED  BY <3>1, <3>2
  <2> QED  BY <2>2, <2>3 DEF EndsAreTold
<1>7. CASE /\ \/ /\ click_pc[c] = "announceCancelled" /\ click_pc'[c] = "cancelled"
                 /\ message' = [message EXCEPT ![k] = "Cancelled"]
              \/ /\ click_pc[c] = "announceRequested" /\ click_pc'[c] = "requested"
                 /\ message' = [message EXCEPT ![k] = "CancellationRequested"]
           /\ UNCHANGED outcome
  <2>1. k \in Job /\ click_job'[c] = k
    BY <1>2, <1>4, <1>7
  <2>2. NoticesAgree'
    BY <1>2, <1>5, <1>7 DEF NoticesAgree, Withdrawing
  <2>3. ASSUME NEW j \in Job, outcome[j] # "none" PROVE Told(j)' \/ ToBeTold(j)'
    <3>1. CASE j = k
      <4>1. CASE click_pc[c] = "announceCancelled"
        <5>1. outcome'[j] = "cancelled" /\ message'[j] = "Cancelled"
          BY <1>1, <1>5, <1>7, <3>1, <4>1
        <5> QED  BY <5>1, MessagesOfEnds DEF Told
      <4>2. CASE click_pc[c] = "announceRequested"
        <5>1. /\ message'[j] = "CancellationRequested"
              /\ click_job'[c] = j /\ click_pc'[c] = "requested"
          BY <1>1, <1>7, <2>1, <3>1, <4>2
        <5> QED  BY <5>1 DEF Told
      <4> QED  BY <1>7, <4>1, <4>2
    <3>2. CASE j # k
      <4>1. message'[j] = message[j]
        BY <1>1, <1>7, <3>2
      <4>2. Told(j) => Told(j)'
        BY <1>2, <1>7, <4>1 DEF Told
      <4>3. ToBeTold(j) => ToBeTold(j)'
        BY <1>2, <1>7, <3>2 DEF ToBeTold, Withdrawing
      <4> QED  BY <1>5, <2>3, <4>2, <4>3
    <3> QED  BY <3>1, <3>2
  <2> QED  BY <1>7, <2>2, <2>3 DEF EndsAreTold
<1>8. CASE /\ click_pc[c] # "announceCancelled" /\ click_pc'[c] # "announceCancelled"
           /\ UNCHANGED <<outcome, message>>
  <2>1. NoticesAgree'
    BY <1>2, <1>5, <1>8 DEF NoticesAgree, Withdrawing
  <2>2. ASSUME NEW j \in Job, outcome[j] # "none" PROVE Told(j)' \/ ToBeTold(j)'
    <3>1. Told(j) => Told(j)'
      BY <1>2, <1>8 DEF Told
    <3>2. ToBeTold(j) => ToBeTold(j)'
      BY <1>2, <1>8 DEF ToBeTold, Withdrawing
    <3> QED  BY <1>5, <2>2, <3>1, <3>2
  <2> QED  BY <1>8, <2>1, <2>2 DEF EndsAreTold
<1>9. CASE CancelInQueue(c)
  <2>1. /\ click_pc[c] = "clicked" /\ k \in Job /\ UNCHANGED message
        /\ \E to : click_pc' = [click_pc EXCEPT ![c] = to]
    BY <1>4, <1>9 DEF CancelInQueue, ClickGoto, slackVars
  <2>2. CASE ClickGoto(c, "clicked", "announceCancelled") /\ CancelQueued(k) /\ End(k, "cancelled")
    <3>1. outcome[k] = "none"
      <4>1. InQueue(k)
        BY <1>1, <2>2, TaskInvQueue, CancelQueuedInv DEF Queued, InQueue
      <4> QED  BY <1>1, <2>1, <4>1 DEF TaskInv, NoJobLost
    <3>2. click_pc'[c] = "announceCancelled"
      BY <1>1, <2>2 DEF ClickGoto
    <3> QED  BY <1>6, <2>1, <2>2, <3>1, <3>2
  <2>3. CASE UNCHANGED outcome /\ \E to \in {"requesting", "ignored"} : ClickGoto(c, "clicked", to)
    BY <1>1, <1>8, <2>1, <2>3 DEF ClickGoto
  <2> QED  BY <1>9, <2>2, <2>3 DEF CancelInQueue
<1>10. CASE AnnounceClick(c)
  BY <1>1, <1>7, <1>10 DEF AnnounceClick, ClickGoto, UpdateMessage
<1>11. CASE CancelInFlight(c) \/ \E j \in Job : ClickCancel(c, j)
  BY <1>1, <1>8, <1>11 DEF CancelInFlight, ClickCancel, ClickGoto, slackVars
<1> QED  BY <1>9, <1>10, <1>11 DEF ClickStep

(* The control message is posted before there is a job that could be over. *)
LEMMA OthersKeepWhatIsToTell ==
  ASSUME ToldInv, Stop \/ \E j \in Job : IngressStep(j) \/ BackoffTimer(j)
  PROVE  NoticesAgree' /\ EndsAreTold'
<1>1. UNCHANGED <<pc, job, click_pc, click_job, outcome>>
  BY DEF Stop, IngressStep, PostControlMessage, EnqueueJob, BackoffTimer, workerVars, clickVars
<1>2. \A j \in Job : outcome[j] # "none" => message'[j] = message[j]
  <2>1. CASE UNCHANGED message
    BY <2>1
  <2>2. ASSUME NEW k \in Job, PostControlMessage(k)
        PROVE  \A j \in Job : outcome[j] # "none" => message'[j] = message[j]
    <3>1. outcome[k] = "none"
      BY <2>2, ToldTypes DEF ToldInv, PostControlMessage, TaskInv, NotYetEnqueued
    <3>2. UNCHANGED message \/ message' = [message EXCEPT ![k] = "Queued"]
      BY <2>2 DEF PostControlMessage
    <3> QED  BY <3>1, <3>2, ToldTypes DEF ToldInv
  <2> QED  BY <2>1, <2>2 DEF Stop, IngressStep, EnqueueJob, BackoffTimer, slackVars
<1>3. NoticesAgree'
  BY <1>1 DEF ToldInv, NoticesAgree, Withdrawing
<1>4. EndsAreTold'
  BY <1>1, <1>2 DEF ToldInv, EndsAreTold, Told, ToBeTold, Withdrawing
<1> QED  BY <1>3, <1>4

LEMMA ToldStepInv ==
  BackoffOutlastsCleanup /\ ~UpdatesMayFail /\ ToldInv /\ [TaskNext]_taskVars => ToldInv'
<1> SUFFICES ASSUME BackoffOutlastsCleanup, ~UpdatesMayFail, ToldInv, [TaskNext]_taskVars
             PROVE  ToldInv'
  OBVIOUS
<1>1. ReachInv /\ ReachInv'
  BY ReachStepInv DEF ToldInv
<1>2. ASSUME NEW w \in Worker, WorkerStep(w) PROVE ToldInv'
  BY <1>1, <1>2, AloneStays, CancelledStaysAttached, LoopsKeepWhatIsToTell DEF ToldInv
<1>3. CASE \/ Stop
           \/ \E j \in Job : IngressStep(j) \/ BackoffTimer(j)
           \/ \E c \in Click : ClickStep(c) \/ \E j \in Job : ClickCancel(c, j)
  <2>1. UNCHANGED <<pc, job, cancellations>>
    BY <1>3, BystandersMove
  <2>2. LastAttemptIsAlone' /\ CancelledIsAttached'
    BY <2>1 DEF ToldInv, LastAttemptIsAlone, CancelledIsAttached
  <2>3. NoticesAgree' /\ EndsAreTold'
    BY <1>3, ClicksKeepWhatIsToTell, OthersKeepWhatIsToTell
  <2> QED  BY <1>1, <2>2, <2>3 DEF ToldInv
<1>4. CASE UNCHANGED taskVars
  <2>1. UNCHANGED <<pc, job, cancellations, outcome, message, click_pc, click_job>>
    BY <1>4 DEF taskVars, workerVars, clickVars, slackVars
  <2>2. LastAttemptIsAlone' /\ CancelledIsAttached' /\ NoticesAgree'
    BY <2>1 DEF ToldInv, LastAttemptIsAlone, CancelledIsAttached, NoticesAgree, Withdrawing
  <2>3. EndsAreTold'
    BY <2>1 DEF ToldInv, EndsAreTold, Told, ToBeTold, Withdrawing
  <2> QED  BY <1>1, <2>2, <2>3 DEF ToldInv
<1> QED  BY <1>2, <1>3, <1>4 DEF TaskNext

LEMMA ToldInitInv == TaskInit => ToldInv
<1> SUFFICES ASSUME TaskInit PROVE ToldInv
  OBVIOUS
<1>1. ReachInv
  BY ReachInitInv
<1>2. /\ \A w \in Worker : pc[w] = "loop"
      /\ \A c \in Click : click_pc[c] = "none"
      /\ \A j \in Job : outcome[j] = "none"
  BY DEF TaskInit
<1> QED
  BY <1>1, <1>2 DEF ToldInv, LastAttemptIsAlone, CancelledIsAttached, NoticesAgree, EndsAreTold,
     TellsAt, Withdrawing, Ending

(* When all is over the control message tells what happened, whichever of the    *)
(* loops, the clicks and the retries wrote it last, but for an accepted click:   *)
(* where every update arrives, and the backoff of a job outlasts the clean-up of *)
(* the attempt that failed.                                                 *)
THEOREM SettledMessagesAreTrue ==
  BackoffOutlastsCleanup => (TaskSpec => []SettledMessage)
<1> SUFFICES ASSUME BackoffOutlastsCleanup PROVE TaskSpec => []SettledMessage
  OBVIOUS
<1>1. CASE UpdatesMayFail
  <2>1. SettledMessage
    BY <1>1 DEF SettledMessage
  <2>2. TaskInit => SettledMessage
    BY <2>1
  <2> QED  BY <2>1, PTL
<1>2. CASE ~UpdatesMayFail
  <2>1. ToldInv => SettledMessage
    <3> SUFFICES ASSUME ToldInv, NEW j \in Job, Settled(j)
                 PROVE  Told(j)
      BY DEF SettledMessage, Told
    <3>1. outcome[j] # "none" /\ ~ToBeTold(j)
      BY DEF Settled, ToBeTold, Withdrawing
    <3> QED  BY <3>1 DEF ToldInv, EndsAreTold
  <2>2. ToldInv /\ [TaskNext]_taskVars => ToldInv'
    BY <1>2, ToldStepInv
  <2> QED  BY <2>1, <2>2, ToldInitInv, PTL DEF TaskSpec
<1> QED  BY <1>1, <1>2, TaskAssumption

-----------------------------------------------------------------------------
(***************************************************************************)
(* The callers of the queue keep to the contract QueueSpec asks of them:   *)
(* an id is enqueued once, fail is given at most the configured retries,   *)
(* and a click names a job.  What QueueSpec implies then holds of tasks.   *)
(***************************************************************************)
LEMMA LoopsUseTheQueue ==
  ASSUME TaskInv, NEW w \in Worker, WorkerStep(w)
  PROVE  [QueueNext]_queueVars
<1>1. CASE \/ CheckRunning(w) \/ ClaimNothing(w) \/ Attach(w)
           \/ AnnounceRunning(w) \/ StartRun(w) \/ AwaitNotification(w)
           \/ RunCancelled(w) \/ PostReport(w) \/ RunnerReturns(w)
  BY <1>1 DEF CheckRunning, ClaimNothing, Attach, AnnounceRunning,
     StartRun, AwaitNotification, RunCancelled, PostReport, RunnerReturns
<1>2. CASE \/ RemoveCompleted(w) \/ AnnounceCompleted(w) \/ RemoveCancelled(w)
           \/ AnnounceCancelled(w) \/ RemoveRequeued(w) \/ RemoveDead(w)
           \/ AnnounceFailed(w) \/ PostFailure(w)
  BY <1>2 DEF RemoveCompleted, AnnounceCompleted, RemoveCancelled,
     AnnounceCancelled, RemoveRequeued, RemoveDead, AnnounceFailed, PostFailure
<1>3. CASE ClaimJob(w)
  <2>1. \E j \in Job : Claim(j)
    BY <1>3 DEF ClaimJob
  <2> QED  BY <2>1 DEF QueueNext
<1>4. CASE CompleteJob(w) \/ CompleteCancelledJob(w)
  <2>1. pc[w] \notin Resting /\ Complete(job[w])
    BY <1>4 DEF CompleteJob, CompleteCancelledJob, Goto, Resting
  <2>2. job[w] \in Job
    BY <2>1, BusyJob
  <2> QED  BY <2>1, <2>2 DEF QueueNext
<1>5. CASE FailJob(w)
  <2>1. /\ pc[w] \notin Resting
        /\ \/ FailRequeued(job[w], EffectiveMaxRetry(w))
           \/ FailDeadLetter(job[w], EffectiveMaxRetry(w))
    BY <1>5 DEF FailJob, Goto, Resting
  <2>2. job[w] \in Job
    BY <2>1, BusyJob
  <2>3. EffectiveMaxRetry(w) \in 0..MaxRetry
    BY <2>2, QueueAssumption DEF EffectiveMaxRetry, TaskInv, TaskTypeOK, QueueTypeOK
  <2> QED  BY <2>1, <2>2, <2>3 DEF QueueNext
<1> QED  BY <1>1, <1>2, <1>3, <1>4, <1>5 DEF WorkerStep, WorkerProgress

LEMMA OthersUseTheQueue ==
  ASSUME CancelInv, TaskNext, ~\E w \in Worker : WorkerStep(w)
  PROVE  [QueueNext]_queueVars
<1>1. ASSUME NEW j \in Job, PostControlMessage(j) PROVE [QueueNext]_queueVars
  BY <1>1 DEF PostControlMessage
<1>2. ASSUME NEW j \in Job, EnqueueJob(j) PROVE [QueueNext]_queueVars
  <2>1. ~Known(j)
    BY <1>2 DEF CancelInv, TaskInv, EnqueueJob, NotYetEnqueued, NoJobLost, Known
  <2>2. Enqueue(j)
    BY <1>2 DEF EnqueueJob
  <2> QED  BY <2>1, <2>2 DEF QueueNext
<1>3. ASSUME NEW j \in Job, BackoffTimer(j) PROVE [QueueNext]_queueVars
  <2>1. BackoffElapses(j)
    BY <1>3 DEF BackoffTimer
  <2> QED  BY <2>1 DEF QueueNext
<1>4. ASSUME NEW c \in Click, CancelInQueue(c) PROVE [QueueNext]_queueVars
  <2>1. click_pc[c] = "clicked"
    BY <1>4 DEF CancelInQueue, ClickGoto
  <2>2. click_job[c] \in Job
    BY <2>1 DEF CancelInv, ClicksHaveJobs
  <2>3. \/ CancelQueued(click_job[c])
        \/ CancelAlreadyClaimed(click_job[c])
        \/ CancelNotFound(click_job[c])
    BY <1>4 DEF CancelInQueue
  <2> QED  BY <2>2, <2>3 DEF QueueNext
<1>5. ASSUME NEW c \in Click,
             CancelInFlight(c) \/ AnnounceClick(c) \/ \E j \in Job : ClickCancel(c, j)
      PROVE  UNCHANGED queueVars
  BY <1>5 DEF CancelInFlight, AnnounceClick, ClickCancel
<1>6. CASE Stop
  BY <1>6 DEF Stop
<1> QED
  BY <1>1, <1>2, <1>3, <1>4, <1>5, <1>6 DEF TaskNext, IngressStep, ClickStep

(* worker.rs, enqueue.rs and cancel.rs only use the queue the way it is meant
   to be used: every step of theirs is an operation of the queue, called with
   arguments its contract allows, or leaves the queue alone. *)
THEOREM TasksUseTheQueue == TaskSpec => QueueSpec
<1>1. TaskInit => QueueInit
  BY DEF TaskInit
<1>2. CancelInv /\ [TaskNext]_taskVars => [QueueNext]_queueVars
  <2> SUFFICES ASSUME CancelInv, [TaskNext]_taskVars PROVE [QueueNext]_queueVars
    OBVIOUS
  <2>1. CASE UNCHANGED taskVars
    BY <2>1 DEF taskVars
  <2>2. CASE \E w \in Worker : WorkerStep(w)
    BY <2>2, LoopsUseTheQueue DEF CancelInv
  <2>3. CASE TaskNext /\ ~\E w \in Worker : WorkerStep(w)
    BY <2>3, OthersUseTheQueue
  <2> QED  BY <2>1, <2>2, <2>3
<1>3. QED
  BY <1>1, <1>2, CancelInvHolds, PTL DEF TaskSpec, QueueSpec

(* Among everything else that goes on, tasks are claimed in the order they
   became claimable: a failed task neither overtakes nor is overtaken. *)
THEOREM TasksKeepTheOrder == TaskSpec => NoOvertaking
BY TasksUseTheQueue, ClaimsKeepTheOrder, PTL

(* And no loop sees a failed task again before its backoff has elapsed. *)
THEOREM TasksWaitToBeRetried == TaskSpec => RetryWaitsForBackoff
BY TasksUseTheQueue, RetriesWait, PTL
=============================================================================
