------------------------ MODULE TaskExecution_proofs ------------------------
(***************************************************************************)
(* The safety of task execution for every number of jobs, loops and clicks *)
(* and every retry limit.                                                  *)
(*                                                                         *)
(* TaskInv is inductive.  ExclusiveExecution and NoJobLost are not by      *)
(* themselves: an enqueue keeps them because the id is new to the queue    *)
(* (NotYetEnqueued), a claim because a queued job is nobody's              *)
(* (EachJobInOnePlace), the end of an attempt because the loop knows its   *)
(* job (BusyLoopsHaveJobs).                                                *)
(***************************************************************************)
EXTENDS TaskExecution, JobQueue_proofs

BusyLoopsHaveJobs == \A w \in Worker : pc[w] \notin Resting => job[w] \in Job

NotYetEnqueued == \A j \in Job : ingress[j] # "enqueued" => outcome[j] = "none"

TaskInv ==
  /\ TaskTypeOK
  /\ EachJobInOnePlace
  /\ ReadyAreDelayed
  /\ BusyLoopsHaveJobs
  /\ NotYetEnqueued
  /\ ExclusiveExecution
  /\ NoJobLost

LEMMA TaskInvQueue == TaskInv => QueueInv
BY DEF TaskInv, TaskTypeOK, QueueInv

LEMMA PlacesAreDisjoint ==
  /\ Holding \cap Releasing = {}
  /\ Holding \cap Resting = {}
  /\ Releasing \cap Resting = {}
BY DEF Holding, Releasing, Resting

-----------------------------------------------------------------------------
(* A step of loop w that leaves the queue alone, and moves w neither into nor
   out of the places where it holds a claim. *)
LEMMA LocalStep ==
  ASSUME TaskInv, TaskTypeOK', NEW w \in Worker, NEW from, NEW to,
         Goto(w, from, to),
         from \in Holding <=> to \in Holding,
         \/ UNCHANGED job /\ (to \in Resting => from \in Resting)
                          /\ (from \in Resting => to \in Resting)
         \/ to \in Resting /\ job' = [job EXCEPT ![w] = None],
         UNCHANGED <<queueVars, ingress, outcome>>
  PROVE  TaskInv'
<1> USE DEF TaskInv
<1>1. /\ QueueInv
      /\ EachJobInOnePlace' /\ ReadyAreDelayed'
      /\ UNCHANGED <<claimed_jobs, dead_letter_jobs>>
  BY TaskInvQueue, UnchangedQueueInv DEF QueueInv
<1>2. /\ pc \in [Worker -> Holding \cup Releasing \cup Resting]
      /\ job \in [Worker -> Job \cup {None}]
  BY DEF TaskTypeOK
<1>3. BusyLoopsHaveJobs'
  BY <1>2 DEF BusyLoopsHaveJobs, Goto
<1>4. NotYetEnqueued'
  BY DEF NotYetEnqueued
<1>5. Holders' = Holders /\ \A v \in Holders : job'[v] = job[v]
  BY <1>2, PlacesAreDisjoint DEF Holders, Goto, TaskTypeOK
<1>6. ExclusiveExecution'
  BY <1>1, <1>5 DEF ExclusiveExecution
<1>7. NoJobLost'
  BY DEF NoJobLost, InQueue, queueVars
<1>8. QED
  BY <1>1, <1>3, <1>4, <1>6, <1>7

(* A step that moves no loop and no handler, and after which the same jobs are
   queued, claimed, dead and over. *)
LEMMA QuietStep ==
  ASSUME TaskInv, TaskTypeOK', QueueInv',
         UNCHANGED <<Queued, claimed_jobs, dead_letter_jobs, pc, job, outcome>>,
         \A j \in Job : ingress[j] = "enqueued" <=> ingress'[j] = "enqueued"
  PROVE  TaskInv'
BY DEF TaskInv, QueueInv, BusyLoopsHaveJobs, NotYetEnqueued, ExclusiveExecution,
       Holders, NoJobLost, InQueue, Queued

(* A step by which loop w gives back the claim of its job j: the job is over,
   or it is queued again. *)
LEMMA ReleaseStep ==
  ASSUME TaskInv, TaskTypeOK', QueueInv',
         NEW w \in Worker, NEW from \in Holding, NEW to \in Releasing,
         Goto(w, from, to),
         claimed_jobs' = claimed_jobs \ {job[w]},
         \/ /\ \E how \in {"completed", "cancelled"} : End(job[w], how)
            /\ UNCHANGED <<Queued, dead_letter_jobs>>
         \/ /\ End(job[w], "dead")
            /\ dead_letter_jobs' = dead_letter_jobs \cup {job[w]}
            /\ UNCHANGED Queued
         \/ /\ Queued' = Queued \cup {job[w]}
            /\ UNCHANGED <<dead_letter_jobs, outcome>>,
         UNCHANGED <<job, ingress>>
  PROVE  TaskInv'
<1> USE DEF TaskInv
<1>1. /\ pc \in [Worker -> Holding \cup Releasing \cup Resting]
      /\ outcome \in [Job -> Outcomes \cup {"none"}]
  BY DEF TaskTypeOK
<1>2. job[w] \in Job /\ w \in Holders /\ job[w] \in claimed_jobs
  BY PlacesAreDisjoint DEF BusyLoopsHaveJobs, Goto, Holders, ExclusiveExecution
<1>3. BusyLoopsHaveJobs'
  BY <1>1, PlacesAreDisjoint DEF BusyLoopsHaveJobs, Goto
<1>4. ingress[job[w]] = "enqueued" /\ outcome[job[w]] = "none"
  BY <1>2 DEF NoJobLost
<1>5. NotYetEnqueued'
  BY <1>1, <1>4 DEF NotYetEnqueued, End
<1>6. Holders' = Holders \ {w}
  BY <1>1, PlacesAreDisjoint DEF Holders, Goto
<1>7. ExclusiveExecution'
  BY <1>2, <1>6 DEF ExclusiveExecution
<1>8. job[w] \notin Queued
  BY <1>2 DEF Queued, EachJobInOnePlace
<1>9. NoJobLost'
  BY <1>1, <1>2, <1>4, <1>8 DEF NoJobLost, InQueue, Queued, End
<1>10. QED
  BY <1>3, <1>5, <1>7, <1>9 DEF QueueInv
-----------------------------------------------------------------------------
(* The ingress handlers, the timers and stop(). *)
LEMMA PostControlMessageInv ==
  ASSUME TaskInv, NEW j \in Job, PostControlMessage(j) PROVE TaskInv'
<1>1. QueueInv' /\ UNCHANGED <<Queued, claimed_jobs, dead_letter_jobs>>
  BY TaskInvQueue, UnchangedQueueInv DEF PostControlMessage
<1>2. TaskTypeOK'
  BY <1>1 DEF QueueInv, TaskInv, TaskTypeOK, PostControlMessage, workerVars,
     clickVars, SameRegistry, Registry!RegistryTypeOK, Messages
<1>3. \A k \in Job : ingress[k] = "enqueued" <=> ingress'[k] = "enqueued"
  BY DEF PostControlMessage, TaskInv, TaskTypeOK
<1>4. QED
  BY <1>1, <1>2, <1>3, QuietStep DEF PostControlMessage, workerVars

LEMMA EnqueueJobInv ==
  ASSUME TaskInv, NEW j \in Job, EnqueueJob(j) PROVE TaskInv'
<1> USE DEF TaskInv, EnqueueJob
<1>1. ~Known(j)
  BY DEF NotYetEnqueued, NoJobLost, Known
<1>2. /\ QueueInv'
      /\ Queued' = Queued \cup {j}
      /\ UNCHANGED <<claimed_jobs, dead_letter_jobs>>
  BY <1>1, TaskInvQueue, EnqueueInv
<1>3. TaskTypeOK'
  BY <1>2 DEF QueueInv, TaskTypeOK, workerVars, clickVars, slackVars,
     SameRegistry, Registry!RegistryTypeOK
<1>4. BusyLoopsHaveJobs' /\ NotYetEnqueued' /\ ExclusiveExecution'
  BY <1>2 DEF BusyLoopsHaveJobs, NotYetEnqueued, ExclusiveExecution, Holders,
     workerVars, TaskTypeOK
<1>5. NoJobLost'
  BY <1>2 DEF NoJobLost, NotYetEnqueued, InQueue, Queued, TaskTypeOK
<1>6. QED
  BY <1>2, <1>3, <1>4, <1>5 DEF QueueInv

LEMMA BackoffTimerInv ==
  ASSUME TaskInv, NEW j \in Job, BackoffTimer(j) PROVE TaskInv'
<1>1. QueueInv' /\ UNCHANGED <<Queued, claimed_jobs, dead_letter_jobs>>
  BY TaskInvQueue, BackoffElapsesInv DEF BackoffTimer
<1>2. TaskTypeOK'
  BY <1>1 DEF QueueInv, TaskInv, TaskTypeOK, BackoffTimer, workerVars, clickVars,
     slackVars, SameRegistry, Registry!RegistryTypeOK
<1>3. QED
  BY <1>1, <1>2, QuietStep DEF BackoffTimer, workerVars

LEMMA StopInv == ASSUME TaskInv, Stop PROVE TaskInv'
<1>1. QueueInv' /\ UNCHANGED <<Queued, claimed_jobs, dead_letter_jobs>>
  BY TaskInvQueue, UnchangedQueueInv DEF Stop
<1>2. TaskTypeOK'
  BY <1>1 DEF QueueInv, TaskInv, TaskTypeOK, Stop, clickVars, slackVars,
     SameRegistry, Registry!RegistryTypeOK
<1>3. QED
  BY <1>1, <1>2, QuietStep DEF Stop
-----------------------------------------------------------------------------
(* The Cancel clicks. *)
LEMMA ClickCancelInv ==
  ASSUME TaskInv, NEW c \in Click, NEW j \in Job, ClickCancel(c, j) PROVE TaskInv'
<1>1. QueueInv' /\ UNCHANGED <<Queued, claimed_jobs, dead_letter_jobs>>
  BY TaskInvQueue, UnchangedQueueInv DEF ClickCancel
<1>2. TaskTypeOK'
  BY <1>1 DEF QueueInv, TaskInv, TaskTypeOK, ClickCancel, ClickPlaces, workerVars,
     slackVars, SameRegistry, Registry!RegistryTypeOK
<1>3. QED
  BY <1>1, <1>2, QuietStep DEF ClickCancel, workerVars

LEMMA CancelInQueueInv ==
  ASSUME TaskInv, NEW c \in Click, CancelInQueue(c) PROVE TaskInv'
<1> DEFINE j == click_job[c]
<1> USE DEF TaskInv
<1>1. /\ UNCHANGED <<workerVars, ingress, slackVars>> /\ SameRegistry
      /\ \E to \in ClickPlaces : ClickGoto(c, "clicked", to)
  BY DEF CancelInQueue, ClickPlaces
<1>2. CASE CancelQueued(j) /\ End(j, "cancelled")
  <2>1. /\ QueueInv'
        /\ j \in Queued /\ Queued' = Queued \ {j}
        /\ UNCHANGED <<claimed_jobs, dead_letter_jobs>>
    BY <1>2, TaskInvQueue, CancelQueuedInv
  <2>2. j \in Job
    BY <2>1, RangeOfSeq DEF Queued, TaskTypeOK, QueueTypeOK
  <2>3. ingress[j] = "enqueued" /\ outcome[j] = "none" /\ j \notin claimed_jobs
    BY <2>1, <2>2 DEF NoJobLost, InQueue, Queued, EachJobInOnePlace
  <2>4. TaskTypeOK'
    BY <1>1, <1>2, <2>1 DEF QueueInv, TaskTypeOK, ClickGoto, workerVars,
       slackVars, SameRegistry, Registry!RegistryTypeOK, End, Outcomes
  <2>5. BusyLoopsHaveJobs' /\ NotYetEnqueued' /\ ExclusiveExecution'
    BY <1>1, <1>2, <2>1, <2>3 DEF BusyLoopsHaveJobs, NotYetEnqueued,
       ExclusiveExecution, Holders, workerVars, End, TaskTypeOK
  <2>6. NoJobLost'
    BY <1>1, <1>2, <2>1, <2>2, <2>3 DEF NoJobLost, InQueue, Queued, End, TaskTypeOK
  <2>7. QED
    BY <2>1, <2>4, <2>5, <2>6 DEF QueueInv
<1>3. CASE CancelNotQueued(j) /\ UNCHANGED outcome
  <2>1. QueueInv' /\ UNCHANGED <<Queued, claimed_jobs, dead_letter_jobs>>
    BY <1>3, TaskInvQueue, CancelNotQueuedInv
  <2>2. TaskTypeOK'
    BY <1>1, <1>3, <2>1 DEF QueueInv, TaskTypeOK, ClickGoto, workerVars,
       slackVars, SameRegistry, Registry!RegistryTypeOK
  <2>3. QED
    BY <1>1, <1>3, <2>1, <2>2, QuietStep DEF workerVars
<1>4. QED
  BY <1>2, <1>3 DEF CancelInQueue, CancelAlreadyClaimed, CancelNotFound

LEMMA CancelInFlightInv ==
  ASSUME TaskInv, NEW c \in Click, CancelInFlight(c) PROVE TaskInv'
<1>1. QueueInv' /\ UNCHANGED <<Queued, claimed_jobs, dead_letter_jobs>>
  BY TaskInvQueue, UnchangedQueueInv DEF CancelInFlight
<1>2. Registry!RegistryTypeOK'
  BY DEF TaskInv, TaskTypeOK, CancelInFlight, Registry!RegistryTypeOK,
     Registry!RequestCancel, Registry!registryVars
<1>3. TaskTypeOK'
  BY <1>1, <1>2 DEF QueueInv, TaskInv, TaskTypeOK, CancelInFlight, ClickGoto,
     ClickPlaces, workerVars, slackVars
<1>4. QED
  BY <1>1, <1>3, QuietStep DEF CancelInFlight, workerVars

LEMMA AnnounceClickInv ==
  ASSUME TaskInv, NEW c \in Click, AnnounceClick(c) PROVE TaskInv'
<1>1. QueueInv' /\ UNCHANGED <<Queued, claimed_jobs, dead_letter_jobs>>
  BY TaskInvQueue, UnchangedQueueInv DEF AnnounceClick
<1>2. TaskTypeOK'
  BY <1>1 DEF QueueInv, TaskInv, TaskTypeOK, AnnounceClick, ClickGoto, ClickPlaces,
     UpdateMessage, Messages, workerVars, SameRegistry, Registry!RegistryTypeOK
<1>3. QED
  BY <1>1, <1>2, QuietStep DEF AnnounceClick, workerVars
-----------------------------------------------------------------------------
(* The worker loops: the steps that leave the queue alone. *)
LEMMA LocalTypes ==
  ASSUME TaskInv, UNCHANGED <<queueVars, ingress, clickVars, outcome>>
  PROVE  /\ QueueTypeOK'
         /\ ingress' \in [Job -> {"new", "posted", "enqueued", "refused"}]
         /\ click_pc' \in [Click -> ClickPlaces]
         /\ click_job' \in [Click -> Job \cup {None}]
         /\ outcome' \in [Job -> Outcomes \cup {"none"}]
         /\ SameRegistry => Registry!RegistryTypeOK'
         /\ \A j \in Job : Registry!Remove(j) => Registry!RegistryTypeOK'
         /\ \A j \in Job, w \in Worker :
              Registry!AttachCancellation(j, w) => Registry!RegistryTypeOK'
<1>1. QueueTypeOK'
  BY TaskInvQueue, UnchangedQueueInv DEF QueueInv
<1>2. QED
  BY <1>1 DEF TaskInv, TaskTypeOK, clickVars, SameRegistry,
     Registry!RegistryTypeOK, Registry!Remove, Registry!AttachCancellation,
     Registry!CancelRequested

LEMMA CheckRunningInv ==
  ASSUME TaskInv, NEW w \in Worker, CheckRunning(w) PROVE TaskInv'
<1> DEFINE to == IF is_running THEN "claiming" ELSE "stopped"
<1>1. to \in Resting /\ "loop" \in Resting
  BY DEF Resting
<1>2. TaskTypeOK'
  BY <1>1, LocalTypes DEF TaskInv, TaskTypeOK, CheckRunning, Goto, KeepLocals,
     slackVars
<1> HIDE DEF to
<1>3. Goto(w, "loop", to)
  BY DEF CheckRunning, to
<1>4. QED
  BY <1>1, <1>2, <1>3, LocalStep, PlacesAreDisjoint DEF CheckRunning, KeepLocals

LEMMA ClaimNothingInv ==
  ASSUME TaskInv, NEW w \in Worker, ClaimNothing(w) PROVE TaskInv'
<1>1. "loop" \in Resting /\ "claiming" \in Resting
  BY DEF Resting
<1>2. TaskTypeOK'
  BY <1>1, LocalTypes DEF TaskInv, TaskTypeOK, ClaimNothing, Goto, KeepLocals,
     slackVars
<1>3. QED
  BY <1>1, <1>2, LocalStep, PlacesAreDisjoint DEF ClaimNothing, KeepLocals

LEMMA AttachInv ==
  ASSUME TaskInv, NEW w \in Worker, Attach(w) PROVE TaskInv'
<1>1. {"claimed", "completeCancelled", "announceRunning"} \subseteq Holding
  BY DEF Holding
<1>2. job[w] \in Job
  BY PlacesAreDisjoint, <1>1 DEF TaskInv, BusyLoopsHaveJobs, Attach, Goto
<1>3. cancellation_requests[job[w]] \in Click \cup {None}
  BY <1>2 DEF TaskInv, TaskTypeOK, Registry!RegistryTypeOK
<1>4. TaskTypeOK'
  BY <1>1, <1>2, <1>3, LocalTypes DEF TaskInv, TaskTypeOK, Attach, Goto, slackVars
<1>5. QED
  BY <1>1, <1>4, LocalStep, PlacesAreDisjoint DEF Attach

LEMMA AnnounceRunningInv ==
  ASSUME TaskInv, NEW w \in Worker, AnnounceRunning(w) PROVE TaskInv'
<1>1. {"announceRunning", "starting"} \subseteq Holding
  BY DEF Holding
<1>2. TaskTypeOK'
  BY <1>1, LocalTypes DEF TaskInv, TaskTypeOK, AnnounceRunning, Goto, KeepLocals,
     UpdateMessage, Messages
<1>3. QED
  BY <1>1, <1>2, LocalStep, PlacesAreDisjoint DEF AnnounceRunning, KeepLocals

LEMMA StartRunInv ==
  ASSUME TaskInv, NEW w \in Worker, StartRun(w) PROVE TaskInv'
<1>1. {"starting", "completeCancelled", "registering"} \subseteq Holding
  BY DEF Holding
<1>2. TaskTypeOK'
  BY <1>1, LocalTypes DEF TaskInv, TaskTypeOK, StartRun, Goto, KeepLocals, slackVars
<1>3. QED
  BY <1>1, <1>2, LocalStep, PlacesAreDisjoint DEF StartRun, KeepLocals

LEMMA AwaitNotificationInv ==
  ASSUME TaskInv, NEW w \in Worker, AwaitNotification(w) PROVE TaskInv'
<1>1. {"registering", "running"} \subseteq Holding
  BY DEF Holding
<1>2. TaskTypeOK'
  BY <1>1, LocalTypes DEF TaskInv, TaskTypeOK, AwaitNotification, Goto, KeepLocals,
     slackVars
<1>3. QED
  BY <1>1, <1>2, LocalStep, PlacesAreDisjoint DEF AwaitNotification, KeepLocals

LEMMA RunnerReturnsInv ==
  ASSUME TaskInv, NEW w \in Worker, RunnerReturns(w) PROVE TaskInv'
<1>1. {"running", "completeCancelled", "replying", "failing"} \subseteq Holding
  BY DEF Holding
<1>2. TaskTypeOK'
  BY <1>1, LocalTypes DEF TaskInv, TaskTypeOK, RunnerReturns, Goto, slackVars
<1>3. QED
  BY <1>1, <1>2, LocalStep, PlacesAreDisjoint DEF RunnerReturns

LEMMA RunCancelledInv ==
  ASSUME TaskInv, NEW w \in Worker, RunCancelled(w) PROVE TaskInv'
<1>1. {"running", "completeCancelled"} \subseteq Holding
  BY DEF Holding
<1>2. TaskTypeOK'
  BY <1>1, LocalTypes DEF TaskInv, TaskTypeOK, RunCancelled, Goto, KeepLocals,
     slackVars
<1>3. QED
  BY <1>1, <1>2, LocalStep, PlacesAreDisjoint DEF RunCancelled, KeepLocals

LEMMA PostReportInv ==
  ASSUME TaskInv, NEW w \in Worker, PostReport(w) PROVE TaskInv'
<1>1. {"replying", "completing", "failing"} \subseteq Holding
  BY DEF Holding
<1>2. job[w] \in Job
  BY PlacesAreDisjoint, <1>1 DEF TaskInv, BusyLoopsHaveJobs, PostReport, Goto
<1>3. TaskTypeOK'
  BY <1>1, <1>2, LocalTypes DEF TaskInv, TaskTypeOK, PostReport, Goto, KeepLocals
<1>4. QED
  BY <1>1, <1>3, LocalStep, PlacesAreDisjoint DEF PostReport, KeepLocals

(* The end of an iteration, from a place where the claim is already given back. *)
LEMMA EndIterationInv ==
  ASSUME TaskInv, NEW w \in Worker, NEW from \in Releasing, EndIteration(w, from),
         message' \in [Job -> Messages], UNCHANGED reported,
         SameRegistry \/ Registry!Remove(job[w]),
         UNCHANGED <<queueVars, ingress, clickVars, outcome>>
  PROVE  TaskInv'
<1>1. "loop" \in Resting
  BY DEF Resting
<1>2. job[w] \in Job
  BY PlacesAreDisjoint DEF TaskInv, BusyLoopsHaveJobs, EndIteration, Goto
<1>3. TaskTypeOK'
  BY <1>1, <1>2, LocalTypes DEF TaskInv, TaskTypeOK, EndIteration, Goto
<1>4. QED
  BY <1>1, <1>3, LocalStep, PlacesAreDisjoint DEF EndIteration

LEMMA RemoveCompletedInv ==
  ASSUME TaskInv, NEW w \in Worker, RemoveCompleted(w) PROVE TaskInv'
<1>1. {"removeCompleted", "announceCompleted"} \subseteq Releasing
  BY DEF Releasing
<1>2. job[w] \in Job
  BY PlacesAreDisjoint, <1>1 DEF TaskInv, BusyLoopsHaveJobs, RemoveCompleted, Goto
<1>3. TaskTypeOK'
  BY <1>1, <1>2, LocalTypes DEF TaskInv, TaskTypeOK, RemoveCompleted, Goto,
     KeepLocals, slackVars
<1>4. QED
  BY <1>1, <1>3, LocalStep, PlacesAreDisjoint DEF RemoveCompleted, KeepLocals

LEMMA RemoveDeadInv ==
  ASSUME TaskInv, NEW w \in Worker, RemoveDead(w) PROVE TaskInv'
<1>1. {"removeDead", "announceFailed"} \subseteq Releasing
  BY DEF Releasing
<1>2. job[w] \in Job
  BY PlacesAreDisjoint, <1>1 DEF TaskInv, BusyLoopsHaveJobs, RemoveDead, Goto
<1>3. TaskTypeOK'
  BY <1>1, <1>2, LocalTypes DEF TaskInv, TaskTypeOK, RemoveDead, Goto,
     KeepLocals, slackVars
<1>4. QED
  BY <1>1, <1>3, LocalStep, PlacesAreDisjoint DEF RemoveDead, KeepLocals

LEMMA AnnounceFailedInv ==
  ASSUME TaskInv, NEW w \in Worker, AnnounceFailed(w) PROVE TaskInv'
<1>1. {"announceFailed", "postFailure"} \subseteq Releasing
  BY DEF Releasing
<1>2. job[w] \in Job
  BY PlacesAreDisjoint, <1>1 DEF TaskInv, BusyLoopsHaveJobs, AnnounceFailed, Goto
<1>3. TaskTypeOK'
  BY <1>1, <1>2, LocalTypes DEF TaskInv, TaskTypeOK, AnnounceFailed, Goto,
     KeepLocals, UpdateMessage, Messages
<1>4. QED
  BY <1>1, <1>3, LocalStep, PlacesAreDisjoint DEF AnnounceFailed, KeepLocals

LEMMA AnnounceCompletedInv ==
  ASSUME TaskInv, NEW w \in Worker, AnnounceCompleted(w) PROVE TaskInv'
BY EndIterationInv DEF AnnounceCompleted, Releasing, TaskInv, TaskTypeOK, UpdateMessage,
   Messages

LEMMA AnnounceCancelledInv ==
  ASSUME TaskInv, NEW w \in Worker, AnnounceCancelled(w) PROVE TaskInv'
BY EndIterationInv DEF AnnounceCancelled, Releasing, TaskInv, TaskTypeOK, UpdateMessage,
   Messages

LEMMA RemoveRequeuedInv ==
  ASSUME TaskInv, NEW w \in Worker, RemoveRequeued(w) PROVE TaskInv'
BY EndIterationInv DEF RemoveRequeued, Releasing, TaskInv, TaskTypeOK, slackVars

LEMMA PostFailureInv ==
  ASSUME TaskInv, NEW w \in Worker, PostFailure(w) PROVE TaskInv'
BY EndIterationInv DEF PostFailure, Releasing, TaskInv, TaskTypeOK, slackVars

LEMMA RemoveCancelledInv ==
  ASSUME TaskInv, NEW w \in Worker, RemoveCancelled(w) PROVE TaskInv'
<1> DEFINE j == job[w]
           removed == Registry!CancelRequested(j) \/ cancellations[j] # None
<1>1. {"removeCancelled", "announceCancelled"} \subseteq Releasing
  BY DEF Releasing
<1>2. job[w] \in Job
  BY PlacesAreDisjoint, <1>1 DEF TaskInv, BusyLoopsHaveJobs, RemoveCancelled,
     EndIteration, Goto
<1>3. cancellation_requests[j] \in Click \cup {None}
  BY <1>2 DEF TaskInv, TaskTypeOK, Registry!RegistryTypeOK
<1>4. CASE /\ Goto(w, "removeCancelled", "announceCancelled")
           /\ handle' = [handle EXCEPT ![w] =
                           IF removed THEN cancellation_requests[j] ELSE @]
           /\ UNCHANGED <<is_running, job, permanent, woken>>
  <2>1. handle' \in [Worker -> Click \cup {None}]
    BY <1>3, <1>4 DEF TaskInv, TaskTypeOK
  <2>2. TaskTypeOK'
    BY <1>1, <1>2, <1>4, <2>1, LocalTypes DEF TaskInv, TaskTypeOK,
       RemoveCancelled, Goto, slackVars
  <2>3. QED
    BY <1>1, <1>4, <2>2, LocalStep, PlacesAreDisjoint DEF RemoveCancelled
<1>5. CASE EndIteration(w, "removeCancelled")
  BY <1>1, <1>5, EndIterationInv DEF RemoveCancelled, slackVars, TaskInv, TaskTypeOK
<1>6. QED
  BY <1>4, <1>5 DEF RemoveCancelled
-----------------------------------------------------------------------------
(* The worker loops: the steps that claim a job, and those that give it back. *)
LEMMA ClaimJobInv ==
  ASSUME TaskInv, NEW w \in Worker, ClaimJob(w) PROVE TaskInv'
<1> USE DEF TaskInv
<1>1. PICK j \in Job : Claim(j) /\ job' = [job EXCEPT ![w] = j]
  BY DEF ClaimJob
<1>2. /\ QueueInv'
      /\ j \in Queued /\ Queued' = Queued \ {j}
      /\ claimed_jobs' = claimed_jobs \cup {j} /\ UNCHANGED dead_letter_jobs
  BY <1>1, TaskInvQueue, ClaimInv
<1>3. "claiming" \in Resting /\ "claimed" \in Holding
  BY DEF Resting, Holding
<1>4. /\ pc[w] = "claiming" /\ pc' = [pc EXCEPT ![w] = "claimed"]
      /\ pc \in [Worker -> Holding \cup Releasing \cup Resting]
      /\ job \in [Worker -> Job \cup {None}]
  BY DEF ClaimJob, Goto, TaskTypeOK
<1>5. TaskTypeOK'
  BY <1>1, <1>2, <1>3, <1>4 DEF QueueInv, TaskTypeOK, ClaimJob, slackVars,
     clickVars, SameRegistry, Registry!RegistryTypeOK
<1>6. BusyLoopsHaveJobs'
  BY <1>1, <1>4 DEF BusyLoopsHaveJobs
<1>7. NotYetEnqueued'
  BY DEF NotYetEnqueued, ClaimJob
<1>8. w \notin Holders /\ Holders' = Holders \cup {w}
  BY <1>3, <1>4, PlacesAreDisjoint DEF Holders
<1>9. j \notin claimed_jobs
  BY <1>2 DEF Queued, EachJobInOnePlace
<1>10. \A v \in Holders : job'[v] = job[v] /\ job[v] # j
  BY <1>1, <1>8, <1>9 DEF ExclusiveExecution, TaskTypeOK
<1>11. job'[w] = j
  BY <1>1, <1>4
<1>12. ExclusiveExecution'
  BY <1>2, <1>8, <1>10, <1>11 DEF ExclusiveExecution
<1>13. NoJobLost'
  BY <1>2 DEF NoJobLost, InQueue, Queued, ClaimJob
<1>14. QED
  BY <1>2, <1>5, <1>6, <1>7, <1>12, <1>13 DEF QueueInv

LEMMA CompleteJobInv ==
  ASSUME TaskInv, NEW w \in Worker, CompleteJob(w) PROVE TaskInv'
<1>1. "completing" \in Holding /\ "removeCompleted" \in Releasing
  BY DEF Holding, Releasing
<1>2. /\ QueueInv'
      /\ claimed_jobs' = claimed_jobs \ {job[w]}
      /\ UNCHANGED <<Queued, dead_letter_jobs>>
  BY TaskInvQueue, CompleteInv DEF CompleteJob
<1>3. TaskTypeOK'
  BY <1>1, <1>2 DEF TaskInv, QueueInv, TaskTypeOK, CompleteJob, Goto, KeepLocals,
     slackVars, clickVars, SameRegistry, Registry!RegistryTypeOK, End, Outcomes
<1>4. QED
  BY <1>1, <1>2, <1>3, ReleaseStep DEF CompleteJob, KeepLocals

LEMMA CompleteCancelledJobInv ==
  ASSUME TaskInv, NEW w \in Worker, CompleteCancelledJob(w) PROVE TaskInv'
<1>1. "completeCancelled" \in Holding /\ "removeCancelled" \in Releasing
  BY DEF Holding, Releasing
<1>2. /\ QueueInv'
      /\ claimed_jobs' = claimed_jobs \ {job[w]}
      /\ UNCHANGED <<Queued, dead_letter_jobs>>
  BY TaskInvQueue, CompleteInv DEF CompleteCancelledJob
<1>3. TaskTypeOK'
  BY <1>1, <1>2 DEF TaskInv, QueueInv, TaskTypeOK, CompleteCancelledJob, Goto,
     KeepLocals, slackVars, clickVars, SameRegistry, Registry!RegistryTypeOK, End,
     Outcomes
<1>4. QED
  BY <1>1, <1>2, <1>3, ReleaseStep DEF CompleteCancelledJob, KeepLocals

LEMMA FailJobInv ==
  ASSUME TaskInv, NEW w \in Worker, FailJob(w) PROVE TaskInv'
<1> DEFINE j == job[w]
<1>1. "failing" \in Holding /\ {"removeRequeued", "removeDead"} \subseteq Releasing
  BY DEF Holding, Releasing
<1>2. job[w] \in Job
  BY PlacesAreDisjoint, <1>1 DEF TaskInv, BusyLoopsHaveJobs, FailJob, Goto
<1>3. EffectiveMaxRetry(w) \in 0..MaxRetry
  BY <1>2, QueueAssumption DEF EffectiveMaxRetry, TaskInv, TaskTypeOK, QueueTypeOK
<1>4. UNCHANGED <<job, ingress>> /\ KeepLocals /\ SameRegistry
      /\ UNCHANGED <<clickVars, slackVars>>
  BY DEF FailJob, KeepLocals
<1>5. CASE /\ Goto(w, "failing", "removeRequeued")
           /\ FailRequeued(j, EffectiveMaxRetry(w))
           /\ UNCHANGED outcome
  <2>1. /\ QueueInv'
        /\ Queued' = Queued \cup {j}
        /\ claimed_jobs' = claimed_jobs \ {j}
        /\ UNCHANGED dead_letter_jobs
    BY <1>3, <1>5, TaskInvQueue, FailRequeuedInv
  <2>2. TaskTypeOK'
    BY <1>1, <1>4, <1>5, <2>1 DEF TaskInv, QueueInv, TaskTypeOK, Goto, KeepLocals,
       slackVars, clickVars, SameRegistry, Registry!RegistryTypeOK
  <2>3. QED
    BY <1>1, <1>4, <1>5, <2>1, <2>2, ReleaseStep
<1>6. CASE /\ Goto(w, "failing", "removeDead")
           /\ FailDeadLetter(j, EffectiveMaxRetry(w))
           /\ End(j, "dead")
  <2>1. /\ QueueInv'
        /\ UNCHANGED Queued
        /\ claimed_jobs' = claimed_jobs \ {j}
        /\ dead_letter_jobs' = dead_letter_jobs \cup {j}
    BY <1>6, TaskInvQueue, FailDeadLetterInv
  <2>2. TaskTypeOK'
    BY <1>1, <1>4, <1>6, <2>1 DEF TaskInv, QueueInv, TaskTypeOK, Goto, KeepLocals,
       slackVars, clickVars, SameRegistry, Registry!RegistryTypeOK, End, Outcomes
  <2>3. QED
    BY <1>1, <1>4, <1>6, <2>1, <2>2, ReleaseStep
<1>7. QED
  BY <1>5, <1>6 DEF FailJob
-----------------------------------------------------------------------------
LEMMA TaskInitInv == TaskInit => TaskInv
<1> SUFFICES ASSUME TaskInit PROVE TaskInv
  OBVIOUS
<1>1. QueueInv /\ Queued = {} /\ claimed_jobs = {} /\ dead_letter_jobs = {}
  BY QueueInitInv DEF TaskInit, QueueInit
<1>2. "loop" \in Resting /\ "loop" \notin Holding
  BY DEF Resting, Holding
<1>3. TaskTypeOK
  BY <1>1, <1>2 DEF QueueInv, TaskInit, TaskTypeOK, Registry!RegistryInit,
     Registry!RegistryTypeOK, ClickPlaces, Messages
<1>4. Holders = {}
  BY <1>2 DEF Holders, TaskInit
<1>5. QED
  BY <1>1, <1>2, <1>3, <1>4 DEF TaskInit, TaskInv, QueueInv, BusyLoopsHaveJobs,
     NotYetEnqueued, ExclusiveExecution, NoJobLost, InQueue, Queued

LEMMA TaskStepInv == TaskInv /\ [TaskNext]_taskVars => TaskInv'
<1> SUFFICES ASSUME TaskInv, [TaskNext]_taskVars PROVE TaskInv'
  OBVIOUS
<1>1. CASE UNCHANGED taskVars
  <2>1. QueueInv' /\ UNCHANGED <<Queued, claimed_jobs, dead_letter_jobs>>
    BY <1>1, TaskInvQueue, UnchangedQueueInv DEF taskVars
  <2>2. TaskTypeOK'
    BY <1>1, <2>1 DEF taskVars, TaskInv, QueueInv, TaskTypeOK, workerVars,
       clickVars, slackVars, Registry!RegistryTypeOK
  <2>3. QED
    BY <1>1, <2>1, <2>2, QuietStep DEF taskVars, workerVars
<1>2. CASE \E w \in Worker : WorkerStep(w)
  BY <1>2, CheckRunningInv, ClaimJobInv, ClaimNothingInv, AttachInv,
     AnnounceRunningInv, StartRunInv, AwaitNotificationInv, RunCancelledInv,
     PostReportInv, CompleteJobInv,
     RemoveCompletedInv, AnnounceCompletedInv, CompleteCancelledJobInv,
     RemoveCancelledInv, AnnounceCancelledInv, FailJobInv, RemoveRequeuedInv,
     RemoveDeadInv, AnnounceFailedInv, PostFailureInv, RunnerReturnsInv
     DEF WorkerStep, WorkerProgress
<1>3. CASE \E j \in Job : IngressStep(j) \/ BackoffTimer(j)
  BY <1>3, PostControlMessageInv, EnqueueJobInv, BackoffTimerInv DEF IngressStep
<1>4. CASE \E c \in Click : ClickStep(c) \/ \E j \in Job : ClickCancel(c, j)
  BY <1>4, CancelInQueueInv, CancelInFlightInv, AnnounceClickInv, ClickCancelInv
     DEF ClickStep
<1>5. CASE Stop
  BY <1>5, StopInv
<1>6. QED
  BY <1>1, <1>2, <1>3, <1>4, <1>5 DEF TaskNext

(* Every variable keeps its type, whatever the interleaving. *)
THEOREM TaskTypesHold == TaskSpec => []TaskTypeOK
<1>1. TaskInv => TaskTypeOK
  BY DEF TaskInv
<1>2. QED
  BY <1>1, TaskInitInv, TaskStepInv, PTL DEF TaskSpec

(* No two loops of worker.rs ever execute the same job, and no claim of the
   queue is left without the loop that will give it back. *)
THEOREM OneLoopPerJob == TaskSpec => []ExclusiveExecution
<1>1. TaskInv => ExclusiveExecution
  BY DEF TaskInv
<1>2. QED
  BY <1>1, TaskInitInv, TaskStepInv, PTL DEF TaskSpec

(* Between enqueue and its one ending a job is always queued or claimed, and
   never afterwards: no path of worker.rs or cancel.rs drops or revives one. *)
THEOREM NoTaskIsLost == TaskSpec => []NoJobLost
<1>1. TaskInv => NoJobLost
  BY DEF TaskInv
<1>2. QED
  BY <1>1, TaskInitInv, TaskStepInv, PTL DEF TaskSpec
-----------------------------------------------------------------------------
(***************************************************************************)
(* The refinement of TaskLifecycle.  An enqueue resets a retry count that  *)
(* is still zero, which TaskInv does not say: FreshCount does.             *)
(***************************************************************************)
FreshCount == \A j \in Job : ingress[j] # "enqueued" => retry_count[j] = 0

LifeInv == TaskInv /\ FreshCount

(* The steps of the loops, the handlers and the clicks that the life of a task
   does not show. *)
LEMMA InvisibleSteps ==
  ASSUME TaskInv, [TaskNext]_taskVars
  PROVE  \/ \E j \in Job : EnqueueJob(j)
         \/ \E w \in Worker : ClaimJob(w) \/ CompleteJob(w) \/ FailJob(w)
                              \/ CompleteCancelledJob(w)
         \/ \E c \in Click : /\ UNCHANGED ingress
                             /\ CancelQueued(click_job[c])
                             /\ End(click_job[c], "cancelled")
         \/ /\ UNCHANGED <<Queued, claimed_jobs, outcome, retry_count>>
            /\ \A j \in Job : ingress[j] = "enqueued" <=> ingress'[j] = "enqueued"
<1> DEFINE Invisible ==
      /\ UNCHANGED <<Queued, claimed_jobs, outcome, retry_count>>
      /\ \A j \in Job : ingress[j] = "enqueued" <=> ingress'[j] = "enqueued"
<1> USE TaskInvQueue
<1>1. UNCHANGED <<queueVars, ingress, outcome>> => Invisible
  BY DEF queueVars, Queued
<1>2. CASE UNCHANGED taskVars
  BY <1>1, <1>2 DEF taskVars
<1>3. ASSUME NEW w \in Worker, WorkerStep(w)
      PROVE  \/ ClaimJob(w) \/ CompleteJob(w) \/ FailJob(w)
             \/ CompleteCancelledJob(w) \/ Invisible
  <2> HIDE DEF Invisible
  <2>1. CASE \/ CheckRunning(w) \/ ClaimNothing(w) \/ Attach(w)
             \/ AnnounceRunning(w) \/ StartRun(w) \/ AwaitNotification(w)
             \/ RunCancelled(w) \/ PostReport(w) \/ RunnerReturns(w)
    BY <1>1, <2>1 DEF CheckRunning, ClaimNothing, Attach, AnnounceRunning,
       StartRun, AwaitNotification, RunCancelled, PostReport, RunnerReturns
  <2>2. CASE \/ RemoveCompleted(w) \/ AnnounceCompleted(w) \/ RemoveCancelled(w)
             \/ AnnounceCancelled(w) \/ RemoveRequeued(w) \/ RemoveDead(w)
             \/ AnnounceFailed(w) \/ PostFailure(w)
    BY <1>1, <2>2 DEF RemoveCompleted, AnnounceCompleted, RemoveCancelled,
       AnnounceCancelled, RemoveRequeued, RemoveDead, AnnounceFailed, PostFailure
  <2>3. QED
    BY <1>3, <2>1, <2>2 DEF WorkerStep, WorkerProgress
<1>4. ASSUME NEW j \in Job, PostControlMessage(j) PROVE Invisible
  BY <1>4 DEF PostControlMessage, queueVars, Queued, TaskInv, TaskTypeOK
<1>5. ASSUME NEW j \in Job, BackoffTimer(j) PROVE Invisible
  BY <1>5, BackoffElapsesInv DEF BackoffTimer, BackoffElapses
<1>6. CASE Stop
  BY <1>1, <1>6 DEF Stop
<1>7. ASSUME NEW c \in Click, ClickStep(c) \/ \E j \in Job : ClickCancel(c, j)
      PROVE  \/ /\ UNCHANGED ingress
                /\ CancelQueued(click_job[c])
                /\ End(click_job[c], "cancelled")
             \/ Invisible
  <2>1. CASE \/ CancelInFlight(c) \/ AnnounceClick(c)
             \/ \E j \in Job : ClickCancel(c, j)
    BY <1>1, <2>1 DEF CancelInFlight, AnnounceClick, ClickCancel
  <2>2. CASE CancelInQueue(c)
    <3>1. CASE CancelNotQueued(click_job[c]) /\ UNCHANGED outcome
      BY <2>2, <3>1, CancelNotQueuedInv DEF CancelInQueue, CancelNotQueued
    <3>2. QED
      BY <2>2, <3>1 DEF CancelInQueue, CancelAlreadyClaimed, CancelNotFound
  <2>3. QED
    BY <1>7, <2>1, <2>2 DEF ClickStep
<1>8. QED
  BY <1>2, <1>3, <1>4, <1>5, <1>6, <1>7 DEF TaskNext, IngressStep

LEMMA FreshCountStep == LifeInv /\ [TaskNext]_taskVars => FreshCount'
<1> SUFFICES ASSUME LifeInv, [TaskNext]_taskVars PROVE FreshCount'
  OBVIOUS
<1> USE DEF LifeInv
<1>1. /\ ingress \in [Job -> {"new", "posted", "enqueued", "refused"}]
      /\ retry_count \in [Job -> 0..MaxRetry]
  BY DEF TaskInv, TaskTypeOK, QueueTypeOK
<1>2. ASSUME NEW j \in Job, EnqueueJob(j) PROVE FreshCount'
  BY <1>1, <1>2 DEF FreshCount, EnqueueJob, Enqueue
<1>3. ASSUME NEW w \in Worker,
             ClaimJob(w) \/ CompleteJob(w) \/ CompleteCancelledJob(w)
      PROVE  FreshCount'
  BY <1>3 DEF FreshCount, ClaimJob, Claim, CompleteJob, CompleteCancelledJob, Complete
<1>4. ASSUME NEW w \in Worker, FailJob(w) PROVE FreshCount'
  <2>1. UNCHANGED ingress
    BY <1>4 DEF FailJob
  <2>2. CASE UNCHANGED retry_count
    BY <2>1, <2>2 DEF FreshCount
  <2>3. CASE FailRequeued(job[w], EffectiveMaxRetry(w))
    <3>1. job[w] \in Job /\ ingress[job[w]] = "enqueued"
      BY <2>3 DEF FailRequeued, TaskInv, TaskTypeOK, QueueTypeOK, NoJobLost
    <3>2. QED
      BY <1>1, <2>1, <2>3, <3>1 DEF FreshCount, FailRequeued
  <2>4. QED
    BY <1>4, <2>2, <2>3 DEF FailJob, FailDeadLetter
<1>5. ASSUME NEW c \in Click, CancelQueued(click_job[c]), UNCHANGED ingress
      PROVE  FreshCount'
  BY <1>5 DEF FreshCount, CancelQueued
<1>6. CASE /\ UNCHANGED <<Queued, claimed_jobs, outcome, retry_count>>
           /\ \A j \in Job : ingress[j] = "enqueued" <=> ingress'[j] = "enqueued"
  BY <1>6 DEF FreshCount
<1>7. QED
  BY <1>2, <1>3, <1>4, <1>5, <1>6, InvisibleSteps

LEMMA LifeInvHolds == TaskSpec => []LifeInv
<1>1. TaskInit => LifeInv
  BY TaskInitInv DEF LifeInv, FreshCount, TaskInit, QueueInit
<1>2. LifeInv /\ [TaskNext]_taskVars => LifeInv'
  BY TaskStepInv, FreshCountStep DEF LifeInv
<1>3. QED
  BY <1>1, <1>2, PTL DEF TaskSpec

phases == [j \in Job |-> Phase(j)]

(* What the life of each task shows, in terms of the queue. *)
LEMMA PhaseMeaning ==
  ASSUME TaskInv, NEW j \in Job
  PROVE  /\ phases[j] = "running" <=> j \in claimed_jobs
         /\ phases[j] = "queued" <=> j \in Queued
         /\ phases[j] = "absent" <=> ingress[j] # "enqueued"
         /\ outcome[j] # "none" => phases[j] = outcome[j]
<1> USE DEF TaskInv, phases, Phase
<1>1. outcome[j] \in Outcomes \cup {"none"}
  BY DEF TaskTypeOK
<1>2. j \in Queued => j \notin claimed_jobs
  BY DEF Queued, EachJobInOnePlace
<1>3. /\ (ingress[j] = "enqueued" /\ outcome[j] = "none")
           <=> (j \in Queued \/ j \in claimed_jobs)
      /\ ingress[j] # "enqueued" => outcome[j] = "none"
  BY DEF NoJobLost, NotYetEnqueued, InQueue, Queued
<1>4. QED
  BY <1>1, <1>2, <1>3 DEF InQueue, Queued, Outcomes

(* A step that changes the phase of one job only is a Move of TaskLifecycle. *)
LEMMA OneMoves ==
  ASSUME NEW j \in Job, NEW from, NEW to,
         phases[j] = from, phases'[j] = to,
         \A k \in Job \ {j} : phases'[k] = phases[k]
  PROVE  Lifecycle!Move(j, from, to)
BY DEF Lifecycle!Move, phases

(* Fewer tasks run than there are loops whenever some loop holds none. *)
LEMMA AFreeLoopIsAFreeSlot ==
  ASSUME TaskInv, NEW w \in Worker, w \notin Holders
  PROVE  Cardinality({k \in Job : phases[k] = "running"}) < Cardinality(Worker)
<1> DEFINE held == {job[v] : v \in Holders}
<1>1. IsFiniteSet(Worker) /\ Holders \subseteq Worker \ {w}
  BY TaskAssumption DEF Holders
<1>2. /\ IsFiniteSet(Worker \ {w})
      /\ Cardinality(Worker \ {w}) = Cardinality(Worker) - 1
      /\ Cardinality(Worker) \in Nat
  BY <1>1, FS_RemoveElement, FS_CardinalityType
<1>3. /\ IsFiniteSet(Holders)
      /\ Cardinality(Holders) <= Cardinality(Worker \ {w})
      /\ Cardinality(Holders) \in Nat
  BY <1>1, <1>2, FS_Subset, FS_CardinalityType
<1>4. Cardinality(held) <= Cardinality(Holders) /\ Cardinality(held) \in Nat
  <2> DEFINE f == [v \in Holders |-> job[v]]
  <2>1. f \in Surjection(Holders, held)
    BY DEF Surjection
  <2> HIDE DEF f, held
  <2>2. IsFiniteSet(held) /\ Cardinality(held) <= Cardinality(Holders)
    BY <1>3, <2>1, FS_Surjection
  <2>3. QED
    BY <2>2, FS_CardinalityType
<1>5. {k \in Job : phases[k] = "running"} = held
  <2>1. claimed_jobs = held /\ claimed_jobs \subseteq Job
    BY DEF TaskInv, ExclusiveExecution, TaskTypeOK, QueueTypeOK
  <2>2. \A k \in Job : phases[k] = "running" <=> k \in claimed_jobs
    BY PhaseMeaning
  <2> HIDE DEF held
  <2>3. QED
    BY <2>1, <2>2
<1>6. QED
  BY <1>2, <1>3, <1>4, <1>5

LEMMA EnqueueIsSubmit ==
  ASSUME LifeInv, NEW j \in Job, EnqueueJob(j)
  PROVE  Lifecycle!Submit(j)
<1> USE DEF LifeInv
<1>1. /\ ingress \in [Job -> {"new", "posted", "enqueued", "refused"}]
      /\ retry_count \in [Job -> 0..MaxRetry]
  BY DEF TaskInv, TaskTypeOK, QueueTypeOK
<1>2. ingress[j] # "enqueued" /\ ingress' = [ingress EXCEPT ![j] = "enqueued"]
  BY DEF EnqueueJob
<1>3. Queued' = Queued \cup {j} /\ UNCHANGED <<claimed_jobs, outcome>>
  BY TaskInvQueue, EnqueueInv DEF EnqueueJob, TaskInv, NotYetEnqueued, NoJobLost,
     Known
<1>4. phases[j] = "absent"
  BY <1>2, PhaseMeaning
<1>5. outcome[j] = "none" /\ j \notin claimed_jobs
  BY <1>2 DEF TaskInv, NotYetEnqueued, NoJobLost
<1>6. phases'[j] = "queued"
  BY <1>3, <1>5 DEF phases, Phase, InQueue, Queued
<1>7. \A k \in Job \ {j} : phases'[k] = phases[k]
  BY <1>3 DEF phases, Phase, InQueue, Queued
<1>8. UNCHANGED retry_count
  BY <1>1, <1>2 DEF EnqueueJob, Enqueue, FreshCount
<1>9. QED
  BY <1>4, <1>6, <1>7, <1>8, OneMoves DEF Lifecycle!Submit

LEMMA ClaimIsStart ==
  ASSUME LifeInv, NEW w \in Worker, ClaimJob(w)
  PROVE  \E j \in Job : Lifecycle!Start(j)
<1> USE DEF LifeInv
<1>1. PICK j \in Job : Claim(j)
  BY DEF ClaimJob
<1>2. /\ j \in Queued /\ Queued' = Queued \ {j}
      /\ claimed_jobs' = claimed_jobs \cup {j}
      /\ UNCHANGED <<outcome, retry_count>>
  BY <1>1, TaskInvQueue, ClaimInv DEF ClaimJob, Claim
<1>3. w \notin Holders
  BY PlacesAreDisjoint DEF Holders, ClaimJob, Goto, Resting
<1>4. phases[j] = "queued" /\ outcome[j] = "none"
  BY <1>2, PhaseMeaning DEF TaskInv, NoJobLost, InQueue, Queued
<1>5. phases'[j] = "running"
  BY <1>2, <1>4 DEF phases, Phase
<1>6. \A k \in Job \ {j} : phases'[k] = phases[k]
  BY <1>2 DEF phases, Phase, InQueue, Queued
<1>7. Lifecycle!Move(j, "queued", "running")
  BY <1>4, <1>5, <1>6, OneMoves
<1>8. Cardinality({k \in Job : phases[k] = "running"}) < Cardinality(Worker)
  BY <1>3, AFreeLoopIsAFreeSlot
<1>9. Lifecycle!Cardinality({k \in Job : phases[k] = "running"}) < Cardinality(Worker)
  BY <1>8, Zenon DEF Cardinality, Lifecycle!Cardinality
<1>10. QED
  BY <1>2, <1>7, <1>9 DEF Lifecycle!Start, phases

(* The claim a loop gives back is the one of a running job. *)
LEMMA HolderRuns ==
  ASSUME TaskInv, NEW w \in Worker, pc[w] \in Holding
  PROVE  job[w] \in Job /\ phases[job[w]] = "running" /\ outcome[job[w]] = "none"
<1>1. job[w] \in claimed_jobs /\ job[w] \in Job
  BY DEF TaskInv, ExclusiveExecution, Holders, TaskTypeOK, QueueTypeOK
<1>2. QED
  BY <1>1, PhaseMeaning DEF TaskInv, NoJobLost

LEMMA ReleaseIsFinish ==
  ASSUME LifeInv, NEW w \in Worker, pc[w] \in Holding,
         NEW how \in Outcomes, End(job[w], how),
         claimed_jobs' = claimed_jobs \ {job[w]},
         UNCHANGED <<Queued, retry_count>>
  PROVE  \E j \in Job : Lifecycle!Finish(j)
<1> DEFINE j == job[w]
<1> USE DEF LifeInv
<1>1. j \in Job /\ phases[j] = "running"
  BY HolderRuns
<1>2. outcome' = [outcome EXCEPT ![j] = how] /\ outcome \in [Job -> Outcomes \cup {"none"}]
  BY DEF End, TaskInv, TaskTypeOK
<1> HIDE DEF j
<1>3. phases'[j] = how
  BY <1>1, <1>2 DEF phases, Phase, Outcomes
<1>4. \A k \in Job \ {j} : phases'[k] = phases[k]
  BY <1>2 DEF phases, Phase, InQueue, Queued, j
<1>5. Lifecycle!Move(j, "running", how)
  BY <1>1, <1>3, <1>4, OneMoves
<1>6. how \in Lifecycle!Final
  BY DEF Outcomes, Lifecycle!Final
<1>7. QED
  BY <1>1, <1>5, <1>6 DEF Lifecycle!Finish

LEMMA RequeueIsRetry ==
  ASSUME LifeInv, NEW w \in Worker, pc[w] \in Holding,
         FailRequeued(job[w], EffectiveMaxRetry(w)), UNCHANGED outcome
  PROVE  \E j \in Job : Lifecycle!Retry(j)
<1> DEFINE j == job[w]
<1> USE DEF LifeInv
<1>1. j \in Job /\ phases[j] = "running" /\ outcome[j] = "none"
  BY HolderRuns
<1>2. EffectiveMaxRetry(w) \in 0..MaxRetry
  BY <1>1, QueueAssumption
     DEF EffectiveMaxRetry, TaskInv, TaskTypeOK, QueueTypeOK
<1>3. Queued' = Queued \cup {j} /\ claimed_jobs' = claimed_jobs \ {j}
  BY <1>2, TaskInvQueue, FailRequeuedInv
<1>4. /\ retry_count[j] < MaxRetry
      /\ retry_count' = [retry_count EXCEPT ![j] = @ + 1]
  BY <1>1, <1>2, QueueAssumption DEF FailRequeued, TaskInv, TaskTypeOK, QueueTypeOK
<1> HIDE DEF j
<1>5. phases'[j] = "queued"
  BY <1>1, <1>3 DEF phases, Phase, InQueue, Queued
<1>6. \A k \in Job \ {j} : phases'[k] = phases[k]
  BY <1>3 DEF phases, Phase, InQueue, Queued
<1>7. Lifecycle!Move(j, "running", "queued")
  BY <1>1, <1>5, <1>6, OneMoves
<1>8. QED
  BY <1>1, <1>4, <1>7 DEF Lifecycle!Retry

LEMMA CancelIsWithdraw ==
  ASSUME LifeInv, NEW c \in Click,
         CancelQueued(click_job[c]), End(click_job[c], "cancelled")
  PROVE  \E j \in Job : Lifecycle!Withdraw(j)
<1> DEFINE j == click_job[c]
<1> USE DEF LifeInv
<1>1. /\ j \in Queued /\ Queued' = Queued \ {j}
      /\ UNCHANGED <<claimed_jobs, retry_count>>
  BY TaskInvQueue, CancelQueuedInv DEF CancelQueued
<1>2. j \in Job
  BY <1>1, RangeOfSeq DEF Queued, TaskInv, TaskTypeOK, QueueTypeOK
<1>3. phases[j] = "queued"
  BY <1>1, <1>2, PhaseMeaning
<1>4. outcome' = [outcome EXCEPT ![j] = "cancelled"]
      /\ outcome \in [Job -> Outcomes \cup {"none"}]
  BY DEF End, TaskInv, TaskTypeOK
<1> HIDE DEF j
<1>5. phases'[j] = "cancelled"
  BY <1>2, <1>4 DEF phases, Phase
<1>6. \A k \in Job \ {j} : phases'[k] = phases[k]
  BY <1>1, <1>4 DEF phases, Phase, InQueue, Queued
<1>7. QED
  BY <1>1, <1>2, <1>3, <1>5, <1>6, OneMoves DEF Lifecycle!Withdraw
-----------------------------------------------------------------------------
LEMMA LifecycleStep ==
  LifeInv /\ [TaskNext]_taskVars
    => [Lifecycle!LifecycleNext]_(Lifecycle!lifecycleVars)
<1> SUFFICES ASSUME LifeInv, [TaskNext]_taskVars
             PROVE  [Lifecycle!LifecycleNext]_(Lifecycle!lifecycleVars)
  OBVIOUS
<1>1. TaskInv /\ LifeInv'
  BY TaskStepInv, FreshCountStep DEF LifeInv
<1>2. ASSUME NEW j \in Job, EnqueueJob(j) PROVE Lifecycle!LifecycleNext
  BY <1>1, <1>2, EnqueueIsSubmit DEF Lifecycle!LifecycleNext
<1>3. ASSUME NEW w \in Worker, ClaimJob(w) PROVE Lifecycle!LifecycleNext
  BY <1>3, ClaimIsStart DEF Lifecycle!LifecycleNext
<1>4. ASSUME NEW w \in Worker, CompleteJob(w) \/ CompleteCancelledJob(w)
      PROVE  Lifecycle!LifecycleNext
  <2>1. /\ pc[w] \in Holding
        /\ \E how \in Outcomes : End(job[w], how)
        /\ Complete(job[w])
    BY <1>4 DEF CompleteJob, CompleteCancelledJob, Goto, Holding, Outcomes
  <2>2. claimed_jobs' = claimed_jobs \ {job[w]} /\ UNCHANGED <<Queued, retry_count>>
    BY <2>1 DEF Complete, Queued
  <2>3. QED
    BY <2>1, <2>2, ReleaseIsFinish DEF Lifecycle!LifecycleNext
<1>5. ASSUME NEW w \in Worker, FailJob(w) PROVE Lifecycle!LifecycleNext
  <2>1. pc[w] \in Holding
    BY <1>5 DEF FailJob, Goto, Holding
  <2>2. CASE FailRequeued(job[w], EffectiveMaxRetry(w)) /\ UNCHANGED outcome
    BY <2>1, <2>2, RequeueIsRetry DEF Lifecycle!LifecycleNext
  <2>3. CASE FailDeadLetter(job[w], EffectiveMaxRetry(w)) /\ End(job[w], "dead")
    <3>1. claimed_jobs' = claimed_jobs \ {job[w]} /\ UNCHANGED <<Queued, retry_count>>
      BY <2>3 DEF FailDeadLetter, Queued
    <3>2. "dead" \in Outcomes
      BY DEF Outcomes
    <3>3. QED
      BY <2>1, <2>3, <3>1, <3>2, ReleaseIsFinish DEF Lifecycle!LifecycleNext
  <2>4. QED
    BY <1>5, <2>2, <2>3 DEF FailJob
<1>6. ASSUME NEW c \in Click, CancelQueued(click_job[c]), End(click_job[c], "cancelled")
      PROVE  Lifecycle!LifecycleNext
  BY <1>6, CancelIsWithdraw DEF Lifecycle!LifecycleNext
<1>7. CASE UNCHANGED <<Queued, claimed_jobs, outcome, retry_count>>
  BY <1>7 DEF Lifecycle!lifecycleVars, Phase, InQueue, Queued
<1>8. QED
  BY <1>1, <1>2, <1>3, <1>4, <1>5, <1>6, <1>7, InvisibleSteps

(* Task execution implements TaskLifecycle: whatever the loops, the handlers,
   the clicks and the timers interleave, a task is queued once, run by at most
   as many loops as there are, retried at most MaxRetry times, and over once. *)
THEOREM TaskExecutionIsALifecycle == TaskSpec => ImplementsLifecycle
<1>1. TaskInit => Lifecycle!LifecycleInit
  BY TaskInitInv DEF Lifecycle!LifecycleInit, TaskInit, QueueInit, Phase, InQueue,
     Range
<1>2. QED
  BY <1>1, LifeInvHolds, LifecycleStep, PTL
     DEF TaskSpec, ImplementsLifecycle, Lifecycle!LifecycleSpec
=============================================================================
