--------------------------- MODULE TaskExecution ---------------------------
(***************************************************************************)
(* A Slack task from its mention to its final control message:             *)
(*                                                                         *)
(*   - the enqueue handler of each task (application/src/ingress/          *)
(*     enqueue.rs), one per job;                                           *)
(*   - the worker loops (application/src/execution/worker.rs) running      *)
(*     execute_task_job (application/src/execution/task.rs);               *)
(*   - the Cancel clicks (application/src/execution/cancel.rs);            *)
(*                                                                         *)
(* over the JobQueue and the InFlightRegistry they share, and the task's   *)
(* control message in Slack, which all three write.  Every process may be  *)
(* interleaved with every other wherever the code awaits: a lock of the    *)
(* queue or of the registry, or a call to Slack.                           *)
(*                                                                         *)
(* The agent run is one state, "running": it returns a report, an error or *)
(* nothing at all, at any time; streaming progress belongs to it.  The     *)
(* select! of run_task waits for the agent and for the TaskCancellation of *)
(* core/src/task/cancellation.rs, which first reads its flag, and only     *)
(* then registers with the Notify.                                         *)
(***************************************************************************)
EXTENDS JobQueue

CONSTANTS
  Worker,                  \* worker_concurrency loops
  Click,                   \* Cancel clicks; a click also names its user
  None,                    \* no job, no user, no entry
  UpdatesMayFail,          \* may a control message update be lost?
  BackoffOutlastsCleanup   \* see BackoffTimer

ASSUME TaskAssumption ==
  /\ UpdatesMayFail \in BOOLEAN
  /\ BackoffOutlastsCleanup \in BOOLEAN
  /\ None \notin Job \cup Worker \cup Click
  /\ IsFiniteSet(Worker)

VARIABLES
  cancellation_requests, cancellations, cancelled,   \* see InFlightRegistry
  is_running,   \* the flag stop() clears
  pc,           \* where each worker loop is
  job,          \* the job each worker has claimed
  permanent,    \* the disposition of the failure a worker is handling
  handle,       \* the requester complete_cancelled_claimed_job will name
  woken,        \* has notify_waiters reached the select! of each worker?
  ingress,      \* where the enqueue handler of each job is
  click_pc,     \* where each click is
  click_job,    \* the job a click is for
  message,      \* what the control message of each job says
  reported,     \* the jobs whose report was posted in their thread
  outcome       \* auxiliary: how the queue let go of the job for good

Registry == INSTANCE InFlightRegistry WITH User <- Click

workerVars == <<is_running, pc, job, permanent, handle, woken>>
clickVars == <<click_pc, click_job>>
slackVars == <<message, reported>>
taskVars == <<queueVars, cancellation_requests, cancellations, cancelled,
              workerVars, ingress, clickVars, slackVars, outcome>>

Outcomes == {"completed", "cancelled", "dead"}

Messages == {"none", "Queued", "Running", "CancellationRequested", "Cancelled",
             "Completed", "Failed"}

(* A worker in one of these places owns the claim of its job; in the others
   it owns nothing, or has already given the claim back. *)
Holding == {"claimed", "announceRunning", "starting", "registering", "running",
            "replying", "completing", "completeCancelled", "failing"}

Releasing == {"removeCompleted", "announceCompleted", "removeCancelled",
              "announceCancelled", "removeRequeued", "removeDead",
              "announceFailed", "postFailure"}

Resting == {"loop", "claiming", "stopped"}

ClickPlaces == {"none", "clicked", "requesting", "announceRequested",
                "announceCancelled", "cancelled", "requested", "ignored"}

TaskTypeOK ==
  /\ QueueTypeOK
  /\ Registry!RegistryTypeOK
  /\ is_running \in BOOLEAN
  /\ pc \in [Worker -> Holding \cup Releasing \cup Resting]
  /\ job \in [Worker -> Job \cup {None}]
  /\ permanent \in [Worker -> BOOLEAN]
  /\ handle \in [Worker -> Click \cup {None}]
  /\ woken \in [Worker -> BOOLEAN]
  /\ ingress \in [Job -> {"new", "posted", "enqueued", "refused"}]
  /\ click_pc \in [Click -> ClickPlaces]
  /\ click_job \in [Click -> Job \cup {None}]
  /\ message \in [Job -> Messages]
  /\ reported \in SUBSET Job
  /\ outcome \in [Job -> Outcomes \cup {"none"}]

TaskInit ==
  /\ QueueInit
  /\ Registry!RegistryInit
  /\ is_running = TRUE
  /\ pc = [w \in Worker |-> "loop"]
  /\ job = [w \in Worker |-> None]
  /\ permanent = [w \in Worker |-> FALSE]
  /\ handle = [w \in Worker |-> None]
  /\ woken = [w \in Worker |-> FALSE]
  /\ ingress = [j \in Job |-> "new"]
  /\ click_pc = [c \in Click |-> "none"]
  /\ click_job = [c \in Click |-> None]
  /\ message = [j \in Job |-> "none"]
  /\ reported = {}
  /\ outcome = [j \in Job |-> "none"]
-----------------------------------------------------------------------------
(* chat.update of the control message; a failure is logged and forgotten. *)
UpdateMessage(j, state) ==
  /\ \/ message' = [message EXCEPT ![j] = state]
     \/ UpdatesMayFail /\ UNCHANGED message
  /\ UNCHANGED reported

End(j, how) == outcome' = [outcome EXCEPT ![j] = how]

Goto(w, from, to) ==
  /\ pc[w] = from
  /\ pc' = [pc EXCEPT ![w] = to]

(* The end of run_worker_iteration: the job and its token are dropped. *)
EndIteration(w, from) ==
  /\ Goto(w, from, "loop")
  /\ job' = [job EXCEPT ![w] = None]
  /\ permanent' = [permanent EXCEPT ![w] = FALSE]
  /\ handle' = [handle EXCEPT ![w] = None]
  /\ woken' = [woken EXCEPT ![w] = FALSE]
  /\ UNCHANGED is_running

KeepLocals == UNCHANGED <<is_running, job, permanent, handle, woken>>

SameRegistry == UNCHANGED <<cancellation_requests, cancellations, cancelled>>
-----------------------------------------------------------------------------
(***************************************************************************)
(* The enqueue handler.  The control message, with its Cancel button, is   *)
(* posted before the job is in the queue.  When that fails (Slack may have *)
(* posted it all the same, and lost the answer) there is no job, and the   *)
(* handler only replies so in the thread.                                  *)
(***************************************************************************)
PostControlMessage(j) ==
  /\ ingress[j] = "new"
  /\ \/ /\ ingress' = [ingress EXCEPT ![j] = "posted"]
        /\ message' = [message EXCEPT ![j] = "Queued"]
     \/ /\ ingress' = [ingress EXCEPT ![j] = "refused"]
        /\ message' = message \/ message' = [message EXCEPT ![j] = "Queued"]
  /\ UNCHANGED reported
  /\ SameRegistry
  /\ UNCHANGED <<queueVars, workerVars, clickVars, outcome>>

EnqueueJob(j) ==
  /\ ingress[j] = "posted"
  /\ ingress' = [ingress EXCEPT ![j] = "enqueued"]
  /\ Enqueue(j)
  /\ SameRegistry
  /\ UNCHANGED <<workerVars, clickVars, slackVars, outcome>>

(***************************************************************************)
(* The timer of a delayed job.  Between queue.fail and registry.remove the *)
(* worker waits for two uncontended mutexes, the backoff is at least       *)
(* job_backoff_ms (1 s): BackoffOutlastsCleanup says that the first is     *)
(* over before the second.  Without it the two race.                       *)
(***************************************************************************)
BackoffTimer(j) ==
  /\ BackoffOutlastsCleanup =>
       \A w \in Worker : ~(pc[w] = "removeRequeued" /\ job[w] = j)
  /\ BackoffElapses(j)
  /\ SameRegistry
  /\ UNCHANGED <<workerVars, ingress, clickVars, slackVars, outcome>>
-----------------------------------------------------------------------------
(***************************************************************************)
(* The worker loop.  stop() only clears is_running, which a loop reads     *)
(* between two iterations: one that is about to claim still claims.  Then  *)
(* run_app returns, and the end of main drops the runtime: no loop waits   *)
(* for another, and each may be dropped at any of its steps.               *)
(***************************************************************************)
Stop ==
  /\ is_running
  /\ is_running' = FALSE
  /\ SameRegistry
  /\ UNCHANGED <<queueVars, pc, job, permanent, handle, woken, ingress,
                 clickVars, slackVars, outcome>>

CheckRunning(w) ==
  /\ Goto(w, "loop", IF is_running THEN "claiming" ELSE "stopped")
  /\ KeepLocals
  /\ SameRegistry
  /\ UNCHANGED <<queueVars, ingress, clickVars, slackVars, outcome>>

ClaimJob(w) ==
  /\ Goto(w, "claiming", "claimed")
  /\ \E j \in Job : Claim(j) /\ job' = [job EXCEPT ![w] = j]
  /\ SameRegistry
  /\ UNCHANGED <<is_running, permanent, handle, woken, ingress, clickVars,
                 slackVars, outcome>>

ClaimNothing(w) ==
  /\ NothingToClaim
  /\ Goto(w, "claiming", "loop")
  /\ KeepLocals
  /\ SameRegistry
  /\ UNCHANGED <<queueVars, ingress, clickVars, slackVars, outcome>>

(* A new TaskCancellation is attached.  A request that came first ends the
   attempt here, and its record is kept as the fallback handle. *)
Attach(w) ==
  LET j == job[w] IN
  /\ \/ /\ Goto(w, "claimed", "completeCancelled")
        /\ Registry!CancelRequested(j)
        /\ handle' = [handle EXCEPT ![w] = cancellation_requests[j]]
     \/ /\ Goto(w, "claimed", "announceRunning")
        /\ ~Registry!CancelRequested(j)
        /\ UNCHANGED handle
  /\ Registry!AttachCancellation(j, w)
  /\ UNCHANGED <<queueVars, is_running, job, permanent, woken, ingress,
                 clickVars, slackVars, outcome>>

AnnounceRunning(w) ==
  /\ Goto(w, "announceRunning", "starting")
  /\ UpdateMessage(job[w], "Running")
  /\ KeepLocals
  /\ SameRegistry
  /\ UNCHANGED <<queueVars, ingress, clickVars, outcome>>

(* wait_for_cancellation reads the flag ... *)
StartRun(w) ==
  /\ \/ Goto(w, "starting", "completeCancelled") /\ cancelled[w]
     \/ Goto(w, "starting", "registering") /\ ~cancelled[w]
  /\ KeepLocals
  /\ SameRegistry
  /\ UNCHANGED <<queueVars, ingress, clickVars, slackVars, outcome>>

(* ... and then waits for a notification: one sent in between is lost. *)
AwaitNotification(w) ==
  /\ Goto(w, "registering", "running")
  /\ KeepLocals
  /\ SameRegistry
  /\ UNCHANGED <<queueVars, ingress, clickVars, slackVars, outcome>>

(* The agent returned, and is_cancelled() is asked again: a report or an error
   of a cancelled run is dropped. *)
RunnerReturns(w) ==
  /\ \/ Goto(w, "running", "completeCancelled") /\ cancelled[w] /\ UNCHANGED permanent
     \/ Goto(w, "running", "replying") /\ ~cancelled[w] /\ UNCHANGED permanent
     \/ /\ Goto(w, "running", "failing")
        /\ ~cancelled[w]
        /\ \E p \in BOOLEAN : permanent' = [permanent EXCEPT ![w] = p]
  /\ UNCHANGED <<is_running, job, handle, woken>>
  /\ SameRegistry
  /\ UNCHANGED <<queueVars, ingress, clickVars, slackVars, outcome>>

(* Mutants: the run goes on although its token is cancelled; the claim of a
   cancelled run is not given back. *)
RunCancelledUnseen(w) ==
  /\ woken[w]
  /\ Goto(w, "running", "running")
  /\ KeepLocals
  /\ SameRegistry
  /\ UNCHANGED <<queueVars, ingress, clickVars, slackVars, outcome>>

RunCancelledKeepsClaim(w) ==
  /\ woken[w]
  /\ Goto(w, "running", "removeCancelled")
  /\ KeepLocals
  /\ SameRegistry
  /\ UNCHANGED <<queueVars, ingress, clickVars, slackVars, outcome>>

(* select! takes the cancellation branch: it was notified. *)
RunCancelled(w) ==
  /\ woken[w]
  /\ Goto(w, "running", "completeCancelled")
  /\ KeepLocals
  /\ SameRegistry
  /\ UNCHANGED <<queueVars, ingress, clickVars, slackVars, outcome>>

(* Mutant: a report Slack refuses counts as posted. *)
PostReportUnchecked(w) ==
  /\ Goto(w, "replying", "completing")
  /\ reported' \in {reported, reported \cup {job[w]}}
  /\ KeepLocals
  /\ SameRegistry
  /\ UNCHANGED <<queueVars, ingress, clickVars, message, outcome>>

(* post_slack_reply_stage.  Slack may refuse the report, or take it and lose
   the answer; both are an error that is worth a retry. *)
PostReport(w) ==
  /\ \/ /\ Goto(w, "replying", "completing")
        /\ reported' = reported \cup {job[w]}
     \/ /\ Goto(w, "replying", "failing")
        /\ reported' \in {reported, reported \cup {job[w]}}
  /\ KeepLocals
  /\ SameRegistry
  /\ UNCHANGED <<queueVars, ingress, clickVars, message, outcome>>

CompleteJob(w) ==
  /\ Goto(w, "completing", "removeCompleted")
  /\ Complete(job[w])
  /\ End(job[w], "completed")
  /\ KeepLocals
  /\ SameRegistry
  /\ UNCHANGED <<ingress, clickVars, slackVars>>

(* Mutant: the token of a completed job stays in the registry. *)
RemoveCompletedForgotten(w) ==
  /\ Goto(w, "removeCompleted", "announceCompleted")
  /\ KeepLocals
  /\ SameRegistry
  /\ UNCHANGED <<queueVars, ingress, clickVars, slackVars, outcome>>

RemoveCompleted(w) ==
  /\ Goto(w, "removeCompleted", "announceCompleted")
  /\ Registry!Remove(job[w])
  /\ KeepLocals
  /\ UNCHANGED <<queueVars, ingress, clickVars, slackVars, outcome>>

AnnounceCompleted(w) ==
  /\ EndIteration(w, "announceCompleted")
  /\ UpdateMessage(job[w], "Completed")
  /\ SameRegistry
  /\ UNCHANGED <<queueVars, ingress, clickVars, outcome>>

CompleteCancelledJob(w) ==
  /\ Goto(w, "completeCancelled", "removeCancelled")
  /\ Complete(job[w])
  /\ End(job[w], "cancelled")
  /\ KeepLocals
  /\ SameRegistry
  /\ UNCHANGED <<ingress, clickVars, slackVars>>

(* Mutant: the fallback handle is not used. *)
RemoveCancelledNoFallback(w) ==
  LET j == job[w] IN
  /\ Goto(w, "removeCancelled", "announceCancelled")
  /\ handle' = [handle EXCEPT ![w] = cancellation_requests[j]]
  /\ Registry!Remove(j)
  /\ UNCHANGED <<queueVars, is_running, job, permanent, woken, ingress,
                 clickVars, slackVars, outcome>>

(* remove(..).or(handle): the requester on record is named, else the one
   attach_cancellation returned; with neither, and no token left in the
   registry, the control message is not updated. *)
RemoveCancelled(w) ==
  LET j == job[w]
      removed == Registry!CancelRequested(j) \/ cancellations[j] # None
  IN
  /\ \/ /\ Goto(w, "removeCancelled", "announceCancelled")
        /\ removed \/ handle[w] # None
        /\ handle' = [handle EXCEPT ![w] =
                        IF removed THEN cancellation_requests[j] ELSE @]
        /\ UNCHANGED <<is_running, job, permanent, woken>>
     \/ /\ EndIteration(w, "removeCancelled")
        /\ ~removed /\ handle[w] = None
  /\ Registry!Remove(j)
  /\ UNCHANGED <<queueVars, ingress, clickVars, slackVars, outcome>>

AnnounceCancelled(w) ==
  /\ EndIteration(w, "announceCancelled")
  /\ UpdateMessage(job[w], "Cancelled")
  /\ SameRegistry
  /\ UNCHANGED <<queueVars, ingress, clickVars, outcome>>

(* A permanent failure is given as many retries as the job has had. *)
EffectiveMaxRetry(w) ==
  IF permanent[w] THEN retry_count[job[w]] ELSE MaxRetry

FailJob(w) ==
  LET j == job[w] IN
  /\ \/ /\ Goto(w, "failing", "removeRequeued")
        /\ FailRequeued(j, EffectiveMaxRetry(w))
        /\ KeepLocals
        /\ UNCHANGED outcome
     \/ /\ Goto(w, "failing", "removeDead")
        /\ FailDeadLetter(j, EffectiveMaxRetry(w))
        /\ KeepLocals
        /\ End(j, "dead")
  /\ SameRegistry
  /\ UNCHANGED <<ingress, clickVars, slackVars>>

(* Mutant: the token of a requeued job stays in the registry. *)
RemoveRequeuedForgotten(w) ==
  /\ EndIteration(w, "removeRequeued")
  /\ SameRegistry
  /\ UNCHANGED <<queueVars, ingress, clickVars, slackVars, outcome>>

(* The control message is not updated: it goes on saying "Running". *)
RemoveRequeued(w) ==
  /\ EndIteration(w, "removeRequeued")
  /\ Registry!Remove(job[w])
  /\ UNCHANGED <<queueVars, ingress, clickVars, slackVars, outcome>>

(* Mutant: the control message of a dead job is not updated. *)
RemoveDeadSilently(w) ==
  /\ Goto(w, "removeDead", "postFailure")
  /\ Registry!Remove(job[w])
  /\ KeepLocals
  /\ UNCHANGED <<queueVars, ingress, clickVars, slackVars, outcome>>

RemoveDead(w) ==
  /\ Goto(w, "removeDead", "announceFailed")
  /\ Registry!Remove(job[w])
  /\ KeepLocals
  /\ UNCHANGED <<queueVars, ingress, clickVars, slackVars, outcome>>

AnnounceFailed(w) ==
  /\ Goto(w, "announceFailed", "postFailure")
  /\ UpdateMessage(job[w], "Failed")
  /\ KeepLocals
  /\ SameRegistry
  /\ UNCHANGED <<queueVars, ingress, clickVars, outcome>>

(* "Task failed ..." in the thread; whether that reply arrives is not seen. *)
PostFailure(w) ==
  /\ EndIteration(w, "postFailure")
  /\ SameRegistry
  /\ UNCHANGED <<queueVars, ingress, clickVars, slackVars, outcome>>
-----------------------------------------------------------------------------
(***************************************************************************)
(* A Cancel click.  Only a control message that says Queued or Running has *)
(* the button.  The click is delivered, and handled, some time later.      *)
(***************************************************************************)
ClickCancel(c, j) ==
  /\ click_pc[c] = "none"
  /\ message[j] \in {"Queued", "Running"}
  /\ click_pc' = [click_pc EXCEPT ![c] = "clicked"]
  /\ click_job' = [click_job EXCEPT ![c] = j]
  /\ SameRegistry
  /\ UNCHANGED <<queueVars, workerVars, ingress, slackVars, outcome>>

ClickGoto(c, from, to) ==
  /\ click_pc[c] = from
  /\ click_pc' = [click_pc EXCEPT ![c] = to]
  /\ UNCHANGED click_job

CancelInQueue(c) ==
  LET j == click_job[c] IN
  /\ \/ /\ ClickGoto(c, "clicked", "announceCancelled")
        /\ CancelQueued(j)
        /\ End(j, "cancelled")
     \/ /\ ClickGoto(c, "clicked", "requesting")
        /\ CancelAlreadyClaimed(j)
        /\ UNCHANGED outcome
     \/ /\ ClickGoto(c, "clicked", "ignored")
        /\ CancelNotFound(j)
        /\ UNCHANGED outcome
  /\ SameRegistry
  /\ UNCHANGED <<workerVars, ingress, slackVars>>

(* The job was claimed a moment ago, and may not be any more.  A token that
   becomes cancelled notifies whoever is registered with it by now. *)
CancelInFlight(c) ==
  /\ ClickGoto(c, "requesting", "announceRequested")
  /\ Registry!RequestCancel(click_job[c], c)
  /\ woken' = [w \in Worker |->
                 woken[w] \/ (pc[w] = "running" /\ ~cancelled[w] /\ cancelled'[w])]
  /\ UNCHANGED <<queueVars, is_running, pc, job, permanent, handle, ingress,
                 slackVars, outcome>>

AnnounceClick(c) ==
  /\ \/ /\ ClickGoto(c, "announceCancelled", "cancelled")
        /\ UpdateMessage(click_job[c], "Cancelled")
     \/ /\ ClickGoto(c, "announceRequested", "requested")
        /\ UpdateMessage(click_job[c], "CancellationRequested")
  /\ SameRegistry
  /\ UNCHANGED <<queueVars, workerVars, ingress, outcome>>
-----------------------------------------------------------------------------
(* Everything a loop does by itself, without waiting for the agent. *)
WorkerProgress(w) ==
  \/ CheckRunning(w) \/ ClaimJob(w) \/ ClaimNothing(w) \/ Attach(w)
  \/ AnnounceRunning(w) \/ StartRun(w) \/ AwaitNotification(w)
  \/ RunCancelled(w) \/ PostReport(w) \/ CompleteJob(w)
  \/ RemoveCompleted(w) \/ AnnounceCompleted(w) \/ CompleteCancelledJob(w)
  \/ RemoveCancelled(w) \/ AnnounceCancelled(w) \/ FailJob(w)
  \/ RemoveRequeued(w) \/ RemoveDead(w) \/ AnnounceFailed(w) \/ PostFailure(w)

WorkerStep(w) == WorkerProgress(w) \/ RunnerReturns(w)

IngressStep(j) == PostControlMessage(j) \/ EnqueueJob(j)

ClickStep(c) == CancelInQueue(c) \/ CancelInFlight(c) \/ AnnounceClick(c)

TaskNext ==
  \/ \E w \in Worker : WorkerStep(w)
  \/ \E j \in Job : IngressStep(j) \/ BackoffTimer(j)
  \/ \E c \in Click : ClickStep(c) \/ \E j \in Job : ClickCancel(c, j)
  \/ Stop

TaskSpec == TaskInit /\ [][TaskNext]_taskVars

(***************************************************************************)
(* While the process lives, the tokio runtime polls every ready task,      *)
(* every call to Slack returns, and clocks advance: weak fairness for each *)
(* loop, handler and timer.  After stop() the process may exit at once, so *)
(* nothing is fair any more.  Nothing makes the user click or the operator *)
(* stop the process, and the agent may run forever.                        *)
(***************************************************************************)
SchedulerFairness ==
  /\ \A w \in Worker : WF_taskVars(is_running /\ WorkerProgress(w))
  /\ \A j \in Job : /\ WF_taskVars(is_running /\ EnqueueJob(j))
                     /\ WF_taskVars(is_running /\ BackoffTimer(j))
  /\ \A c \in Click : WF_taskVars(is_running /\ ClickStep(c))

TaskFairSpec == TaskSpec /\ SchedulerFairness
-----------------------------------------------------------------------------
Holders == {w \in Worker : pc[w] \in Holding}

(* Worker loops share the queue: no job is executed by two of them at once, a
   loop owns the claim of the job it executes until it gives it back, and no
   claim is left without a loop (such a job would never be retried). *)
ExclusiveExecution ==
  /\ \A v, w \in Holders : job[v] = job[w] => v = w
  /\ claimed_jobs = {job[w] : w \in Holders}

(* A job that was enqueued is in the queue, claimed, or over: never lost
   between two steps of a worker, and never back once it is over. *)
NoJobLost ==
  \A j \in Job :
    /\ (ingress[j] = "enqueued" /\ outcome[j] = "none")
         <=> (InQueue(j) \/ j \in claimed_jobs)
    /\ outcome[j] = "dead" <=> j \in dead_letter_jobs

(* The token in the registry is the one of a worker that is still processing
   that very job: a cancellation can never reach a later, unrelated job of the
   same worker. *)
TokenIsLive ==
  \A j \in Job, w \in Worker :
    cancellations[j] = w => job[w] = j /\ pc[w] \notin Resting \cup {"claimed"}

(* Once a request is on record, the attempt that is running sees it, whichever
   of attach_cancellation and request_cancel came first. *)
RequestReachesAttempt ==
  \A w \in Worker :
    /\ pc[w] \in Holding \ {"claimed"}
    /\ Registry!CancelRequested(job[w])
    => cancelled[w]

Accepted(c) == click_pc[c] \in {"announceRequested", "requested"}

(* No task is cancelled that nobody asked to cancel. *)
OnlyCancelledOnRequest ==
  \A j \in Job :
    outcome[j] = "cancelled" =>
      \E c \in Click :
        /\ click_job[c] = j
        /\ Accepted(c) \/ click_pc[c] \in {"announceCancelled", "cancelled"}

(* "Task cancelled by <@user>" names a user who clicked on that very task,
   although the record may be removed by another loop before it is read. *)
CancelledNamesRequester ==
  \A w \in Worker :
    pc[w] = "announceCancelled" =>
      /\ handle[w] \in Click
      /\ click_job[handle[w]] = job[w]

(* A task is only reported as completed after its report was posted. *)
CompletedMeansReported ==
  \A j \in Job :
    outcome[j] = "completed" \/ message[j] = "Completed" => j \in reported

MessageOf(how) ==
  CASE how = "completed" -> "Completed"
    [] how = "cancelled" -> "Cancelled"
    [] how = "dead"      -> "Failed"

(* Nobody has anything left to do about the task. *)
Settled(j) ==
  /\ outcome[j] # "none"
  /\ \A w \in Worker : job[w] # j
  /\ \A c \in Click :
       click_job[c] = j => click_pc[c] \in {"requested", "cancelled", "ignored"}

(* When all is over, the control message tells what happened.  The one
   exception is a click that was accepted: its handler and the worker update
   the message in any order. *)
SettledMessage ==
  \A j \in Job :
    Settled(j) /\ ~UpdatesMayFail =>
      \/ message[j] = MessageOf(outcome[j])
      \/ /\ message[j] = "CancellationRequested"
         /\ \E c \in Click : click_job[c] = j /\ click_pc[c] = "requested"

Phase(j) ==
  IF outcome[j] # "none" THEN outcome[j]
  ELSE IF j \in claimed_jobs THEN "running"
  ELSE IF InQueue(j) THEN "queued"
  ELSE "absent"

Lifecycle == INSTANCE TaskLifecycle WITH
  phase <- [j \in Job |-> Phase(j)],
  retries <- retry_count,
  Slots <- Cardinality(Worker)

(* The queue, the registry and the loops together keep the life of a task
   simple: queued once, run by one loop at a time, retried at most MaxRetry
   times, and over for good once completed, cancelled or given up. *)
ImplementsLifecycle == Lifecycle!LifecycleSpec

(* A run whose cancellation was notified releases its worker, even if the agent
   never returns, unless the process is being stopped. *)
CancelFreesWorker ==
  \A w \in Worker : woken[w] ~> pc[w] \in Resting \/ ~is_running

(* When no agent runs forever, every enqueued task is completed, cancelled or
   given up, unless the process is being stopped: retries end, and no job is
   forgotten in its backoff. *)
AgentsReturn == \A w \in Worker : []<>(pc[w] # "running")

EveryTaskEnds ==
  AgentsReturn =>
    \A j \in Job :
      ingress[j] = "enqueued" ~> outcome[j] # "none" \/ ~is_running

-----------------------------------------------------------------------------
(* README.md: "If you need to stop a queued or running task, click `Cancel`".
   A task whose cancellation was accepted is not started again. *)
CancelledTaskIsNotRestarted ==
  [][\A w \in Worker :
       pc[w] = "claimed" /\ pc'[w] = "announceRunning" =>
         ~\E c \in Click : click_job[c] = job[w] /\ Accepted(c)]_taskVars

(* The same sentence for a running task, and the test
   cancelled_completes_after_cancel of cancellation.rs: waiting for a
   cancellation ends once the token is cancelled, whatever the agent does. *)
CancelStopsRun ==
  \A w \in Worker :
    pc[w] \in {"registering", "running"} /\ cancelled[w]
      ~> pc[w] \in Resting \/ ~is_running

(* The same sentence for a queued task: a click on a task that goes on to be
   queued is not ignored while the task is still to be done. *)
ClickOnQueuedTaskCounts ==
  \A c \in Click :
    click_pc[c] = "ignored" /\ ingress[click_job[c]] # "refused" =>
      outcome[click_job[c]] # "none"
=============================================================================
