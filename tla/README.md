# Reili in TLA+

A verification development for Reili, a Slack agent that answers mentions by running an LLM agent
(a *task*) and that pursues configured *objectives* on a schedule, with GitHub Issues as its only
durable state. The modules here are translated from the Rust sources under `src/crates`; TLC checks
them on small instances, and TLAPS proves the safety results of every component with state for
every value of the constants.

## The system

One process, on a multi-threaded tokio runtime. Nothing is persisted by Reili itself: the job queue
is in memory, what objectives need to remember is in the issue tracker, and what agents want to
remember is in a Slack Canvas.

| Component | State | Operations | Talks to | Modules |
|---|---|---|---|---|
| Job queue (`adapters/queue/`) | pending, delayed, claimed and dead jobs behind one mutex | enqueue, claim, cancel, complete, fail | workers, handlers | JobQueue |
| In-flight registry (`application/execution/in_flight_registry.rs`) | per job: its cancellation token, and who asked to cancel it | attach, request, remove | workers, clicks | InFlightRegistry |
| Worker loops (`execution/worker.rs`, `task.rs`) | the claimed job and its attempt | claim, attach, run, reply, complete or fail, clean up, announce | queue, registry, agent, Slack | TaskExecution |
| Enqueue handler, Cancel clicks, control message (`ingress/enqueue.rs`, `execution/cancel.rs`) | what the message says | post, enqueue, cancel, update | queue, registry, Slack | TaskExecution |
| Thread and memory context, prompt (`execution/thread_context.rs`, `task_agent/prompt.rs`) | none | what a task is told | Slack | TaskPrompt |
| Objective scheduler (`objective/scheduler.rs`) | time of the last tick, running marks, shutdown token | start, tick, stop | cycles | ObjectiveCycle |
| Schedule (`core/objective/schedule.rs`) | none | next and latest slot of a cron expression in a time zone | scheduler | Schedule |
| Objective cycle (`objective/cycle/`, `decide.rs`) | the observed items, the report slot, the planned change | observe, run the agent, plan, write, notify | tracker, agent, Slack, Canvas | ObjectiveCycle |
| Brief, comments and messages of a cycle (`objective/brief.rs`, `render.rs`, `report.rs`) | none | what the agent is told, and what the tracker and Slack are left with | cycles | CycleText |
| Work state (`outbound/github/work_state/`) | none: the issues are | list, link, comment, label, close, create | GitHub | WorkTracker, GitHubIssues |
| Agent runner and tools (`outbound/agents/runner`, `task_agent`, `tools`) | the run of a lead and its sub-agents | request, tool calls, spawn, report, stop | model, budget, Canvas | AgentRun |
| Run budget (`core/cycle_agent/budget.rs`) | atomic counters of one run | count a tool call, a sub-agent, tokens | the agent's hook | RunBudget |
| Canvas memory (`slack_canvas_memory_adapter.rs`) | none: the document is in Slack | read, save, prune | Slack | CanvasMemory |
| Connectors (`agents/connectors`, `mcp`, `mcp_streamable_http.rs`, `github/app_token.rs`) | the shared GitHub token and client, the sessions | connect, list tools, call a tool | MCP servers, GitHub | ConnectorTools, McpClient, Connectors |
| Progress (`application/progress/`, `slack/progress_stream/`) | steps of a run, and the streamed message they are shown in | start, append, rotate, recover, stop | agent, Slack | ProgressSteps, ProgressStream |
| Configuration and bootstrap (`runtime/config`, `bootstrap`, `main.rs`) | the settings | parse, resolve, build | files, environment | FileConfig, AppConfig, Runtime |
| Ingress (`inbound/slack`, `ingress/`) | a cache of group members | parse, authorize, route, judge, enqueue | Slack, judge, queue | Ingress, SlackRequests |
| Socket Mode, HTTP endpoint (`runtime/socket_mode.rs`, `app.rs`) | the connection, its backoff and ping deadline | connect, acknowledge, dispatch | Slack | SocketMode, Runtime |
| Service clients (Slack Web API, esa, web search) | none | one call, its result or its kind of error | services | ServiceCalls, WebSearch |

### What is hard about it, and what makes it correct

*Tasks.* Worker loops, enqueue handlers and Cancel clicks run concurrently and share the queue, the
registry and the control message. Each takes several steps with an await in between, and each step
may find what the previous one left changed by somebody else. Correct means: a job is executed by
one loop at a time; a job that was enqueued is never lost and never comes back once it is over;
retries are bounded and wait for their backoff; jobs do not overtake each other; a cancellation
reaches the attempt it is for, no other, and names who asked; a task is called completed only when
its report is in the thread; the control message ends on what happened; a loop is not held for ever
by a task that was cancelled.

*Objectives.* A cycle reads the tracker in several requests, lets an agent work for up to half an
hour, and then writes with several more requests, from what it read before. The team edits the same
issues at any time, requests fail or lose their answer, the agent may hang, a cycle may panic, and
the process may stop or crash anywhere. Correct means: an objective has at most one cycle, and its
running mark never outlives it; a scheduled time is not lost; cycles end; Reili writes to items that
are its own, closes only those it opened, and leaves the tracker as the report says.

*Agents.* A lead runs tool calls at the same time, some of which run sub-agents that do the same; all
of them race for the counters of one budget, may be stopped by a cancellation between any two steps,
and write to a document that offers no conditional edit. Correct means: no more calls than allowed;
an accepted report is returned whatever happens after it; what was shown as started is shown as
ended; memory loses its oldest entries first.

*Connectors.* Every run opens sessions of its own with several servers while it shares one token that
expires, and any exchange may fail before or after the server acted. Correct means: requests carry
tokens that live; sessions are closed; what a model asks for stays within the configured scope,
as far as the code checks it.

*Progress.* While a task runs, its agents report steps and tool calls, several at once, and one session
shows them in a streamed Slack message that Slack limits in length and age and may end by itself.
Correct means: what is in progress is shown in progress in the current message, also after the stream
moved to a new one; a closed message shows nothing in progress; a task that succeeded leaves
nothing running; no message goes on streaming behind the current one or after the end.

*Process and ingress.* What runs depends on files and an environment that are checked in one order out
of many; a post arrives as one, two or three events, more than once and in any order, and passes two
gates whose look-ups fail. Correct means: what is built is what was configured, and secrets that are
not selected do not matter; only who is entitled gets a task; a connection that is dead is replaced.

`PROJECT.json` lists each of these hazards at its line, with the properties that cover it.

## Modules

### Task execution

* **JobQueue** is the queue. Every port operation locks one mutex, so each is one action; the
  outcomes of an operation (`claim` with or without a job, the three answers of `cancel`, `fail`
  requeueing or giving up) are operators of their own, which TaskExecution calls with the job at
  hand. `promote_ready_delayed_jobs`, which `claim` and `cancel` run first, is `WithReady` and
  `StillDelayed`. The clock is abstracted to the comparison the code makes: `ready` holds the delayed
  jobs whose `available_at` has passed. `QueueSpec` runs it under arbitrary callers.
* **InFlightRegistry** has the registry's operations, also atomic under one lock. A token is named by
  the loop whose attempt it belongs to (a loop has one at a time); `cancelled` is its flag.
* **TaskLifecycle** is the abstract specification: a task is absent, queued, running, or over in one
  of three ways, and moves between these one at a time, with at most `Slots` running and at most
  `MaxRetry` retries.
* **TaskExecution** composes them: one action per await of the enqueue handler, of
  `run_worker_iteration`, `process_claimed_job`, `execute_task_job` and
  `handle_failed_claimed_job`, and of `CancelTaskUseCase`. `pc[w]` says which await loop `w` is at.
  The `select!` of `run_task` over agent and cancellation is three states: `starting` (the flag is
  about to be read), `registering` (read, and not yet waiting) and `running`. Refused posts, reports
  whose answer is lost, lost message updates (`UpdatesMayFail`) and clicks at any time are all
  in it. It implements TaskLifecycle under the mapping `Phase`.
* **TaskPrompt** is what a task is told: the pages of its thread, the messages left out of it, the texts
  of messages, attachments and files, the groups of memories, the documents attached. It has no
  state; its operators are checked against reference definitions (below).
* **MCTaskExecution** adds the symmetry sets and the reference definitions for TaskPrompt.

`BackoffOutlastsCleanup` is a timing assumption: the backoff (a second at least) is longer than the
two uncontended locks between `queue.fail` and `registry.remove`. Where it is FALSE, a second loop
may claim the requeued job before the first has cleaned up, and remove the other's token: the run
TaskRaces checks what survives that. Of the proofs only those of `RequestReachesAttempt` and
`SettledMessage` use the assumption, and both need it.

### Objectives

* **WorkTracker** is GitHub Issues as far as a cycle looks at them, and the team. An issue is its
  state, its objective labels, `reili:assignee`, `reili:needs-decision` and whether Reili opened it.
  Requests are given as the value the issue takes, so that the caller can apply them, lose their
  answer or fail them. The team opens issues and changes any of their fields.
* **ObjectiveCycle** is the process (`Start`, `Stop`, `Exit`), the scheduler (`SlotPasses`, `Tick`,
  `StartCycle`, `SkipCycle`, `ReleaseMark`) and the cycles: `ListUnlinked`, `LinkOne`, `ListOpen` and
  `ListClosed` for what a cycle observes; `SubmitReport` and `AgentFinishes`, `DeadlinePasses`,
  `ShutdownSeen`, `GraceEnds` for the agent's run and the `select!` around it; `PlanChanges` for
  `plan_changes` and `plan_change`; `AddComment`, `SetNeedsDecision`, `CloseWorkItem` and
  `CreateWorkItem` for the writes; `Panics` for a cycle that panics anywhere. `due` stands for time:
  the objectives with a slot in `(last_checked, now]`. The auxiliary `disturbed[k]` collects the items
  others changed since cycle `k` listed them; it appears in properties only.
* **Schedule** is `due` itself: parsing the fields of an expression, the days they match, local times
  that a zone skips or repeats, and the searches for the next and the latest slot, over a calendar
  whose lengths are parameters.
* **CycleText** is the brief a cycle's agent is given, within its limits, and the descriptions and
  comments a cycle writes, from which the next brief reads the next step back.
* **GitHubIssues** is behind the port that WorkTracker abstracts: reading issues and comments, paging a
  listing of a tracker that moves on, labels that are made before their use, records that are
  refused, and how a request fails.
* **MCObjectiveCycle** adds the symmetry sets and the reference definitions for these three.

### Progress

* **ProgressSteps** is the projector over `ProgressStreamState`: one action per event, which changes the
  steps and leaves in `updates` what the session has to apply. Each update is a step, its owner and the
  status it gets; titles and details are text.
* **ProgressStream** composes it with the agents that publish events (a lead, and sub-agents that run
  within one of its tool calls), the reporter's `active_scopes`, the stream's life cycle and Slack.
  `Apply` is `apply` up to its first request; every request is one action per outcome: `StartOk`,
  `AppendOk`, `RotateStop`, `RotateStart`, `RestartOk`, `StopSession` and their failures, among them
  answers that are lost (the message takes effect, the caller sees an error). The events go through an
  unbounded channel to a single loop and are drained before the session stops, so an event is handled
  where it is published. Every chunk counts one towards the length limit; age is one flag, which a
  new stream resets. `abandoned` and `crowded` are auxiliary and appear in properties only.
* **MCProgressStream** fixes which tool call of the lead the sub-agent runs in.

### Agents

* **RunBudget** has the operations of the counters, each one step (`on_tool_call` and `on_sub_agent`
  read, and then count; what they read might as well have been read when they count).
* **CanvasMemory** is the document, its headings in order and the entries below them, and the adapter's
  requests: reading, looking up the sections that will be touched, and editing them, each a step, with
  other writers between any two (nothing is locked; Slack may answer that somebody is editing, and the
  same edit is sent again). `MemorySpec` is the Canvas under any writers. The auxiliary `second` knows
  whether two saves ever began in the same second.
* **AgentRun** is one run: the hook around each completion and each tool call, `max_turns`, the
  concurrent calls of a turn, spawned sub-agents within a call, `submit_report`, `save_memory`, and
  what the runner makes of its end, for a task and for a cycle, which saves its facts after it. What
  the model answers is any text or batch of calls.
* **MCAgentRun** adds the symmetry and the sections of a Canvas.

### Connectors

* **ConnectorTools** is the tools themselves: allowlists, the catalogue a lead chooses from, the tools
  a choice resolves to, the scope checks and the wrappers, and the cut of what a tool returns.
* **McpClient** is the session of one call (initialize, notification, request, deletion, each with a
  client that is authorized anew) and the token all calls to GitHub share, with its lock, its skew and
  the client that is kept for it. Time passes between any two steps.
* **Connectors** composes them into runs that connect to one source after the other, and then call
  tools; a failure is one of the two kinds that decide whether the task is tried again.
* **ServiceCalls** and **WebSearch** are what one call of Slack, esa, the token endpoint and the four
  web searches yields for each answer of the service: a result, or an error of a kind.
* **MCConnectors** has the instance and the reference definitions for ConnectorTools, ServiceCalls and
  WebSearch.

### Process and ingress

* **FileConfig** is the configuration file as records, and what parsing refuses.
* **AppConfig** resolves it against the environment: a resolver is a sequence of checks in the order the
  code makes them, and what it yields when all hold; the first that fails names the setting refused.
  It assumes that the variables the code falls back to are among those of the environment.
* **Ingress** is the way of one post: the events Slack makes of it, their parsing, the message of a
  shared file, the router with its two gates and their look-ups and cache, the judge, and the handler
  that posts, queues and reacts. The patterns of a setting are a set: which of them matches decides
  nothing.
* **SocketMode** is the connection to Slack: its address, the pings and what is heard, the reasons to
  connect again, and the backoff.
* **Runtime** composes the three into the life of the process, over HTTP or Socket Mode.
* **SlackRequests** is what comes before a handler: the signature, its age, the click in a request;
  and what a judge's answer is taken for.
* **MCRuntime** has the files, environments and posts, and the reference definitions for the pattern
  matching of Ingress and for SlackRequests.

### Pure modules

Schedule, CycleText, GitHubIssues, TaskPrompt, SlackRequests, ServiceCalls, WebSearch and ConnectorTools
are operators without variables. The MC module of the component they belong to states, for each, what
they should compute by a definition of another form, as an `ASSUME` over all inputs of a bounded size;
TLC evaluates it with the run. Every such statement has a name and says in a comment what it is about.
A statement that shows a limit of the code rather than a virtue says so: see "What disagrees".

Definitions whose comment begins with "Mutant" are plausible faults of the definition after them.
They are used by nothing; replacing a definition by its mutant shows that the property named for it
in `PROJECT.json` notices.

## Runs

| Run | Instance | Checks |
|---|---|---|
| TaskSafety | 2 loops, 2 tasks, 2 clicks, 1 retry | `EachJobInOnePlace`, `NoOvertaking`, `RetryWaitsForBackoff`, `ExclusiveExecution`, `NoJobLost`, `RequestReachesAttempt`, `OnlyCancelledOnRequest`, `CompletedMeansReported`, `SettledMessage`, `ImplementsLifecycle`; TaskPrompt |
| TaskRaces | 1 task, 2 loops, 2 clicks, 2 retries, backoff racing the clean-up, updates lost | `TokenIsLive`, `CancelledNamesRequester` |
| TaskLiveness | 2 tasks, 1 loop, 1 click, 1 retry | `EveryTaskEnds`, `CancelFreesWorker` |
| CycleSafety | 1 objective, 2 issues, 2 edits of the team, failing requests | `OneCyclePerObjective`, `WritesGoToOwnItems`, `UpdateMatchesReport`, `OnlyOwnItemsClosed`; Schedule, CycleText, GitHubIssues |
| CycleLiveness | 2 objectives, no issues, failing requests | `DueObjectiveRuns`, `CyclesEnd` |
| AgentSafety | a lead with 2 calls at a time, 2 sub-agents, 3 tool calls, 2 turns; a Canvas that holds 2 entries a section, 3 saves, 3 seconds | `AgentTypeOK`, `AllowedWithinBudget`, `OverspendBounded`, `AcceptedReportIsReturned`, `CancelledOnlyOnRequest`, `StartedCallsAreCompleted`, `PrunesOldest` |
| ConnectorSafety | 2 runs, 4 sources, tokens that live 2 minutes of 3 | `RequestsCarryLiveTokens`, `SessionsAreClosed`, `CallsStayInScope`; ConnectorTools, ServiceCalls, WebSearch |
| ProgressSafety | 2 agents, 2 call ids each, 3 steps, 5 events, streams of 3 chunks, 2 failing calls | `ScopesAreOpenSteps`, `ActiveScopesAreShown`, `SuccessLeavesNothingRunning`, `NoStreamLeftOpen`, `ClosedMessagesAreSettled` |
| RuntimeSafety | configuration files that differ in a section or two, 24 environments, 14 posts, each event delivered up to twice | `RuntimeTypeOK`, `OnlySelectedSecretsMatter`, `TasksAreEntitled`, `BuiltAsConfigured`, `DeadLinkIsReplaced`; SlackRequests, patterns |
| TaskCancelRestart, ProgressStepLeftRunning, PostHandledTwice | the least that shows it | one statement of the documentation each, found violated |

Deadlock is not checked: in each of these the system may really come to rest (loops that stopped with
everything done, a team without edits left, a session that was stopped, a run that is over).

The other type invariants (`QueueTypeOK`, `TaskTypeOK`, `CycleTypeOK`, `McpTypeOK`, `ProgressTypeOK`,
`ConnectorsTypeOK`) are in no run, to spend the runs on the rest. The first four are parts of inductive
invariants and proved; `StreamInv` has what the proofs need of `ProgressTypeOK`; the last documents the
variables.

**Bounds.** Two loops, two tasks and two clicks are what it takes for each of them to meet another of
its kind at every shared structure: two loops on one job through a retry, two clicks on one job, a
click on the job of another loop, a job that overtakes another through its retry. One retry reaches
both ends of a failing job; two are the shipped default.
For objectives, one issue is Reili's, a second is another's; two edits of the team are an
assignment and its withdrawal, or one before and one during a cycle. A cycle changes one item at most
(`MAX_WORK_ITEMS_PER_CYCLE`), so a second item matters only for the links and the creation. `MaxEdits`
is the only counter that is capped; `Item` bounds the issues there can be, and a creation beyond
it fails as a request may. The `Cycle` tasks are one per objective, or more: with `OneCyclePerObjective`
no objective ever waits for one.
For progress, five events are enough for a sub-agent to be spawned, report, answer and return and for
the lead to answer, and for a tool call to run across two reports of its owner; with streams of three
chunks every fourth update rotates, besides the rotations by age and by refused length. The failing calls
may be any, in a recovery too. `MaxSteps`, `MaxEvents` and `MaxFaults` are caps in the guards.
For agents, two calls at a time race for the last of three, and a sub-agent's calls race with its
lead's; two turns are the least in which something follows a tool's result. For the Canvas, `MaxSaves` and `MaxNow`
cap the entries and the seconds they are saved in: with a cap of two, the third save is the first that
prunes, and all three may have a second of their own. Seconds in which nobody saves make no difference
and are left out. No pruning edit meets a document that has changed since it was read, other than in a second that
two saves share: that takes more saves of one agent run than these bounds have. The theorems (`WritersPruneOldest`,
`RunsPruneOldest`) cover it, for any number of writers and saves.
For connectors, two runs take turns with the lock, the cached token and the kept client; a token that
lives two minutes with a skew of one is cached, found too old, and replaced within the three minutes
that `MaxNow` allows; the theorems below have none of these bounds. For the process, `MaxDeliveries`
caps how often an event arrives and `MaxRepeats` how often the connection fails in a row.
The bounds of the `ASSUME`s are in them: sequences of up to five elements, limits of one or two, so
that each limit is met, missed by one and passed.

**Fairness.** While the process lives and is not being stopped, tokio polls every ready task, timers
fire, and calls to Slack and GitHub return or fail: weak fairness of what a loop, a handler, a timer
or a cycle does by itself. The HTTP clients have no time limit of their own, so for GitHub this is an
assumption on the network. The agent is not fair: it may run for ever, and `EveryTaskEnds` says
explicitly that it holds when no agent does. Nothing is fair after `stop()`: `run_app` returns at
once, the runtime is dropped, and every task with it. In SocketMode the backoff ends, pings are sent,
and time is noticed to have run out, which are timers of the client's own loop; nothing is assumed of
Slack, which may never answer: `DeadLinkIsReplaced` needs only the timers.

## What disagrees with the documentation

Three runs state what a document, a comment or a test says, and show what the code does instead. The
quotations are with the findings in `PROJECT.json`.

* **TaskCancelRestart**: a click accepted while the attempt fails is forgotten with the attempt's
  registry entry, and the task is started again.
* **ProgressStepLeftRunning**: the reporter holds one scope for each owner, but a step with a running
  tool call stays open when its owner announces the next one; a rotation then neither closes it in the
  old message nor resumes it, and the old message shows it in progress for ever.
* **PostHandledTwice**: a post with a mention and a file arrives as two events, of which the parser
  means to drop one and does not; in a channel with auto responses it may become two tasks.

Others are stated by properties of the models that no run has, or by the statements of the MC modules:

* The message "Task queued." with its button is posted before the job is queued; a click in between is
  dropped, and the task runs (`ingress/enqueue.rs:47`, `ClickOnQueuedTaskCounts`).
* `wait_for_cancellation` reads the flag, and only then begins to wait; a cancel between the two wakes
  nobody (`core/task/cancellation.rs:29`, `CancelStopsRun`). The hook of the agent asks again at its
  next tool or model call, so it takes an agent that hangs for the task to hang.
* An item the team takes back while the agent works is still updated, from what was observed before the
  agent started (`cycle/apply.rs:26`, `TakenBackIsLeftAlone`).
* When the deadline of a cycle passes, a report that the agent has already submitted is dropped if the
  agent has not returned within the grace period, and the reason that is given (`cycle/work.rs:102`)
  says that none was submitted.
* A search on GitHub must name the configured organization by `org:`, and no other by `org:`; what it names
  by `repo:` or `user:` besides is not looked at (`core/src/source_code/github/scope_policy.rs:66`,
  `SearchesStayInScope`, `OtherQualifiersAreNot` of MCConnectors). GitHub answers such a search
  from all the accounts it names, although `docs/capabilities-and-permissions.md:270` says of searches
  that "queries must stay inside" the organization. `CallsStayInScope` claims no more than
  what the code checks.
* An entry of a Canvas that is to be pruned is found by its heading, the second it was saved in, in the
  whole document (`slack_canvas_memory_adapter.rs:251`): an entry of another section, saved in the same
  second and earlier in the document, is removed in its place, although
  `core/messaging/slack/canvas_memory.rs:56` speaks of that section's entries (`OtherSectionsKept`). Within
  a section, too, a newer memory may go in place of an older one when several were saved in one second:
  `PrunesOldest` excuses that (`second # "shared"`), and does not hold without.
* `connector/error.rs` says that a server that cannot be reached fails a task for good and other
  errors are tried again. A GitHub server that cannot be reached is tried again, and every error of
  Datadog and JIRA is final.
* The diagnosis of a Datadog failure opens a session that nobody closes.
* The cut of a long tool result is made at a byte, and panics inside a character of several
  (`mcp/support.rs:145`, `CutsInsideACharacter`).
* `0 0 30 2 *` is accepted and never fires, although a valid expression is said to fire within
  the horizon (`schedule.rs:8`); a clock that steps back runs slots again (`ClockThatStepsBackRepeats`).
* A rate limit of Slack that comes as the status 429 is told to the model as its own mistake, while the
  code `rate_limited` is told as temporary (`RateLimitsAreToldApart`); an empty body of a successful
  status counts as a post that was made (`SuccessIsToldApart`).
* Long threads, long discussions and long lists of issues lose their newest entries
  (`ThreadIsItsOldestPart`, `StillTrackerIsListed`). A listing in pages may miss an issue that was open all
  the time, which the port says it does not (`MovingTrackerIsNotListed`), and one that is reopened
  between the listings of the open and the closed (`ItemsAreListedOnce`).
* A line of evidence, or of the agent's own text, that looks like a recorded next step is read back as
  one (`EvidenceReadAsNextStep`, `NextStepIsReadBack`); the line that counts what a brief leaves out may
  itself be cut (`CountOfOthersIsLost`).
* An interaction that cannot be parsed is refused over HTTP, and acknowledged and lost over Socket Mode
  (`ClicksCancelOneTask`).

## Proofs

**JobQueue_proofs** proves `EachJobInOnePlace` under arbitrary callers. The invariant is inductive with
`ready` being a subset of the delayed jobs (`QueueInv`); the lemmas on `Keeping` (what it
returns has no duplicates and exactly the elements it was given) carry every operation that moves jobs
from one sequence to another. `Keeping` exists for this: it characterises `SelectSeq` without
recursion.

**TaskExecution_proofs** proves, for any loops, jobs and clicks, and either value of the
two assumptions on timing and updates:

* `TaskTypesHold`, `OneLoopPerJob` and `NoTaskIsLost`, from one inductive invariant `TaskInv`: types,
  the queue's invariant, `ExclusiveExecution` (a claim is held by exactly one loop, in a place that
  holds claims), `NoJobLost` (what is enqueued and not over is in the queue or claimed), and the
  bookkeeping between the two (which places have a job, which loops have none). Neither of the two
  is inductive alone: that a claim has a holder needs that the queue gave it to nobody else, and that a
  job is not lost needs that its holder is the one who lets go of it. There is one lemma per action, and
  `TaskStepInv` puts them together.
* `TaskExecutionIsALifecycle`: the refinement of TaskLifecycle. It needs one fact more, that a job
  not yet enqueued has no retries on its count (`LifeInv`), and that a free loop means a free slot
  (`AFreeLoopIsAFreeSlot`, a counting argument over the loops that hold a claim).

**TaskCancellation_proofs** builds on `TaskInv` and proves what becomes of cancellations and reports:

* `TokensOfLiveAttempts`, `CancelledOnlyOnRequest` and `CancelledNamesAClicker`, from one invariant,
  `CancelInv`. A cancellation lives in five places that are written at different steps: the request and
  the token in the registry, the flag of the token, the handle of the loop and the place of the click.
  `CancelInv` relates them. Its part that is least obvious is `NewestTokenStays`: of two loops at one
  job, the one whose token was replaced has requeued the job and only cleans up; with it, the loop that
  removes a cancelled job's record either finds its own token, with the request still there, or finds
  nothing and uses its handle. The two shapes of a step (`LoopStep`, `BystanderStep`) carry most of the
  actions; attaching, removing and requesting are proved on their own.
* `RequestsReachAttempts`, under `BackoffOutlastsCleanup`: a job that was requeued goes on waiting while
  its loop cleans up (`RequeuedJobsWait`, `WaitingStays`), so that a clean-up never removes the token of
  the next attempt (`AttemptsAreAttached`). The theorem needs the assumption: when the two race, the
  clean-up may take that token with it.
* `CompletedTasksAreReported`, from `ReportInv`: a loop on its way to call its task completed has posted
  the report, and nobody else calls it so.

* `SettledMessagesAreTrue`, under `BackoffOutlastsCleanup`: once all is over, the message tells what
  happened, or that the click somebody made was accepted. `ToldInv` adds to the above who may still write:
  the loop that ended a task is the only one with a token for it (`LastAttemptIsAlone`), whoever is about
  to announce an end announces the one there was (`NoticesAgree`), and the message of a task that is over
  is right or will be overwritten by a loop or click that is known (`EndsAreTold`).
  Where clean-up and backoff race, TLC finds a message that says otherwise, so the assumption stays.
* `TasksUseTheQueue`: TaskExecution implements `QueueSpec`, the queue under arbitrary callers. Every step
  is an operation of the queue on arguments its contract allows (which is where `TaskInv` comes in: what
  is completed or failed is claimed, what is enqueued is new), or leaves the queue alone. The two action
  properties of the queue, proved of any callers in **JobQueue_proofs** (`ClaimsKeepTheOrder`,
  `RetriesWait`), follow for the tasks (`TasksKeepTheOrder`, `TasksWaitToBeRetried`).

**ObjectiveCycle_proofs** proves the four properties of CycleSafety and the type invariant, for any
objectives, items and cycles, and any edits of the team. The inductive invariant `CycleInv` is types, the
marks (`OneCyclePerObjective` is inductive with types alone), and `CycleSound(k)` of every cycle: it holds
what its place says it needs (an item that is to be updated was observed, a change is planned when
it writes); it knows whose an item is; and of an item that is not in `disturbed[k]` it knows everything it
read. The last two are two different kinds of knowledge: who opened an issue never changes, so
`OnlyOwnItemsClosed` holds whatever the team does, while the rest is only claimed of items that nobody else
changed. Steps of the team, and of another cycle, are one shape (`ToldOfChanges`: what they change is in
`disturbed` of everyone else); steps of a cycle that touch no item another (`StepBesides`).

**ProgressStream_proofs** proves the five properties of ProgressSafety for any number of owners, tool
calls, events, faults and rotations. `StreamInv` has six parts: the steps and whose they are (`StepsOK`),
the agents (`AgentsOK`: an agent that answered has ended its steps, a sub-agent works within a call
of the lead that is running), the updates still to be applied (`BatchOK`), the call to Slack that is under
way (`CallOK`), the messages, their number and their states (`MessagesOK`), and what the current message
shows (`ShownOK`). The properties speak of settled states; the invariant has to say of each request under
way what will hold when it succeeds, through the two requests of a rotation.

**AgentRun_proofs** proves the seven properties of AgentSafety for any number of sub-agents, reports,
limits and writers. For the run there is one invariant, `AgentInv`:

* `BudgetIsKept` and `OverspendIsBounded`. The counters are counted by several agents, so that the bound
  on tokens needs `OverspendCovered`: what was spent, and one answer for each agent that has a
  request under way and was let through. A lead waits while its sub-agents work, and so does not count
  as one more (`SubAgentsAreCalled` with `Shape`).
* `CancelledIsRequested`: the code takes any stop of a task's lead for a cancellation. That is right
  because nothing else stops it: a task has limits that stand for none, and `TaskStaysSmall` says that
  its tokens, bounded by its turns and sub-agents, never come near them.
* `ReportIsReturned` and `NothingIsLeftOpen`: a report that was accepted stays in the slot or is what was
  returned, through every end of a run (`ReportKept`); and a call shown as started is one an agent
  has in hand (`OpenCallsKnown`), of which there are none when a lead answers.
* `AgentsAreTyped`: the types, with the life of a sub-agent tied to the call that waits for it, and those of
  the Canvas, from the invariant below.

The Canvas has an invariant of its own, `MemoryInv`, which is shown of `MemorySpec`; that the run
implements it (`RunsAreWriters`) carries it over. `WritersPruneOldest` is about a decision that is made
from one state of the document and carried out in another, after other saves have removed what it
counted on. `PrunesOldOnes` says of every save under way that what it will delete is covered:
Cap - 1 entries of the section are newer. An edit in between keeps this (`EditKeepsCover`): if it removes
some of those, take the newest it removes; that one was covered, too, and what covers it is newer than all
that the edit removes, so that it stays, and covers the other. That entries are told apart by their second
(`SecondsTellApart`) is what lets a look-up find the entry that is meant or none. `SmallestExists`, on which
the choice of the newest rests, is an instance of the library's theorem on well-founded relations.

**Runtime_proofs** proves four of the five properties of RuntimeSafety (the fifth is liveness), for any
files, environments and posts of their types:

* `RuntimeTypesHold` has one point that is not about types: a handler only looks up groups that the settings
  list, so that the loop over them never asks past their end.
* `TasksAreForTheEntitled`. `RuntimeInv` says of every handler under way that what it has passed was granted
  (`Granted`): by whichever gate its event takes, for the channel, the author and the groups looked up.
  The reference for the patterns is `Glob`, and `WildcardMatchIsGlob` proves that what the code's search
  accepts, a glob accepts, for every pattern and name: what each wildcard stands for ends where the part
  after it was found, the last part being taken at the end of the text. That the search
  misses nothing is checked by TLC, in MCRuntime (`WildcardIsGlob`), for all patterns of up to four and
  names of up to five characters.
* `OtherSecretsAreNotMissed`: two environments that agree on the selected secrets are accepted alike, and
  give the same settings. The lemmas are on sequences of checks: what holds of a sequence that is put
  together (`Joined`), what a check that holds says of its setting (one lemma per resolver), and that
  every variable the settings need is among those the file selects.
* `PartsAreAsConfigured`: `StartOK` keeps that the settings at hand are those of a file no check of which
  failed. What bootstrap builds is only then what the file asks for: it builds no scheduler without a work
  state, and no gate without a judge, and a file that asks for one and has not the other was refused.

These proofs changed the models in a few places. The parsing of an event had been a CASE whose arms
overlap and disagree, and is now a decision in the order of the code; that `None` is neither a provider,
nor an outcome, nor a post was not among the assumptions, and is now; and the operators that the
prover could not look into (checks that were flattened or filtered, and the search of a pattern, which was a
recursive operator and now says where each part is found) have been given a form that it can, with the
same values.

**Connectors_proofs** proves the three properties of ConnectorSafety, `GitHubTokensLive`,
`CallsCloseTheirSessions` and `ForwardedCallsAreInScope`, for any number of runs, any listings, tool
names and arguments, and any clock and lifetimes that `TokenAssumption` allows. One invariant,
`ConnectorInv`, is inductive. `Sound` says of a single call what its step, its token, its session and its
mishaps have to do with each other: from the moment it has a token, the token outlives the skew counted
from then (which `RequestsCarryLiveTokens` alone does not say of a call that has not sent yet); and an
open session is known, with its deletion still to come, or something went wrong at an exchange about
it. `CacheSound` says that the cached token is replaced while it still outlives the skew; it is what a call
that takes the token from the cache relies on. The steps of a call concern that call only, which
`OneCallInv` says once for all of them; `FailedStepIsSound` and `AfterRequestIsSound` follow the error
paths. The scope needs no strengthening but types: `ForwardedCallsStayInScope` is a lemma about the
operators of ConnectorTools, and rests on the two lists of tool names covering every tool offered
(`GitHubToolsAreScoped`) and on what a query that passes reaches (`ValidQueriesReachTheOrganization`).
`Reach` is stated by the rules of GitHub's search, not by the check of the code: the accounts
named by `org:`, `user:` and `repo:` together, or everything when none is named. That nothing but the
organization is reached is false (see "What disagrees"), and the theorem does not say it. Arguments
of a search other than the query are passed on unread, and what a server makes of them is not modelled.

The assumptions are those named in the modules. The sets of jobs, loops and sub-agents are finite, and
`None` is none of the values that may stand in its place. `MaxRetry`, and the caps that bound what TLC
explores (`MaxSteps`, `MaxEvents`, `MaxFaults`, `MaxSaves`, `MaxNow`), are natural numbers, and the Canvas
keeps at least one memory in a section (`MemoryAssumption`). Every lifetime of a token is longer
than the skew and no shorter than the fallback; the arguments of a call have the three fields that
decisions are made on. The tokens a task may use within its turns and sub-agents are fewer than the
double of `NoLimit`, which is `u64::MAX` in the code (`AgentAssumption`). Files, environments and posts
are of their types, patterns and the names of channels being sequences of characters
(`RuntimeAssumption`, `IngressAssumption`), and the variables the code falls back to are
variables of the environment (`EnvAssumption`).

Only model-checked:

* Liveness (`EveryTaskEnds`, `CancelFreesWorker`, `DueObjectiveRuns`, `CyclesEnd`, `DeadLinkIsReplaced`), which
  is out of the prover's reach.
* The statements about the pure modules, many of which are inductions over data, among them that
  the search of `WildcardMatch` finds what `Glob` allows.

## Not modelled

The agent itself (a language model behind a library) is any behaviour, and so is the judge of a post.
Wording, formatting and logging are left out; texts are sequences of lines or words where a decision
depends on them. The clients of the model providers belong to a library. TOML, JSON, Markdown and HTML
are modelled as what they are parsed into. Cryptography is a function that tells its inputs apart.
Settings that are only passed on are left out of the configuration. `PROJECT.json` lists every part with
its reason.

Two panics are not modelled: one of a worker loop, which ends the loop with its claim (nothing in
the code repairs it), and one of the tick loop. Several processes of Reili over the same Slack
workspace and tracker are not modelled, except for the other writers of a Canvas.

## Plan

Done: the queue, task execution, objectives, progress, agents, process and ingress, connectors, and the
agents' memory, each with its properties proved; the pure modules, model-checked.

What would come next:

1. The other half of `WildcardMatchIsGlob`, that the first place of each part is always good enough, as a
   least counterexample (`SmallestExists`).
2. The pure decisions that are not inductions, as lemmas for every input: what a status of a service means
   (ServiceCalls), which request carries a valid signature (SlackRequests), when a slot is due (Schedule).
3. An abstract specification of an objective's cycle, as TaskLifecycle is one of a task.
