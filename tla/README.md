# DeepAnalyze: verification project

TLA+ models of the DeepAnalyze server (`src/src/`, TypeScript on Node.js or Bun),
TLC configurations that check them on small instances, and TLAPS proofs of every
invariant, action property and refinement those runs check. Paths below are relative to `src/src/` unless they start with `src/`.

The server is one JavaScript thread. Whatever can go wrong between two actors
goes wrong at an `await`, a timer or an event callback, so in every module **one
action is what the code does between two awaits that really wait** (for the
database, a child process, a model, a timer). A query and the resumption of its
caller are one step. A status write that fails is a branch of the same action.

## 1. Inventory

| component | state it keeps | operations | what is hard |
|---|---|---|---|
| Document processing queue (`services/processing-queue.ts`, routes in `server/routes/knowledge.ts`) | `queue`, `active` (docId -> AbortController), `concurrency`, retry timers, `documents.status`, wiki pages | `enqueue`, `cancel`, `setConcurrency`, `scheduleNext`, `processJob` and its stages, `handleJobError`, recovery in `main.ts` | force requests that evict a running job, late `finally()`s, retry timers, timeouts, restarts, lost status writes |
| Subprocess manager and shared services (`subprocess/`, `services/document-processors/docling-processor.ts`) | `processes`, `pendingRequests` with a timer each; `_sharedMgr`, `_sharedMgrStarting` | `start`, `send`, `stop`, line and exit callbacks; `getSharedManager`, `parse` | concurrent first use, death at any moment, late answers, callers holding a dead manager |
| Agent orchestrator (`services/agent/orchestrator.ts`) | `activeControllers`, `pendingUserAnswers`, rows of `agent_tasks` | `runSingle`, `runParallel`, `runCoordinated`, `cancel`, `waitForUserAnswer`, `resolveUserAnswer` | cancellation at any moment, failing queries, unawaited writes |
| Agent streams (`server/routes/agents.ts`) | `pendingTaskId` per stream, the tool registry's one execution context | `run-stream`, disconnect, `message/:taskId`, `cancel/:taskId`, `run-coordinated` | two streams sharing the execution context, two ids per run |
| Agent runner (`services/agent/agent-runner.ts`) | local state of the turn loop: turns, errors, compactions, messages | `run`, `executeToolCall` | retries that give their turn back, switch to the other model, emergency compaction, cancellation in every await |
| Tool executors (`tool-orchestration.ts`; `streaming-tool-executor.ts` is used by the vendored query loop and tests only) | the batches of one turn | `orchestrateToolCalls` | unsafe tools between safe ones, a tool that throws while others run |
| Workflow engine (`workflow-engine.ts`), teams (`routes/agent-teams.ts`, tool `workflow_run`) | per-run state map, worker pool | single, pipeline, graph, council, parallel | waves, conditions, skips, failing agents, two writers of one row |
| Cron (`services/cron/`, `routes/cron.ts`) | `activeJobs`, `cron_jobs.next_run` | `tick`, `executeJob`, mark completed or failed, CRUD | stale answers of the due query, an unawaited read-modify-write, edits meanwhile, restarts |
| Session memory, auto-dream | `settings` row with a counter, single-flight flags | `incrementSessionCount`, `dream`, extraction | read-modify-write across awaits |
| Context management, hooks, plugins, skills, MCP client | registries, caches | compaction, lookup | mostly sequential |
| Model router and providers, wiki compiler / linker / retriever, document processors, reindex, model manager, channels | external services and text | requests, text processing | I/O, no interleaving of their own |
| Event bus, WebSocket hub | handler and subscription maps | `on`, `emit`, `broadcast` | unsubscribing while iterating |
| Store, migrations, other routes, frontend, Python services | database | CRUD | - |
| `cli`, `commands`, `components`, `ink`, `utils`, `tools`, `hooks`, ... | - | - | another product's tree, not on the server's paths |

Interactions. Routes and the cron reindex call `enqueue`; the queue calls document
processors, which share one Docling process through the subprocess manager, and
writes `documents.status`, which the routes read before they call `enqueue` again.
Routes call the orchestrator, which runs the agent runner and writes
`agent_tasks`; the runner calls tools, and `ask_user` parks it on a promise the
next HTTP request resolves. `PROJECT.json` lists each component with its status,
and under "hazards" every place where these interactions can go wrong.

What makes the components correct:

- queue: one job per document is queued or active; a slot is held by a live
  attempt; queued jobs are woken; no document is left in an intermediate state
  without work behind it; without force requests one attempt per document and an
  orderly status column; everything drains;
- shared service: at most one service process, always reachable; every promise
  settles once and its timer goes with it; a failed start locks nobody out;
- orchestrator: controllers belong to running tasks; returned runs have final
  rows; cancelled runs end; the parent's row summarises the subtasks;
- streams: an answer reaches the question it was given to; leaving cancels;
- runner: the number of model calls is bounded however calls fail; no call of a
  tool is left without an answer when the model is called; tools run in the order
  their safety demands; a cancelled run calls the model no more; runs end;
- workflow engine: an agent starts once and after everything it depends on, is
  skipped for a reason and only then, and the row tells how the workflow ended;
- cron: no way out of an execution leaks its entry, ticks keep the limit whatever
  was answered when, due jobs move on and schedules are not lost.

## 2. Modules

| module | models | extends |
|---|---|---|
| `SlotQueue` | abstract: what a queue with slots promises its callers | - |
| `ProcessingQueue` | the queue, its routes, the status column, restart | - |
| `SubprocessManager` | one or more managers, their children and promises | - |
| `SharedService` | `getSharedManager` and `parse`, composed with the manager's events | `SubprocessManager` |
| `AgentTasks` | `runSingle`, `cancel`, `agent_tasks.status` | - |
| `Orchestrator` | `runParallel`, `runCoordinated` | `AgentTasks` |
| `AgentStream` | `run-stream`, disconnects, questions | `AgentTasks` |
| `BoundedPool` | the worker pool two files of the code have a copy of | - |
| `WorkflowEngine` | `execute` in all its modes, and its two callers | `BoundedPool` |
| `DependencyGraph` | abstract: what running agents by their dependencies promises | - |
| `AgentRunner` | the loop of one run, with the batches of tool calls | `BoundedPool` |
| `CronScheduler` | ticks, executions, marks, the routes, restart | `BoundedPool` |
| `XProofs` | theorems about `X` (seven modules) | `X` |
| `ProcessingQueueOrderProofs` | more theorems about `ProcessingQueue` | `ProcessingQueueProofs` |
| `MCX` | instances of `X` for TLC | `X` |

Each `X.cfg` is one run; `PROJECT.json` says which, and maps every definition
that models code to the lines it stands for. Definitions introduced by
"Mutant of ..." are deliberately wrong variants used to test the properties.

### ProcessingQueue

`queue`, `active` and `concurrency` are the fields of the class. `active[d]` names
the attempt whose AbortController is registered for document `d`, or `None`.
`attempt[d][i]` is one `processJob` call: `at` is the await it is parked on
("cleanup", the writes that open and close a stage, the work of the stage,
"ready", "retrying", "error"), or "backoff" for an armed retry timer. `signal`
tells whether its controller fired, and who fired it. `status` and `pages` are
the database; `asking` and `forcing` are requests between two of their awaits.

| action | code |
|---|---|
| `Ask`, `Asked` | a route or the cron reindex reads the row, awaits, then enqueues |
| `ForceNow` | `process-all?force=true`, and `process/:docId?force=true` on an idle document |
| `CancelActive`, `Cancelled` | `cancel()` of an active document up to and from its status write, then the force enqueue |
| `SetConcurrency` | the settings route |
| `Cleanup`, `StageWrite`, `WorkDone`, `WorkThrows`, `Settle` | the awaits of `processJob`; `Settle` contains `finally()` |
| `Timeout` | the job's own timer; it only aborts the controller, the slot stays taken until the step in progress returns |
| `Retry` | the timer `handleJobError` armed |
| `Restart` | the process dies and `main.ts` starts it, with `recoverStuck` |

`scheduleNext` is not an action: every handler that calls it contains the whole
loop (`ScheduleNext`), written as the shortest prefix of the queue that fills the
slots. It needs a free attempt record; `NumAttempts` is in every configuration
the number of requests the run can make, so the guard never bites. A database
failure (`Budget["fault"]`) is swallowed as in `updateDbStatus`. The row
values of the linking step, which comes after the pipeline is ready and is best
effort, progress events and what a stage computes are left out. In `Levels`, 0
stands for any limit below one, which the settings route lets through as a
negative number.

`SlotQueue` knows a line, who holds a slot, the limit, and how often a document was
evicted and not put back. Its rules are that a request joins at the end, that an
urgent one first gives up its place and its slot, that slots go to the head of the
line only and not beyond the limit, and that nobody waits beside a free slot, except
after an eviction, until the next event (`cancel()` frees a slot and calls no
`scheduleNext`). `ServesInOrder` says that `ProcessingQueue` implements it: `line` is
the documents of `queue`, `slots` those with an entry in `active`, `evicted` the
forced requests between their two awaits. Attempts, timers, retries, stages and the
database disappear; a late `finally()` that deletes another attempt's entry is a
`Leave` of that document, which is why the refinement holds where `Deduplicated`
does not.

### SubprocessManager and SharedService

A manager has `entry` (its `processes` map) and `pending`; a request has a child
it was written to and the state of its promise; `timers` are the armed timeouts.
What a child does is external: it may answer what it was sent, early or
late, and it may die; its exit event is delivered later (`ChildExit`).
`AwaitsSpawn` is TRUE on Node.js, where `start()` awaits an import between its
check and the spawn; the runs use that harder case. In `SharedService` a call of
`parse` moves through `getSharedManager` ("importing", "stabilizing", "waiting"),
reads its settings ("configuring") and sends ("parsing"). `stop()` and `stopAll()`
are not modelled: the only call is on a manager whose process is gone, where
it does nothing. That a late exit after `stop()` and a new `start()` would reject
the new child's requests is therefore out of this server's reach.

### AgentTasks, Orchestrator, AgentStream

`AgentTasks` has the rows, the controllers, who was aborted, `cancel()`'s
unawaited writes, and the place each run is parked at; the agent itself is one
step that returns, throws, or returns early when its signal has fired.
`StatusCheck` is the CHECK constraint of the table: it does not admit
"cancelled", so `CancelWritten` never changes a row.
`Orchestrator` adds one workflow: called directly (`runParallel`, the class's
public interface) or through a coordinator whose plan has 0 to 3 subtasks. Which of
them end by themselves depends on their agents: all types but general and unknown
ones have a turn limit (`Limited`), and most may call `ask_user` (`SubAsks`), which
parks them until an answer comes (`SubAnswered`, which nobody owes).
`AgentStream` adds what the route keeps per stream. Every run has two ids, the one
`runSingle` makes and the one the runner announces (`RunnerId`), and the
registry has one execution context for all of them. A waiting run does not see its
abort signal.

### BoundedPool, WorkflowEngine, DependencyGraph

`parallelLimit` and `runToolsConcurrently` are the same loop: a fixed number of
workers, each of which claims the next index when its task ends. `todo` and
`inflight` are the tasks not claimed and those that run; `Claims` is the start of
the workers, `FirstOf` the claim `tasks[nextIndex++]`.

In `WorkflowEngine` the agents are the positions of `input.agents`. `place` is
where `execute` and its caller are parked; `settled` is what the batch that runs
has come to, `result` what `agentResults` (or `stateMap`) holds. An agent's run is
external and one step: it completes with the text a condition looks for ("hit"),
without it ("miss"), or fails.

| action | code |
|---|---|
| `Post`, `Recorded`, `RunTool` | the route (which inserts a row and may be refused) and the tool (which makes no row) |
| `Loaded` | `execute` up to its first wait: the mode decides; an invalid graph throws |
| `AgentEnds` | `runAgent` returns, its worker claims the next task |
| `RoundSettled`, `StageSettled` | the end of a batch in parallel, council and single mode, and of a pipeline stage |
| `VisitNode`, `NothingReady`, `Wave`, `WaveSettled` | the passes of `executeGraph` over `stateMap`, one agent at a time, because what a pass decides early it reads later |
| `Closed`, `Persisted`, `Stored`, `Caught` | status, event, the engine's write, the route's write or its catch |

`DependencyGraph` is three rules: start once all needs have completed, end, be
given up. `RunsByDependencies` says that the engine implements it, with
`INSTANCE DependencyGraph WITH state <- ...`: waves, limits and passes disappear.
A council with a second round is mapped to a graph that never moves, since it runs
its agents twice on purpose. `cancel()` of the engine is not modelled: nothing
calls it. Agent ids are assumed unique; `stateMap` would merge equal ones.

### AgentRunner

`place` is where the loop waits: the stream of the first model ("primary"), of the
one it switches to ("fallback"), a compaction, a backoff, the tools, the management
of the messages. Turns and model calls are counted only while they are limited, so
that an unlimited run has finitely many states. `Failures` are sets because a
message may match both of the code's patterns. `IsBatch` is `partitionToolCalls`;
that a batch may be unsafe, so run alone, or safe, so run side by side, is all that
the tools' names are for. `CallEnds` covers errors, which `executeToolCall` turns
into answers. Setting up a run, prompts, and what a compaction drops are left out.

### CronScheduler

Time is a minute counter up to `Horizon`, a schedule the set of minutes it matches,
`Never` the year `calculateNextRun` gives up with. A tick is two steps, the query
(`AskDue`) and the loop over its answer (`StartDue`), because the answer may be
stale: jobs may have been started, edited or deleted in between. `exec` is where
`executeJob` stands; its `finally` (`EndMarked`) takes the job out of `activeJobs`
while the mark it left behind still has to read the row (`MarkReads`) and to write
`next_run` (`MarkWrites`); nobody awaits it, and it may fail (`MarkFails`). `Crash`
loses all but the rows, and nothing ticks until a request creates the service.
`StartDue` picks any due jobs up to the room left: the query has no ORDER BY.

## 3. Runs

| run | instance | checks |
|---|---|---|
| `pq_plain` | 2 documents, 3 stale enqueues, a resize, a restart, timeouts, 1 retry, no force | `OneAttemptPerDoc`, `StartsWithinLimit`, `StatusOrder`, `AskedIsDecided` (liveness) |
| `pq_force` | 2 documents, an enqueue, a force request, a resize, a failing write, a restart, 1 retry | `TypeOK`, `QueueConsistent`, `ActiveIsLive`, `NoLostWakeup`, `NoStrandedDocument`, `Drains` (liveness), `ServesInOrder` (refinement) |
| `ss_service` | 2 calls, 2 managers | `TypeOK`, `PromisesAccounted`, `OneService`, `NoOrphanService`, `StartFlagOwned`, `EveryParseEnds` (liveness) |
| `as_stream` | 2 streams, 2 questions, a failing query | `ControllersLive`, `ReturnedIsFinal`, `AnswersFindTheirRun`, `CancelledRunsEnd` (liveness) |
| `or_parallel` | up to 3 subtasks, one of them without a turn limit, a question each, 2 failing queries | `ParentSummarisesSubs`, `BatchLeavesNoController`, `WorkflowEnds` (liveness) |
| `we_team` | 3 agents, limit 2, every mode, all graphs on 3 agents, a condition, a failing query | `TypeOK`, `PoolBusy`, `GraphOutcome`, `RowReportsResults`, `WorkflowEnds` (liveness), `RunsByDependencies` (refinement) |
| `ar_turns` | advisory limits 0, 1 and none, 3 shapes of reply, 2 retries, 1 compaction, 1 continuation, 2 tools at once | `TypeOK`, `ModelCallsBounded`, `NoOpenToolCall`, `ToolsInOrder`, `NoCallAfterAbort`, `RunEnds` (liveness) |
| `cr_ticks` | 2 jobs, limit 1, 3 minutes, 2 troubles | `ActiveIsRunning`, `TicksWithinLimit`, `DueJobsMoveOn`, `ScheduleReturns` (liveness) |

Four runs show that a comment of the code does not hold of it:

| run | what happens |
|---|---|
| `pq_dedup` | enqueue, force (the attempt is aborted and replaced), the old attempt's `finally()` deletes the new one's entry, the next enqueue starts a second live attempt. The comment of `enqueue` promises deduplication |
| `pq_ready_crash` | a force rebuild deletes pages while the row still says ready; a restart then leaves a ready document without pages, which no recovery or ordinary request touches |
| `or_dispatch` | `runCoordinated` with a non-empty plan inserts the parent row twice and throws |
| `as_leaving` | a disconnecting client cancels by the runner's id, which no controller has |

Further disagreements met while modelling, without a run of their own:
`cancel()` of a queue job ends in the retry path (`processing-queue.ts:276`);
`agent_tasks` cannot store "cancelled" although `cancel()` writes it;
`startCoordinatedRun` answers with the coordinator's task id, not the parent's;
a workflow whose coordinator failed is recorded as completed; two
questions of one turn overwrite each other's resolver;
an agent of a team that ran into its five minutes, or whose model could not be
reached, returns normally and is recorded as completed;
a saved graph team with dependencies is always rejected, because its members get
fresh ids when they are stored;
the runner announces "complete" also after "cancelled" or "error";
`skill_invoke` and `workflow_run` do not hand on the caller's abort signal;
the brake on failing tools never counts: it looks for an error that is literally
true, and `executeToolCall` reports a text;
the cron routes do not await the service, so `GET /:id` answers with a promise and
its 404 is never sent, and a restarted server runs no job until the API is called.

**Bounds.** Two documents are enough for a slot to be contended and for a queued
job to depend on another document's `finally()`. One enqueue and one force request
with a retry produce two overlapping attempts and an armed timer; a second
force request, which evicts a queued job, is covered for every number of requests
by the proofs. The restart and the failed write can hit every step. Two calls of
`parse` are a starter and a waiter or a newcomer; the proofs cover any number.
Three subtasks exercise first, middle and last of the sequential loops; the middle
one has no turn limit, and each may ask one question, since a second one hangs as
the first does. Three
agents with a limit of two make a worker claim a second task, and allow chains,
forks, joins and every cycle; the condition sits on the first or the last agent,
so that a pass looks at it before or after it looks at the agent it names. The
replies are three safe calls at a time of two with an unsafe one after them, an
unsafe one between safe ones, and finish alone. Two cron jobs at a limit of one
compete for the slot; one mark per job may be in flight (an execution whose job has
one waits to end), and two troubles are an edit and a failure, a run by hand and a
restart, and so on. `CHECK_DEADLOCK FALSE` is in every configuration because a
server with no requests left really is idle. `MaxRetries` is 1 instead of 3, and
the runner's limits are small, because the code only compares them. No symmetry is
used.

**Properties that hold conditionally.** `OneAttemptPerDoc`, `StatusOrder` and
`AskedIsDecided` are claims about a server nobody forces: with force requests two
attempts overlap by design and `pq_dedup` shows worse. `StatusOrder` speaks of writes
that succeed, and lets a restart put a row back to uploaded; `AskedIsDecided` starts
where no restart is left, since a restart forgets the queue. `NoStrandedDocument`
assumes that no status write was lost, and says so in its first line.
`ParentSummarisesSubs` speaks of direct calls, because the coordinated path throws
before it gets there (`or_dispatch`). `ControllersLive` names the one leak it
allows: a run whose write of "running" failed. `BatchLeavesNoController` speaks of a workflow that has thrown too: storing a result
failed, and the controllers of the subtasks after it stay registered for good.
`WorkflowEnds` of `Orchestrator` excepts a workflow one of whose subtasks hangs
for ever (`Hangs`): it waits for an answer, or it has neither a turn limit nor been
cancelled; `Promise.allSettled` then waits as well.
`AnswersFindTheirRun` does not say that questions are never mixed up or lost, because
they are: it says that a question stands under another run's id only when there is
another stream, and has lost its entry only when another one has been asked.
`RowReportsResults` allows one
failing query: the row is written twice, and two failures do lose it.
`DueJobsMoveOn` and `ScheduleReturns` speak of a scheduler somebody has started;
within the finite horizon a due job is not overtaken for ever, which the unordered
query of a longer one would allow at a full limit. `ScheduleReturns` is about a late
mark that overwrites the next run of a schedule edited meanwhile: the job runs once
at the wrong minute, and then returns to its schedule.

**Fairness.** Weak fairness only, and only of what the environment owes: a
query, a stage, a spawn or a model call that was started comes back, one way or
another; armed timers fire; a runner that looks at an aborted signal stops; the
coordinator ends, which has 200 turns and no tools but think and finish; a subtask
ends if it has a turn limit or looks at a signal that has fired, and asks nothing. A stream of a model ends
because `fetch` closes a connection that is silent for five minutes, an agent of a
team because its own timer aborts it after five minutes, an execution of a cron job
by its timer, and a tool always but for a question nobody answers (so
`RunEnds` assumes that the user answers or that the run asks nothing). Nothing is
assumed of users (requests, answers, cancellations), of timeouts hitting, of
children answering or dying, or of crashes and failures happening.

## 4. Proofs

Eight modules hold proofs, for all values of the constants. The only assumptions are
the named ones on the constants (`PQAssumption`, `SMAssumption`, `SSAssumption`,
`ATAssumption`, `ASAssumption`, `ORAssumption`, `WEAssumption`, `ARAssumption`,
`CSAssumption`), which TLC evaluates in every run; theorems about a server nobody
forces also assume that the budget has no force requests. Together they prove every
invariant, action property and refinement of the passing runs, and the type
correctness of `AgentStream`, `Orchestrator` and `CronScheduler`, which no run repeats.

Two further kinds of theorem are about what the runs can only sample.

*What liveness rests on.* The prover does not handle fairness, so that a run or a
workflow ends stays with TLC. Its two reasons are proved, for all constants: a step
never takes the component back (a rank of places, attempts or unfinished agents
decreases: `EveryStepProgresses` of the runner and of the engine, `EveryCallProgresses`,
`RunsOnlyMoveOn`, `FlowOnlyMovesOn`), and whoever waits, waits for something that is
under way (`ToolsNeverStall`, `NeverStuck`, `CallsNeverStall`, `FlowNeverStuck`). What is
left to fairness is only that the environment answers.

*How far the findings reach.* `LeavingNeverCancels` and `CoordinatedNeverDispatches`
say that what `as_leaving` and `or_dispatch` show of one execution is so in all of
them; `UnforcedIsDeduplicated` and `UnforcedReadyHasPages` say that `pq_dedup` and
`pq_ready_crash` need a force request, and that nothing else in the queue is to blame.

### ProcessingQueueProofs

For every set of documents and every number of requests, faults, crashes, resizes and
retries: `TypeCorrect` (including that no job is retried beyond `MaxRetries`),
`QueueIsConsistent`, `ActiveEntriesAreLive`, `NoWakeupIsLost`, `NothingStranded`; and,
if the budget has no force requests, `OneAttempt`.

`QueueConsistent` and `ActiveIsLive` are not inductive separately: that
splicing one job removes the document needs uniqueness, that a start does not
overwrite an entry needs the queue and the active map to be disjoint, and the
retry bound must be known before the timer fires. The inductive invariant `IInv`
is `TypeOK`, `Good(queue, active, attempt)` and `NoLostWakeup`. `Good` is stated
of three arguments because the handlers chain updates before they call
`scheduleNext`: `Splice`, `AbortActive`, `Append` and the clearing of an entry each
have a lemma that takes a `Good` triple to a `Good` triple (`SpliceFacts`,
`AbortFacts`, `AppendFacts`, `EntryGone`), and `ScheduleNextFacts` closes the
chain: from a `Good` triple it yields a `Good` triple, and leaves jobs in the queue
only if some attempt is executing, since a loop that stops early stops because
every slot is held by a live attempt. `NoLostWakeup` is then kept by `cancel()`,
which frees a slot without scheduling, because the attempt it aborted is still
executing and its `finally()` will schedule. `Inductive` has one step per action.

`NothingStranded` adds to it that the fault budget only shrinks. The lemmas are that
`scheduleNext` shifts no job without starting it and overwrites no record in use
(`ScheduleNextAttends`), that splicing takes one document's job only
(`SpliceKeepsOthers`), and that `enqueue` always leaves its own document attended,
also when it deduplicates, because an active entry is live (`EnqueueAttends`).
`OneAttempt` adds `Single`: no force job exists, and an executing attempt is the one
its document's entry names. Without force requests no `finally()` can then delete
another attempt's entry, which is the step `pq_dedup` needs.

### ProcessingQueueOrderProofs

`ImplementsSlotQueue`, for any number of requests, force requests, faults and restarts.
The step that matters is `ScheduleNextAdmits`: the shortest prefix that fills the slots
is what `Admit` allows, because in a `Good` state the jobs of the queue are of different
documents that hold no slot, so that each adds one to the number of slots. `SpliceDocs`
and `AppendDocs` carry this through the handlers that change the queue first, and the
theorem has one step per action; a step that moves no document is a stutter.

`StartsAreWithinLimit`, `RowsMoveInOrder`, `UnforcedIsDeduplicated` and
`UnforcedReadyHasPages` are for a server nobody forces, and start from `Single`: an
executing attempt is then the one its document's entry names. So a step that adds one
adds a slot, and `Admit` bounds those (`SlotsGrowWithinLimit`). For `RowsMoveInOrder` the
invariant is that the row of a document in work says what its attempt has written last
(`RowsFit`); for `UnforcedReadyHasPages`, that an attempt past its compilation has its
pages (`PagesFit`): without force nobody deletes them, and a failed write leaves a row
that promises less than there is.

### SharedServiceProofs

`TypeCorrect`, `PromisesSettleOnce`, `OneServiceRuns`, `NothingOrphaned`, `FlagIsOwned`, for
any number of callers and on both runtimes. `OneService` follows from `SInv`: a
manager has one child at most and knows it until its exit is delivered
(`ChildInv`), a call's place says what its manager's child has come to (`CallInv`),
and one call starts at a time while nothing is shared (`StartInv`).
`PromisesAreFinal`, `EveryCallProgresses` and `CallsNeverStall` add that a request which
was sent belongs to a call that is parsing or done (`SentInv`): of an answer, a timeout
and an exit the second finds no entry, and a call that waits on a promise has its timer.

### AgentStreamProofs, OrchestratorProofs

`TypeCorrect`, `ControllersAreLive`, `ReturnedRunsAreFinal`, `AnswersArrive` for any number of
streams, questions and failing queries: the invariant adds that a run still writing
"running" has a pending row, and that the shared context names some run as soon as
one is under way. That a mix-up takes two (`MixInv`) rests on the context naming a run
that was requested, and on no run becoming idle again. `TypeCorrect`, `SubtasksSummarised`, `NoControllerLeft` for any number of
subtasks: `OInv` describes the rows and controllers by the place of the workflow, in
particular how far the loop over the settled subtasks has collected them.

`RunsOnlyMoveOn` and `FlowOnlyMovesOn` need that the row of a task tells its place
(`RowInv`; `RootRow`, `CoordRow`, `SubRow`): the writes of `runSingle` then only
raise it, and the CHECK constraint takes care of the late write of `cancel()`.
`QuestionsAreAnsweredOnce` uses that a question is opened while its run waits and nobody
has answered. `LeavingNeverCancels` assumes that an id the runner makes is no row's
id (both are fresh UUIDs; a part of `ASAssumption`). `CoordinatedNeverDispatches` uses
that a coordinated workflow comes to its batch with its row in the table.

### WorkflowEngineProofs

`TypeCorrect`, `PoolIsBusy`, `GraphsEndRight`, `ImplementsGraph`, `RowTellsResults`, for every
team, limit and graph. `GraphInv` carries the argument: what a pass has judged stays
right because results only grow (`Stable`), what it has put in `ready` is still
runnable when the wave starts, and a pass without progress has found every agent
before the cursor undecided; a graph in which some agent is left undecided at the
end would have a cycle (`NobodyLeft`). `ImplementsGraph` shows that every step moves
every agent as `DependencyGraph` allows (`AllMove`, one case per action), and stutters
otherwise. `RowTellsResults` counts the failed writes of the last two places.
`EveryStepProgresses` orders the states by phase, council round, agents without a result,
whether the pass has made progress, and what is left of the pass or batch: the engine
could go round only with a wave that decides nobody or a pass that repeats
itself, and neither exists. `NeverStuck` needs that only a known mode comes to a batch
(`ModeInv`).

### AgentRunnerProofs

`TypeCorrect`, `CallsAreBounded`, `AnsweredBeforeNextCall`, `ToolsKeepOrder`,
`CancelledCallsNoMore`, for any limits and replies. `CallsInv` is why retries, which give
their turn back, do not add up without bound: calls of earlier turns are bounded by
the turns, those of this one by `errors`, which only an answered call resets, and the
switch counts once. `OrderInv` is that the batch that runs lies before those to come.
`EveryStepProgresses` is its complement: between two model calls the stages of a turn only
go forward, and among the tools a call starts or ends, so that a run with limited turns, or a
cancelled one, has finitely many steps. (An unlimited run has not, and should not.)
`ToolsNeverStall` rests on `WorkerInv` and on every nonempty rest of the calls having a
first batch.

### CronSchedulerProofs

`TypeCorrect`, `NothingLeftActive`, `LimitHolds`, for any jobs, schedules, ticks and limit. That
`calculateNextRun` finds a minute at all is the well-foundedness of the naturals
(`NextRunType`); `LimitHolds` uses that an execution started by a tick is active, so
that the room left bounds what a stale answer may start. `NeverStartedOver` and
`DueIsNotForgotten` are about the same races: a stale tick, a run by hand or an edit never
takes over an execution, and a job that is due is due until its own mark or an edit
says otherwise, so that the full limit and failing marks delay it and do not lose it.

### Only model-checked

The nine liveness properties, because the prover does not handle fairness: `Drains`,
`AskedIsDecided`, `EveryParseEnds`, `CancelledRunsEnd`, `WorkflowEnds` of both workflows,
`RunEnds`, `DueJobsMoveOn` and `ScheduleReturns`. The four violations
are counterexamples TLC finds.

## 5. Not modelled

The tree holds two programs: the server, and a vendored command line product
(`cli`, `commands`, `components`, `ink`, `utils`, `tools`, `hooks`, ...), which is most of
its lines, is not on the server's paths and is not modelled. Of the server:

- model providers, the model router, wiki compilation, linking and retrieval, channels,
  embedding reindex and document parsing are external I/O or text processing: where
  another component waits for them they are steps that end or throw;
- context management is sequential and driven by token estimates; the event bus,
  plugins, hooks, skills and the MCP client are registries;
- session memory and auto-dream are best effort; the lost update of their counter is
  listed as a hazard without a property (`auto-dream.ts:104`);
- deleting a document does not cancel its job (`routes/knowledge.ts:995`), and the
  configured parallelism reaches the queue only when it is written
  (`routes/settings.ts:579`): both are hazards without a property, since no text of the
  repository promises otherwise;
- the streaming tool executor, `stop()` of the subprocess manager, `cancel()` of the
  workflow engine and `stop()` of the cron scheduler have no caller on the server's
  paths, or none while something runs;
- the frontend and the Python services are separate programs.

What could come next: document deletion in `ProcessingQueue`, with the property that a
deleted document gets no pages; a rank of the queue's own (requests, retries and stages
left) under which `Drains` rests on what is proved, as the other components' liveness
does; the relay of runner events to the client in `AgentStream`.
