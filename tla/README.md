# Taskforce in TLA+

TLA+ models, TLC configurations and TLAPS proofs for Taskforce (`src/src/taskforce`), a
framework that runs LLM agents as long-lived services: missions arrive from HTTP, chat
channels, schedules and events, one persistent agent works through them, and agents ask
people back over chat. Everything runs on one asyncio event loop with JSON files as
storage. Between two `await`s a coroutine is not interrupted; at every `await` any other
coroutine may run, the coroutine may be cancelled, and the process may die.

All paths below are relative to `src/src/taskforce`.

## Inventory

| Component | State it keeps | Operations | What is hard |
|---|---|---|---|
| Request queue (`application/request_queue.py`) | bounded `asyncio.PriorityQueue`, `_futures`, `_known_requests`, `_cancelled` | enqueue, dequeue, cancel, complete, fail, drain | callers blocked in `put()`, barging, lost wake-ups, one `task_done` per item over four paths |
| Request processor and persistent agent service (`request_queue.py`, `persistent_agent_service.py`) | processor task, `_in_flight`, drain state | submit, cancel_request, start, stop | cancel against dispatch, drain time-out, a swallowed cancel |
| Agent executor (`executor.py`, `execution_error_handler.py`) | `_active_agents`, interrupt flags | execute_mission(_streaming), interrupt | turns `CancelledError` into an ordinary exception |
| ReAct loop and tools (`core/domain/lean_agent.py`, `planning_strategy.py`, `lean_agent_components/`) | message history, planner, step counter, pending question | LLM call, tool batch, compress, pause, resume | pairing of tool calls and results over compression, pause and resume; parallel tools |
| Scheduler (`infrastructure/scheduler/`) | `_jobs`, `_tasks`, one file per job | add, remove, pause, resume, start, stop, the job tasks | writes in threads that outlive their task, crash between persisting and firing |
| Workflow runtime (`application/workflow_runtime_service.py`, `infrastructure/runtime/`) | definitions, checkpoints | validate, run, pause at a human step, resume, schedule | the order of dependent steps that run beside independent ones, a failing step, resume twice |
| Channel questions (`application/channel_ask_router.py`, `infrastructure/persistence/pending_channel_store.py`) | a file per waiting session, an index per person | route, register, resolve, poll, clear | answer against time-out, several sessions and one person, stale entries |
| Communication gateway (`application/gateway.py`) | histories, sessions, recipients, links | handle_message, broadcast, reset, link | awaits between reading and writing histories |
| Conversations (`conversation_manager.py`, `file_conversation_store.py`) | `index.json`, a log per conversation | create, append, archive, delete, rename, auto-title, compact, fork | read-modify-write of one index by concurrent requests, one temporary name for all writers, unlink and rename |
| Session state (`file_state_manager.py`, `file_agent_state.py`) | a versioned file per session, a lock per session | load, save, delete, clean-up | lock removal while somebody waits for it |
| Agent daemon and supervisor (`agent_daemon.py`, `daemon_supervisor.py`, `agent_service.py`) | the current daemon, its parts, back-off | start, stop, restart, watchdog | partial start, failing stop, what survives a restart, events at the edges |
| Tool batches (`core/domain/planning/tool_execution.py`, `evidence_cache.py`) | tasks of a batch, the cache of file reads in the session's state | run, record, invalidate | reads beside writes, cached contents that are no longer true, batches nobody awaits |
| Bot pollers (`telegram_poller.py`, `bot_poller_manager.py`) | update offset, poller per bot | poll, dispatch, reconcile, start, stop | redelivery, lost answers, settings saved while a reconcile runs |
| Agent service, event router, rule engine (`agent_service.py`, `event_router.py`) | sources, rules, cooldowns | on_event, dispatch | events against start and stop |
| Sub-agents (`sub_agent_spawner.py`, `parallel_agent_tool.py`) | registry of running children, interrupted sessions, a session file per specialist | spawn, register, interrupt, check for an old pause, deregister | parallel siblings, nested delegations, interrupts at any time, callers that leave |
| Goals, links, ledgers, registries, LLM router, ACP/A2A, MCP, skills, API, CLI, UI | see `PROJECT.json` | | |

How they interact: the API, the gateway and the daemon *submit* missions to the persistent
agent service, which queues them and runs one at a time through the executor. The executor
drives the ReAct loop and, when the agent asks a person on a channel, awaits the channel
question router, which sends through the gateway, stores the open question and polls for
the answer. Inbound chat messages enter the gateway, which first offers them to the store of
open questions. The scheduler calls an event callback that runs a workflow or a mission, and
`WorkflowRuntimeService` mirrors scheduled workflows into the scheduler. The supervisor builds
a daemon, which starts the scheduler, the event sources and the persistent agent, in this
order, and stops them in the other. The bot pollers feed the gateway. Shared state is
in-process dictionaries plus the files.

## Modules

| Module | Models | Role |
|---|---|---|
| `RequestQueue` | `RequestQueue` and the `asyncio.PriorityQueue` inside it | operators on the queue's variables, one per synchronous piece of a coroutine |
| `PersistentAgent` | `RequestProcessor`, `PersistentAgentService`, the executor's handling of cancellation | composes the queue with submitters, processor, cancellers and the embedder that starts and stops |
| `MissionLifecycle` | the promise to whoever submits a mission | abstract specification that `PersistentAgent` implements |
| `Scheduler` | `SchedulerService`, `FileJobStore`, the writing threads of `atomic_write_text`, `register_schedule_for` | one job, its tasks, files and callers over several process lifetimes |
| `ChannelAsk` | `ChannelAskRouter`, `FilePendingChannelQuestionStore`, the gateway's part | sessions that ask people |
| `MessageHistory` | `MessageSanitizer`, `MessageHistoryManager`, `ContextManager.prepare_for_llm` | operators on the message list |
| `ReactLoop` | `NativeReActStrategy`, `_react_loop`, tool batches, `ask_user`, interrupt, pause and resume, the status of a run | one session's runs over its saved state |
| `ToolBatch` | `_execute_tool_calls`, `_process_tool_calls`, `evidence_cache.py`, the parallelism flags of the file tools | one session's batches and cache; refines what `ReactLoop` calls a batch |
| `Conversations` | `ConversationManager`, `FileConversationStore` | callers on the same files, one step per file access |
| `WorkflowRuntime` | `_order_steps`, `_dependency_levels`, `run_steps`, `_run_step` | one run of one definition |
| `DaemonSupervisor` | `AgentDaemonSupervisor`, start and stop of `AgentDaemon` and `AgentService` | composes the parts of successive daemons |
| `BotPoller` | `TelegramPoller`, `BotPollerManager` | Telegram, one bot's poller, its settings |
| `SubAgents` | `SubAgentSpawner` and its registry, the tools' batches, `AgentExecutor.interrupt`, what of the ReAct loop concerns delegation | a root, its delegations and theirs |
| `PersistentAgent_proofs`, `Scheduler_proofs`, `ReactLoop_proofs`, `ToolBatch_proofs`, `WorkflowRuntime_proofs`, `DaemonSupervisor_proofs`, `SubAgents_proofs` | | inductive invariants and theorems of the module they are named for |
| `Messaging_proofs` | | those of `Conversations`, `ChannelAsk` and `BotPoller` |
| `MC*` | | instances for TLC |

### RequestQueue and PersistentAgent

A request is a member of `Requests` with a priority. `heap` holds what `asyncio.PriorityQueue`
stores, ordered by `Before` (priority, then the sequence number drawn *before* `put` may
block). `putters` and `woken` are asyncio's queue of blocked `put()` calls and those whose
wake-up was issued but that have not run yet: a third caller may take the slot in between,
and then `ResumePut` blocks again. A submitter may be cancelled in all three positions
(`Abandon`); asyncio passes the wake-up on, and none of the queue's own bookkeeping is undone,
which is what the code does. `reply[r]` is the submitter's view of its `Future`.

The processor's `proc` names the await it stands at. `Dispatch` covers dequeue, the
cancelled test and entering flight, because there is no await in between. `cancelSent` is a
`Task.cancel()` that has not been delivered: every processor action requires that there is
none, since the `CancelledError` comes first at the next resumption. Outside the executor's
`try` it ends the task (`CancelEndsProcessor`); inside it the executor turns it into a failed
request and the loop goes on (`CancelBecomesFailure`). `svc` follows the embedder through
`start()` and `stop()`. An interrupted agent pauses and returns a result, so `interrupted`
only records that the request was heard.

The agent's work itself is the interval between `BeginAgent` and `EndAgent`; the conversation
store's calls before and after it are states `prepare` and `store`, where a cancellation or
failure can strike.

### Scheduler

Jobs share nothing but the service's flag, so the module follows a single job: its entry in
`_jobs` (`registered`), the task in `_tasks` (`slot`), every task ever started for it (`pc`,
`of`), the management calls in progress (`call`), the threads that write its file (`writes`),
and the file (`disk`). `save` serialises the job at once and then awaits a thread; cancelling
the awaiting task does not stop the thread, so `WritesAfterCancel` lets an abandoned write
land later or never. `AfterCancel` is `Task.cancel` where the callback may swallow the
exception (`Absorbs`): the callbacks of `scheduler_dispatcher.py` and `simple_chat.py` catch
`Exception`, and the executor turns the cancellation into one. `register_schedule_for` adds a
job under a fixed id after removing it, with no suspension in between, hence `AddJob` on a
registered job. `Crash` kills everything but the disk; every `Start` is a new service object,
and an orderly `Stop` leaves abandoned writes behind. `Start` is one step since nothing else
uses the service while it loads. Catch-up after downtime (`coalesce`) is a first sleep of
length zero. `Faults` lets writes and callbacks raise, which ends the task for good
(`Raises`); the finished task stays in `_tasks`, so a job whose task failed still counts as scheduled.

The service has no lock, and two management calls may overlap at every save. Three history variables
say what that can do. `overtaken` are the calls in progress since whose beginning another began;
`loose` are the tasks that a cancellation did not stop, because their callback swallowed it, and those
that an overtaken call started; `doubt` says that the last call to end had been overtaken or had failed to
save. `OnlyRegisteredRuns` excepts loose tasks, and `ScheduledIffEnabled` the time until the next
call that ends without doubt.

### ChannelAsk

`asker[s]` is where session `s` stands in `route_channel_question`; `entry` and `index` are
the files. The store's methods are declared `async` but never suspend, so each is atomic with
the step that calls it. `Register(s, p)` allows any `p` because the gateway may fall back to
another recipient of the user. `Forget` and `Capture` are `resolve`, which the gateway offers every
message first; a message it does not take goes the normal inbound way and changes nothing here. `Dies` is a
cancelled execution or a restart: the files stay (the repository's own known gaps: no time-to-live, no
sweeper).

Reads, writes and unlinks may fail. A write that fails half-way leaves a file nobody can read (`Torn`); an
index that cannot be read counts as empty, so the next save of it drops the others' entries (`Loads`). What
fails is raised (`RegisterRaises`, `CaptureRaises`, `ClearRaises`) or swallowed: `Remove` unlinks the file
of an entry it could not read and leaves the index entry (`Unindexed` is the clean-up that works),
`PollTimesOut` goes on with file and index in place (`RemoveRaises`), and the last poll may not be able to
read an answer that is there (`AnswerUnread`). `spoilt` collects the sessions whose execution died or
one of whose own file operations failed; the safety properties speak of the others, whatever fails for the
spoilt ones beside them. `polls` counts `elapsed` in units of
the poll interval. An answer sent before `Register` is not captured, because the code sends
first and registers afterwards.

### MessageHistory and ReactLoop

A message is its role, the calls it makes and the call it answers; a call is identified by its
position in its batch, so ids recur from batch to batch as they may with real providers.
`CallFor` is the search for the call of a tool message, `Widened` the boundary that cuts no
pair, `Summarised` and `Deterministic` the two outcomes of a compression. Which one applies
depends on token estimates and on the summary's success: `Prepared` is the set of lists
`prepare_for_llm` may leave.

In `ReactLoop`, `pc` is the await a run stands at: the top of the loop, the LLM call, the tools,
the salvage call, the end. `msgs` is the context's list, `state` the pause markers in the run's
state dictionary and `disk` those in the saved session. `Start` loads `disk`: the markers are
cleared in memory only, so a run that `Dies` before its save leaves the session as paused as it
was. A save may fail: `save_state` returns `False`, which its caller drops, so the run goes on
(`Fails`, where `Lands` is the save that works), and `unsaved` remembers that every save of what the
run told has failed. A file that cannot be read counts as no pause. `guard` holds the counters behind stalls, repeated batches and reminders. What the
counters count (progress, equal arguments, missing files) is a free choice, as are the errors of
the LLM. An interrupt can come at any time and is looked for at the top only. `events` holds
the events that decide the verdict, of which the last one counts. A user message between two results of a batch (an image's follow-up) does not break
`EveryCallAnswered`: the provider that accepts the pairing but rejects such an order is not
modelled. The upfront plan, the other strategies and the effects of tools are left out.

### ToolBatch

A file's content is the number of changes made to it, so "older" is "smaller". `_execute_tool_calls`
walks the batch (`pos`); a call that may run beside others becomes a task behind a semaphore
(`CreateTask`, `AcquireSemaphore`), any other is awaited in the loop (`StartInLoop`). When all are
done, `_process_tool_calls` goes through the results in order (`RecordRead`, `Invalidate`). The
cache knows a file by the absolute path `file_read` reports, while lookups and invalidations use
the path of the call: hence `absolute`. The key of an entry is that path in lower case
(`normalize_source_path`), so on a case-sensitive file system several files may have one key (`Key`):
`cache[f]` is the entry that was read from `f`, of files with one key at most one has it
(`OneEntryEach`), recording one drops the other (`Without`), and a read of either is answered
with it (`Serves`; `hit` names the file the entry was read from). `file_read` is the only one of the modelled tools that
declares itself parallel. `Abandon` is a cancelled or closed run: its batch goes on as an orphan
with the cache of the run that left it (`left`), and the next run loads what was `saved`. `excuse`
is a history variable: why the cache may miss a change. Approval, nested sub-agents, the text of
results, and that an entry is left without content when it is too large or evicted as one of more than
thirty, are left out.

### Conversations

Every `await` of the store is a step: reads, opens and writes run in `aiofiles`' threads, while
`exists`, `unlink`, `rename` and `rmtree` run in the event loop. `Quiet` says that nothing on
the loop comes between an unlink and the rename after it; threads do. All writers of a file
open the same temporary name, so `at` follows where an open file went: still at the temporary
name, renamed into place by another writer, or unlinked. `Over` is what is left after writing
over another writer's content. A log is the set of messages it holds, verbatim or summarised. `acked` and
`listed` are what callers were told; `shared` and `holed` record on which files operations
overlapped or a crash hit the gap. `Look` is the read before `create_new` and before the titler's
LLM call. `delete` ends with `rmtree` (`Purge`). `UnreadableHoldsNothing` says that the three marks
for a file that is absent, empty or no JSON are not contents themselves.

### WorkflowRuntime

A step is its place in the definition. `path` is the recursion stack of `visit()`, whose set is
`temporary`. The listed order of dependencies is left open (`Descend`), the order of the roots is
not. `NextLevel` is `_dependency_levels` with its defensive error; `StartLevel` starts a task for
each step of a level, and the mission of a step reads the results of its dependencies at once. A
step *returns* whether its status is completed or failed; when it *raises*, `gather` passes the
exception on and the level's other steps run on.

### DaemonSupervisor

`sup` is where `run()` stands, `at` and `next` where `start()` or `stop()` of the current daemon
is; `running[d]` are the parts of daemon `d` with a task, `service[d]` is `AgentService._running`,
which is set only when the scheduler and all sources have started and which `AgentService.stop`
asks first. `StartRaises` and the two `Stop…Raises` are exceptions in `start()` and `stop()`: the
supervisor logs the latter and forgets the daemon. `AgentDies` is the processor task ending with
an exception: the watchdog watches the status loop only. `EventLost` records the situation in which
an event met an agent without a processor. `RequestRestart` and crashes stop when `MaxDaemons` are
built.

### BotPoller

Telegram is `sent` and `confirmed`; the poller's `offset` confirms with the next request. An update
goes from `next..last` (fetched) to `current` (in `_handle_update`, offset already moved) to an
answer, a background task or nothing; `stage` is where its loop stands. `RequestFails` covers requests
and answers lost on either way. `dealt` are the updates that were used up, one way or another.

`wanted` is what the settings say, `cached` the bot list among the API's cached components, `build` a list
that a request's thread has read and not yet put there. The routes for a single bot save, clear the
cache and then wait for a reconcile (`SaveSettings`); `PUT` and `DELETE` of the whole section change
the settings and then clear the cache, in a thread and without a reconcile (`PutSection`, `ClearCache`).
`reconcile` holds the manager's lock and reads `List`, the cached list if there is one; it may find no
manager or fail to build the components, which its callers log and ignore (`ReconcileRaises`). `silent`
remembers that the settings changed with no reconcile to follow, or that an outdated list went into the
cache, until a reconcile reads the right list. `Off` is a
stopped poller or a dead process; the next one starts without an offset.

### SubAgents

`phase[a]` is the await at which the run of agent `a` stands: first `spawn` (waiting for a permit,
creating the agent, the two halves of `_clear_stale_pause`), then its ReAct loop, then deregistration
and `close()`. `Session` is the deterministic name: siblings of one specialist have the same, so
`stored`, what the session's file says of a pause, is shared. `registry` and `interrupted` are the
spawner's module-level dictionary and set, `flag[a]` the `_interrupt_event` of the running agent.
`Interrupt` is `AgentExecutor.interrupt` of the root's session, at any time, running or not. `batch[s]`
says with which turn of the root a delegation was made: a caller that leaves (`Desert`) does not end
the batch, whose sub-agents go on beside those of the next turn; a nested delegation belongs to the
turn of the delegation it serves. `DelegationsDescend` says that delegations form a tree: each is a
level deeper than the one that made it, which the definition of session names rests on. What the
agents think is open: a run may answer, ask, pause, raise, delegate, or use up its steps. `Save` may
leave the file as it is (`save_state` returned `False` and nobody looks), `Load` may start afresh (an
unreadable file is taken for an empty one), and `unheeded` records the runs whose look for an old
question, or whose save without it, failed in this way. `permits` is what a batch's semaphore was given:
`max_concurrency` is the LLM's choice, 0 included. The saves of a pause (one by its
handler, one by the strategy) are one step; a delegation that is under way is not made a second time.

## What the runs check

| Run | Result | What it shows |
|---|---|---|
| `agent` | pass | 3 requests (two of equal priority, one urgent), capacity 1: accounting of `task_done`, no lost wake-up, no submitter in limbo, state saved at rest; refinement of `MissionLifecycle` (at most one execution, none of a request reported cancelled); every submitter is answered while the service is up; `stop()` ends unless its cancel was swallowed |
| `sched_one_shot` | pass | two callers, three starts, crashes, failing and abandoned writes, swallowed cancellations: a one-shot fires at most once |
| `sched_periodic` | pass | two callers whose calls overlap, all management calls, two starts, crashes, failing saves and callbacks, swallowed cancellations: only the registered task runs, and the job is scheduled exactly while enabled, but for the causes named in `loose` and `doubt` |
| `channel` | pass | two sessions, two people, two answers, two questions each, two polls, executions that die and file operations that fail: for sessions whose own operations work, no stale question, answers only from the person asked, captured answers arrive; every ask ends |
| `react` | pass | two runs of a session: every call answered once in each history sent, questions answered by the user and nobody else, pauses resumable until they are consumed, the verdict told is the state saved unless every save of it failed, at most `max_steps` calls over pauses, every run ends |
| `daemon` | pass | three daemons in a row, two sources, starts and stops that fail anywhere, stalls, restarts, a dying processor, a cancelled `run()`: what a replaced daemon may leave running and why; an event misses the agent only around start and stop; after a requested shutdown no daemon is built; a shutdown ends `run()` |
| `tools` | pass | batches of two and three calls on two files with one key, two at a time, orphaned batches, unsaved runs: a cached content is that of the file it was read from unless one of the listed reasons applies; a read that goes to the disk after a write of its batch sees it |
| `conversations` | pass | four operations of two callers on two conversations with a crash anywhere: at most one active conversation; messages and entries are lost only to overlapping operations on one file or a crash in the gap |
| `conv_atomic` | violation | `_write_json` "atomically": two overlapping saves leave no `index.json` |
| `workflow` | pass | all graphs on three steps (with direct loops and an unknown step) and all on four without direct loops: exactly the sound ones pass, no step starts before its dependencies have results, every run ends |
| `poller` | pass | three updates, two poller lives, lost requests and answers, settings changed at any time with and without a reconcile, an outdated cached list, reconciles that raise: updates in order and once per poller, none forgotten unhandled, settings take effect unless the latest reconcile failed or `silent` says why not |
| `subagents` | pass | two turns of a root with two delegations to one specialist and a third below, batches with 0, 1 or 2 permits, an interrupt, failures (those of loads and saves too) and callers that leave: while a session's flag stands each of its children has been told; an old question is taken up only with a parallel or unattended sibling, or where clearing it failed; every delegation returns, unless below a batch without permits |

Every component's module has a type invariant `TypeOK` (`AskTypeOK`, `PollTypeOK`); it is a theorem
for all of them (for `Conversations` the first conjunct of `Control`, for `BotPoller` of `PollInv`), so
the configurations leave it out in favour of properties that say something about
the code. `PROJECT.json` names, for each property, a mutated definition under which its run fails.

### Bounds and why they are enough

* `agent`: capacity 1 is the smallest at which `put()` blocks; three requests are the least
  with one in flight, one queued and one blocked (or woken while another barges in). Two
  priorities, one of them shared, make both kinds of comparison happen. Identifiers are never
  reused, so the three requests also bound the history.
* `sched_*`: one job suffices, as jobs do not interact. In `sched_one_shot` three starts allow two crashes or
  restarts around one firing; in `sched_periodic` two are enough to load what an earlier life wrote late.
  `Tasks`, `Objects` and `Threads` bound what is in memory at a
  time; a second task is only needed when a swallowed cancellation or an overtaken call leaves one
  behind, and two callers are the least whose calls overlap. The theorems have no such bounds.
  `sched_one_shot` leaves `resume_job` out, because with it the properties do not hold: see *Where the
  code and its documents differ*. That an enabled periodic job goes on firing is not checked: with two
  callers the liveness check is beyond TLC, and with failures it is false (`scheduler_service.py:298`).
* `channel`: two sessions and two people give the shared person, the crossed pair and the
  independent pair, and a failure of one beside an untouched other; two polls separate "not the last" from "the last".
* `react`: two steps per run and two runs give a question in the first and a trimmed history in
  the second, a batch after a resumption, and a stall; batches of two calls have a question
  before, after and beside another call. `MaxUser` stops optional reminders once a history has
  two user messages; mandatory ones are unaffected. `MaxUnread` lets only pauses of up to three
  messages be unreadable, an interrupt before the first call or a question in it; the others would
  differ in a history that nothing reads. A threshold of 4 and a window of 2 make
  every cut happen in histories this short.
* `daemon`: three daemons are the least with one that crashed, one that was restarted after it and
  one that is shut down; two sources let the first start and the second fail. The last daemon
  meets no new crash, so that the run can say that a shutdown still ends.
* `tools`: files interact through their keys only, so two with one key show what one shows and the
  rest; two slots, alike, hold the attended batch and an orphan. One change of the file suffices to be stale or not; the theorem has no bound.
* `conversations`: entries of different people share only the index, which two conversations of one
  person share as well. Four operations give create, append, and two more that overlap. An
  identifier or message is drawn once.
* `workflow`: three steps give every cycle through others and every diamond's edge; four give the
  diamond and two levels of two steps.
* `poller`: three updates separate the one in hand, one of the same batch and one that arrives
  later; two lives are one restart or one stop and start; two saves are one that waits while
  another reconciles.
* `subagents`: two siblings of one specialist and a delegation of the first are the least with a
  shared session and a second level; two turns let a session be used again and an orphaned batch
  meet the next. Two permits register siblings at once, one makes them wait for each other, more than
  there are delegations change nothing; one step per turn suffices to delegate.

### Fairness

`agent`: weak fairness of the processor, of resumed submitters and of `stop()`'s steps: the
event loop runs every ready coroutine, executions are bounded by `max_steps` and LLM time-outs,
and the drain has a time-out. Nothing forces anybody to submit, cancel or stop.
`react`: an LLM call, a tool or a save returns, fails or is cut by a time-out, which is weak fairness
of `RunStep`; it is spelled out with `pc # "idle"` for its enabling condition, because every state
in which a run is under way has a step. Nothing forces a mission, an answer or an interrupt.
`channel`: sends return and sleeps end; people may stay silent.
`daemon`: start() and stop() proceed, and the event loop wakes `run()` when it is due; the progress
property therefore assumes that no start or stop hangs (the supervisor has no time-out for either)
and says nothing of one that does. `subagents`: LLM calls, tools, saves and `close()` return or raise, and a
permit that is free is taken by someone waiting. `workflow`: a step's mission ends, which the documents list as a
known gap (no time-out per step), and the service computes on. The `sched_*` runs, `tools`, `conversations` and
`poller` check safety only.

`CHECK_DEADLOCK FALSE` is set in all configurations because the modelled programs may stop:
every request answered and the service down, the starts used up, all questions asked, `run()`
returned, the operations or updates used up, the workflow ended.

## Proofs

`PersistentAgent_proofs` proves for every finite set of requests, every assignment of
priorities and every capacity, from the assumptions `QueueConstants` and `NoneIsNoRequest`,
that `Spec` implies the type invariant, the safety invariants of the run `agent` (`Accounting`,
`NoLostWakeup`, `NoLimbo`, `SavedAtRest`), and three that follow from what the run checks:
`JoinIsSound`, `AtMostOnce` and `CancelledNeverRan`.

The invariants are not inductive on their own. `IInv` adds

* `OnePlace`: a request is in at most one of `putters`, `woken`, `heap`, `current` and
  `aborted`, and `putters` has no duplicates. Without it a step that moves a request could
  leave a copy behind, and the counting of `Accounting` fails;
* `History`: what `runs` and `reply` say about where a request can still be, so that a fresh
  submission is nowhere and one that ran is not queued again;
* `Control`: how `proc`, `current`, `cancelSent` and `svc` go together.

`NextInvariant` has one lemma per action. The lemmas on sequences (`AppendElement`,
`TailElement`, `RemoveElement`) say what the deque operations do to the set of elements and to
the absence of duplicates, `WakeNextMoves`, `PutTryMoves` and `DequeueMoves` what the queue
operators do in terms of those sets, so that the action lemmas need no sequence reasoning.

`Refinement` proves that `PersistentAgent` implements `MissionLifecycle`, under `phaseBar` (where a
request stands: new, waiting, running, aborted, finished or dropped, read off the queue's variables,
`current` and `runs`) and `answerBar` (what its submitter was told). `Begun`, inductive on top of
`IInv`, says that what is in flight has been counted as an execution. One lemma per action, named
`...Maps`, maps its step to the abstract step it stands for or to a stutter.

`Scheduler_proofs` has three invariants, for any numbers of callers, tasks, objects, threads and
starts.

* `IInv`, for `FiresAtMostOnce` and `NeverForgotten`, under `Scope`: the job is a one-shot and nobody
  resumes it (with `resume_job` both are false, see below). Its heart is who may still have a write
  in flight: `Writers` says that whoever wrote is still awaiting it, and that only `add_job` writes a
  job that could fire; `OneWriteEach` and `OneTask` that there is one of each; `Adding` and `Untried`
  that the job is added before there is anything of it; `Persisted` that the file says "fired"
  before the callback begins; `AfterFiring` that it stays so.
* `MInv`, for `OnlyRegisteredRuns` and `ScheduledIffEnabled`, without any condition on callers, callbacks or
  faults. `LastCall` says that the call which nobody overtook is about the registered object and has
  left its flag as it wants it; there is at most one such call that can still undo what the others did.
  `SlotInDoubt` says that a loose task is in `_tasks` only while the last call is in doubt, and
  `FlagMatchesSlot` compares flag and task already when the only calls left are overtaken ones.
  `OverlapStep` types the history.
* `WInv`, without any such condition: `Served` says that a task or caller waits for a save exactly if
  one thread writes for it. The type invariant states it too.

`ReactLoop_proofs` covers any step limit, limits of the stall checks, batches and outcomes of the
compression. `CallsBounded` and `VerdictMatchesDisk` do not look into the message list: `Paid` relates
LLM calls to steps, with one call in flight between them, and what a paused mission spent to the
step it resumes at; `Marked` says that pause markers are set at the end of a run only, and are the
saved ones unless no save of them worked; `Told`
relates the last event to the markers. `EveryCallAnswered`, `QuestionsAnsweredByUser` and `Resumable`
are about the list, of any length. `Answered` says that every call has one result in the
row of results behind it, the first question's from the user; one lemma per operator of
`MessageHistory` (dropping groups, summarising, trimming for the budget, appending results, resuming)
shows that it keeps answered lists answered. `HInv` then says what the list is at each await: `Ready` where the LLM may be
called, `Underway` (a ready list and one open batch) while tools run, and that a pause, saved or
still in memory, is `Saved`, either ready or lacking the answer to its first question only. `Limits` bounds the
counters, for the type invariant: a run leaves the loop when one of them reaches its limit.

`ToolBatch_proofs` covers any files, any keys, batches, slots and degree of parallelism.
`ReadYourWrites`, which is about reads that go to the disk and not about those the cache answers:
`LoopOrder` (what runs away from the loop's place is a read) makes every earlier write finish before
a later read starts; `WrittenStays` says that contents only grow. `CacheTrustworthy`: the cache may be
wrong while a batch's results are gone through, so `CInv` is about what may still be put right.
`Trusted` says that a content in the cache, or in the hands of a read whose result is not yet
recorded, is current, or excused by a change the cache is never told of, or will be taken out by a
write of the same batch further on (`ToBeInvalidated`); `Results` that results are gone through
in order once all are there, each for the file it was read from (`ReadFrom`); `OneAttended` that one batch at a time is; `SavedBetweenRuns`
that a session has no cache but the saved one between runs.

`WorkflowRuntime_proofs` covers any number of steps and any graph. `DependenciesFirst`, and that a run
reported as done has all results, need no word on the depth-first check: `Layered` (dependencies lie
in earlier levels), `LeftBehind` (earlier levels have results), `Split` (only a complete split is run).
`VerdictIsRight` is about that check: `Chain` says that each step on the path depends on the next, so
an edge back to the path closes a cycle; `Ranked` that the steps marked permanent can be numbered so
that every dependency has a smaller number, so when all are marked there is no cycle. What
lies behind a step is defined by recursion on the length of a walk; that this function exists and
meets its equation is proved, and `Verdict` draws the conclusion at each stage. `Filled` (a level has a step
at least) bounds the levels.

`DaemonSupervisor_proofs` proves `LeftoversExplained`, `LostOnlyAtTheEdges` and `ShutdownWins` for any
sources, numbers of daemons and back-off: `StartedSoFar`, `UpSoFar` and `StoppedSoFar` say which parts
run at each place of start and stop, `Unbuilt` that a daemon not yet built has none.

`SubAgents_proofs` covers any finite set of delegations, any specialists, numbers of permits and turns.
`FlagReachesChildren` needs `Entered`: whoever may be interrupted is in the registry under its
parent's session. `ReplayNeedsSibling`, an action property, needs `TInv`: `Chain` and `Live` say that
whatever runs belongs to the open batch of the root or to a deserted one, and `StaleBySibling` that
a question can appear in a session between a check that worked and the load only through a sibling. That delegations
share a session only if they name the same specialist and their callers share one rests on the
recursive definition of `Session`, which is shown to meet its equation by descent on the depth.

`Messaging_proofs` has the three components between people and agent.

* `Conversations`, for any callers, conversations, messages and crashes. `Control` is the type
  invariant with the await at which each operation stands. `OneActive` follows from `SInv`: every
  index, in the file, in the temporary file or in an operation's hands, names one active
  conversation per person and channel and none nobody created, so whichever copy wins is sound.
  `LogKept` and `IndexKept` follow from `AllSafe`, which is about a file on which no operations
  overlapped and no crash hit the gap: one operation at a time works on it (`Alone`), the file holds
  what callers were told (`Intact`), and between unlink and rename the one operation has everything
  promised in hand (`InHand`). That `AllSafe` is inductive shows that `shared` and `holed` record the
  only ways of losing something.
* `ChannelAsk`, for any sessions, people and texts and any numbers of polls and questions: the type
  invariant, `NoStaleQuestion`, `AnsweredByTheOneAsked` and the action property
  `CapturedReachesAgent`. They speak of sessions that are not spoilt. `NoStaleQuestion` says nothing of a session that polls;
  `Kept` adds that its file can be read, and `Owned` that an
  index entry names a session whose question is open and addressed to just that person. So the
  answer `resolve` stores is from the person asked (`Matched`, then `Heard`), and `remove`, which
  clears the recipient's index entry whoever it names, leaves none of its own. What fails for another session only takes entries out of the index (`Shrinks`).
* `BotPoller`, for any numbers of updates, pollers and saves: `OnceInOrder`, `NothingForgotten` and
  `SettingsTakeEffect`. `Window` bounds offset, batch and the update in hand by each other, `Progress`
  says that everything below them is dealt with, `Order` places what was acted on, and `Settled` says
  that the lock's holder goes where the settings want, or another save waits, or a change was silent, and
  that a cached list is the settings' unless it is known not to be.

Every safety invariant that a run checks, every action property and the refinement are therefore
proved, those of a one-shot job under the condition named. Inductions over lists, walks and depths are done
with the least element of an explicit set of numbers, as an induction theorem that takes a
predicate cannot be instantiated for the provers.

Model-checked only: the liveness properties (`EverySubmitterAnswered`, `StopEndsOrCancelLost`,
`EveryAskEnds`, `RunsEnd`, `ShutdownEnds`, `EveryDelegationReturns`), as the prover has
no rules for fairness and `ENABLED`; and `WritesAreAtomic`, which `conv_atomic` refutes.

## Where the code and its documents differ

One run ends in a violation and `PROJECT.json` quotes the lines: two overlapping saves of `index.json`
leave none (`conv_atomic`). The following differences were met while modelling; the models behave as the
code does, and the passing runs promise only what is left.

* `stop()` need not end. The executor catches the `CancelledError` of a drain that timed out
  (`executor.py:521`, `execution_error_handler.py:62`), the processor goes back to its queue, and
  `stop()` waits for it (`persistent_agent_service.py:167`), so the state is not saved, although
  `docs/spec/persistent-agent.md:44` says "`stop()` always attempts to persist agent state". Hence
  `StopEndsOrCancelLost`.
* Requests of equal priority need not run in the order of submission (`persistent-agent.md:40`) when
  the queue is full: the number is drawn before `put()` blocks (`request_queue.py:158`).
* `resume_job` serialises the job at once; its thread may write after that of the firing, and a crash
  then makes a one-shot fire again (`scheduler_service.py:273`, against
  `docs/spec/events-scheduler.md:41`).
* A job removed during its own callback goes on firing if the callback swallows the cancellation
  (`scheduler_service.py:241`, `scheduler_dispatcher.py:113`; `docs/adr-022-followups.md:66`).
* Management calls may overlap at their saves (`scheduler_service.py:224`, `261`, `273`): a job that is removed
  or replaced while another call saves is started again by that call, without being registered; a pause
  and a resume that overlap may leave an enabled job without a task or a disabled one with a task, which its
  loop ends at its next look. A pause whose save fails leaves the job disabled in memory, enabled on disk and
  with its task. Hence `loose` and `doubt`. And a save or callback that fails ends the task for good while the
  job stays enabled (298), where `docs/spec/events-scheduler.md:44` lets event sources go on
  after an error.
* A question's clean-up may fail unnoticed: `remove` unlinks a file it could not read and leaves
  the index entry (`pending_channel_store.py:170`), the time-out logs the exception and returns
  (`channel_ask_router.py:165`), so the person's next message may be taken for the answer, against
  `docs/spec/channel-ask.md:35` and `36`. Hence `spoilt`.
* Of two sessions that ask one person, one may be left with a question that no message reaches
  (`pending_channel_store.py:87` and `168`, against `docs/spec/channel-ask.md:37`).
* After a question or a salvaged answer the `COMPLETE` event of `execute_stream` says completed where
  `execute` says paused or failed (`lean_agent.py:576`, `react_loop.py:150`, against
  `docs/spec/react-loop.md:39`).
* A pause or an answer is told although no save of it worked: `save_state` returns `False` for an error
  of the file or of the serialisation (`file_state_manager.py:187` and `197`) and `state_store.py:50` does not look.
  The session is then resumed from an older pause or not at all, although
  `docs/spec/interruption.md:34` says that after an `INTERRUPTED` event the saved session can be
  resumed. Hence `unsaved` in `VerdictMatchesDisk`.
* `compress_messages` on a list of at most `summary_threshold` messages that exceeds the token budget
  keeps none of the recent ones (`message_history_manager.py:295`; its docstring at 204).
* A conversation file is lost when the process dies between unlink and rename
  (`file_conversation_store.py:385`), hence `holed`, although `docs/spec/conversations.md:45` says that
  a crash loses no user input. Overlapping calls of `get_or_create` are not idempotent (37); a
  rename by the user can be overwritten by the titler, which checks before its LLM call; `compact`
  writes back a log from before its LLM call, without what was appended since, and brings the log
  of a deleted conversation back. Hence `shared`.
* A step that raises leaves its siblings running; `docs/spec/workflows.md:128` lists this as known.
* A restart of a poller gets unconfirmed updates again: what answered a question may come back as a
  message. A changed token is not noticed (`bot_poller_manager.py` compares only whether the bot
  runs), a section replaced or deleted as a whole is not reconciled (`settings.py:256` and `283`), a list that
  was read before a save may enter the cache after it, and a reconcile that finds no manager or raises
  is passed over (`settings.py:464`, `bot_poller_manager.py:100`), although `api/routes/settings.py:458`
  says that changes take effect without a restart. Hence `silent` and `failed`.
* A daemon whose event source cannot start leaves its scheduler behind: `AgentService.stop` returns at
  once unless `start` got through (`agent_service.py:186`), and the supervisor builds another daemon,
  although `docs/spec/agent-daemon.md:47` says that nothing half-initialised survives into the next
  one. Hence `half_started` in `LeftoversExplained`.
* The watchdog does not notice a dead processor, of which `docs/spec/persistent-agent.md:94` says
  that the supervisor restarts it; `stop()` of such a daemon raises and skips the scheduler and the
  sources. A crash after a long healthy run inherits the back-off of earlier ones, as only a clean
  end resets it (`daemon_supervisor.py:280`, `docs/spec/agent-daemon.md:49`). Events between the
  start of the service and that of the agent are lost.
* A batch that reads a file from the cache after writing it puts the old content back after the
  write's invalidation, and a relative path meets no entry of the cache. Hence the reasons of
  `CacheTrustworthy`. Files whose paths differ in case only share an entry (`evidence_cache.py:24`),
  and a read of one may be answered with the content of the other, although the docstring at 87
  speaks of "an unchanged cached path": `CacheTrustworthy` says what the entry is worth for the file it
  was read from, and `ReadYourWrites` excepts every read the cache answers.
* The last running child that deregisters takes its session's interrupt flag along
  (`sub_agent_spawner.py:64`): a sibling that waited for a permit then starts untold, although
  `docs/spec/sub-agents.md:37` promises the signal to "children spawned after the interrupt flag is
  set". Hence "while the flag stands" in `FlagReachesChildren`. Conversely an interrupt without a
  running child leaves the flag (78), and the first child of a later turn pauses at once
  (`docs/spec/interruption.md:35`).
* An interrupt reaches direct children only: theirs are registered under another session and nobody
  adds an interrupt callback (`sub_agent_spawner.py:79`), although
  `docs/adr/adr-019-agent-interruption.md:107` says that one call "pauses the whole tree".
* Parallel siblings of one specialist share a session (`sub_agents.py:35`), although
  `docs/spec/sub-agents.md:33` says they never do: the question one saves between the other's check and
  its load makes the other's mission the answer (against line 39). Hence `ReplayNeedsSibling`.
* The check for an old question gives up when the file cannot be read (`sub_agent_spawner.py:225` and
  `228`) and does not notice a save that failed (`247`); the next mission is then taken for the answer
  although nobody runs beside it, against `docs/spec/sub-agents.md:39`. Hence `unheeded`.
* `max_concurrency` is not clamped (`parallel_agent_tool.py:141` and `166`): with 0 no mission of the
  batch ever starts and its caller waits for ever, where `tool_execution.py:89` takes at least 1. Hence
  `Starved` in `EveryDelegationReturns`.
* An oversized result of a parallel sub-agent goes to `<specialist>_<last eight characters of its
  session>.md` (`parallel_agent_tool.py:281`); deterministic sessions of one specialist all end
  alike, so the next result overwrites the file, although the docstring (269) says that the full
  result is never lost.

## Plan

Done: `RequestQueue`, `PersistentAgent`, `MissionLifecycle`, `Scheduler`, `ChannelAsk`,
`MessageHistory`, `ReactLoop`, `ToolBatch`, `Conversations`, `WorkflowRuntime`,
`DaemonSupervisor`, `BotPoller`, `SubAgents`, and the proofs above.

Open, in this order: `SessionState` (versions and the life of the per-session locks); the
checkpoints of human steps; the other planning strategies; the message bus.
## Not modelled

LLM providers, the tools' own work, MCP, ACP/A2A adapters, configuration and plugin loading, skills,
prompt assembly, the REST and CLI layers and the user interface: they are I/O, construction or
wording, and enter the models only as an execution or call that succeeds, fails, pauses or is
cancelled. They are most of the code's lines, which is why the map covers a small share of them.

Of the modelled components: the time arithmetic of cron expressions and time zones (a sleep is a
step that may take arbitrarily long); `fork`, topics, and what a list shows during a write
(`Conversations`); checkpoints of human steps, whose resumption is a synchronous read, check and
write, so that only two processes could race as `workflows.md:133` fears; building the daemon's
parts and its status file; the token change, file downloads and two processes polling one bot;
approval in a tool batch; event forwarding and result files of sub-agents; the plan before the loop and the other strategies.
The complete list with reasons is in `PROJECT.json`.
