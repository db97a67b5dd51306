# Verification of pythonai

pythonai runs language-model agents for several transports (terminal, LINE, Telegram, Discord, a WebSocket companion, schedules) and keeps every unfinished piece of work in SQLite, so that a process may die at any point and another may continue.
This directory holds TLA+ models of that machinery, the TLC configurations that check them on small instances, and theorems about them that TLAPS has proved.
`PROJECT.json` lists the components, runs, findings, hazards and theorems, and which source lines each definition models.

## 1. The system and its parts

Paths are relative to `src/`; AE is `agent_execution`.

| Component | State | Operations | What is hard | What makes it correct |
|---|---|---|---|---|
| Durable tasks: `AE/tasks.py`, `AE/turn_control/waits.py` | tables `tasks`, `task_steps`; per worker: lease token, loaded checkpoint, heartbeat | claim, renew, checkpoint, finish, answer, resolve, cancel, cancel_session, mark_uncertain, retire_expired_wait, durable_invoke | paused workers that wake after their lease, a crash between start and result of a tool, humans acting at the same time | a tool call runs at most once; only the holder of a live lease writes; a finished task stays finished; the task comes to rest |
| Agent loop: `server.py` run_agent, `agent_runtime.py`, `AE/turn_control` | conversation, iteration and retry counters, pending calls | one model call, its tool calls, questions, evaluation, critic retries; a checkpoint after each | resuming from each checkpoint; batches of calls; verdicts that outlive what they judged | a verified completion rests on a current verdict; suspended work is answerable |
| Turn progress: `AE/turn_control/__init__.py`, `recovery.py` | repetition counters, recorded results | before, observe, reusable_record | repeated calls over a resumption | a reused result belongs to the same call and arguments |
| Budgets: `AE/budgets.py`, `request_budget.py` | per task: calls, tokens, cost, reservations, slots, deadline | reserve, reconcile, reserve_child, slot, budget_scope | parallel children, lost responses, crash between reserve and reconcile | what is reserved stays within the limits; a slot comes back |
| Approvals: `AE/approvals.py` | approval rows (pending, approved, denied, consumed, expired) | request, decide, consume, cancel_wait | decision against expiry, two consumers | an approval is used once, by the call it was given for |
| Communication queue: `communication_store.py`, `communication_worker.py` | `agent_command_jobs`, `comm_deliveries`, `comm_event_keys`, threads, session locks | ingest, admission, background_run, recover_tasks, /cancel, /clear, queue/claim/finish delivery, TTL cleanup | a main loop, threads and other processes on the same rows; answers, cancels and crashes at any step; lost responses of platforms | nothing is sent twice; cancelled stays cancelled; every command is admitted and settled |
| Communication transports: `communication_server.py`, `telegram_polling_worker.py`, adapters | update offset, polling lease | poll, verify, ingest, send | several entry points on one database | an update becomes one command |
| Coordinator and sub-agents: `AE/coordinator*.py` | graph nodes, leases, results | plan, claim, run, merge, human recovery | parallel nodes, crash in a node, dependent nodes | a node runs only after its dependencies; its patch is merged once |
| Worktrees, patches and delivery: `AE/worktrees.py`, `patches.py`, `git_delivery.py` | bindings, patch states, delivery states | bind, create, merge, archive, prepare, approve, push | crash between a git effect and its record | an effect whose outcome is unknown is not repeated blindly |
| Temporal backend: `AE/temporal_backend/` | step claims, effect ledger, outboxes, gates, schedules, DAGs, file-write journal, retention | activities and workflows over the same task table | at-least-once activities, cancellation, migration of running work | each step takes effect once; a publication is sent once |
| Workspace lifecycle: `AE/workspace_lifecycle/` | sessions, plans, operations, leases, tombstones | preview, confirm, resume, begin/erase of each transport | deletion against running work and late writers | nothing of an erased session comes back; running work is waited for |
| Scheduling: `AE/scheduling/`, `scheduler.py` | jobs, runs, notifications | claim, run, complete, miss, notify | crash in a run, clock past several due times | a due run starts once; a notification is not lost |
| Memory: `memory.py`, `memory_worker.py`, `memory_review.py`, `AE/memory_jobs/` | memories, episodes, consolidation queue | enqueue, claim, apply, review, forget | several workers, crash in consolidation | a job is applied once |
| WebSocket companion: `websocket_server.py`, `AE/companion/`, `AE/streaming.py` | connections, event log, turn state | chat.send, ack, replay, cancel | reconnects, duplicated requests | an id runs once; unacknowledged events are replayed |
| Sessions: `AE/sessions.py` | runtime and lock per conversation | get, clear | clear against a running turn | one turn at a time per conversation |
| Policy, permissions, hooks, evaluation, retrieval, code index, media, extensions, sandbox, observability, scripts | mostly none that survives a call | decisions, scores, text, process calls | | computed from arguments; not state machines |

How they interact: a transport ingests a message as a *command*; the main loop of the communication worker admits it and a background thread runs it under the session's lock; the turn is a *durable task* with the command's id, executed by `durable_invoke` around the agent loop; its outcome is written to the command row and queued as a *delivery*, which any process that shares the database may send.
Recovery runs the other way: the main loop reads the durable task of every running command and settles the command from it.
Session deletion sets a fence that all of these read.

## 2. Modules and how they correspond to the code

| Module | Models | Used by |
|---|---|---|
| `TaskLease` | the task table, `durable_invoke`, the agent loop's checkpoints, the human commands | `MCTaskLease`, `TaskLeaseProofs` |
| `CommDelivery` | the delivery ledger and everybody who sends from it | `MCCommDelivery`, `CommDeliveryProofs` |
| `CommQueue` | commands, main loop, background threads, session locks; the durable task reduced to what they read | `MCCommQueue`, `CommQueueProofs` |
| `TemporalSteps` | one submission of the Temporal backend: outbox, Workflow, Activities, cursor chain, operation ledger, waits, cancellation, reconcile | `MCStores`, `TemporalStepsProofs` |
| `TaskContract` | the abstract specification of a durable task, whatever backend runs it | refined by both backends: `TaskLease` (run `task_tools`, `TaskLeaseProofs`) and `TemporalSteps` (run `stores_settle`, `TemporalStepsProofs`) |
| `TaskRow` | the abstract specification of one row of table `tasks` as the command queue sees it | refined by `TaskLease` (`TaskLeaseProofs`) and by the reduced tasks of `CommQueue` (`CommQueueProofs`) |
| `Publication` | the journal of a submission's events, the relay to the transport's outbox, retention and erasure | `MCStores`, `StoresProofs` |
| `ApprovedWrite` | a file write that needs a human: the gate, the approval database, the replacement of the file, its resolution | `MCStores`, `StoresProofs` |
| `WorkspaceLifecycle` | a managed directory, the plans a human approved on it, their workers, the erasure of a session | `MCStores`, `StoresProofs` |
| `TaskBudget` | requests and tokens of a root task, slots, streams and their monitors | `MCStores`, `StoresProofs` |
| `Collaboration` | a coder, its reviewer, the merge into the parent's workspace, the service and its subprocesses | `MCStores`, `StoresProofs` |
| `ScheduleEngines` | one scheduled job, the local engine, the Temporal schedule, and the migration between them | `MCStores`, `ScheduleEnginesProofs` |
| `MemoryJobs` | the memory worker's lock file, the job table, the review of an episode, the turn that ends it, the deletion | `MCStores`, `MemoryJobsProofs` |
| `MCCommunication` | one instance of `CommDelivery` and `CommQueue` | run `communication` |
| `MCStores` | one instance of the eight components from `TemporalSteps` on | runs `stores_safe`, `stores_settle`, `memory_erased` |
| `Companion` | one conversation of a companion device: its inputs, history, connection, approvals | `MCServices` |
| `AgentGraph` | a coder and its reviewer as a DAG of the Temporal backend, its merge, archive, retention and erasure | `MCServices` |
| `Receiving` | how a message of Telegram (polled), LINE or Discord (webhook) becomes a command | `MCServices` |
| `GitDelivery` | plans to publish and merge a commit, and a patch of several files | `MCServices` |
| `MCServices` | one instance of the last four components | run `services`, `ServicesProofs` |

### TaskLease
`task` and `cp` are the columns of table `tasks` (`cp` is the JSON checkpoint), `step` is `task_steps`, `wk` is what each worker holds in memory (its place in `run_agent` or `durable_invoke`, its token, the conversation as far as calls and answers go).
`effects`, `issued` and `answerOf` are history variables that no guard reads, except that `issued` keeps call ids of the provider fresh.
Every SQL transaction is one action, and so is every save with the code up to it; `Raise` at any step of a turn stands for every exception (budget, provider, deletion of the owner, hook).
Time is abstract: a lease is `null`, `live` or `expired`, and a live one may expire at any moment, so every pause of a process is covered.
`Crash` drops a worker's memory only.

### CommDelivery
`row` and `ledger` are `comm_deliveries` (columns, and the order of the rows), `eventKeys` is `comm_event_keys`, and there is the session state, the platform's view (what was accepted), and the senders: main loops of processes and threads that have just replied.
A send may be accepted, refused, or accepted with its response lost; a sender may be arbitrarily slow; a process may die between any two statements.
`Adapters` says which platforms a process can call: the unified server has all, the Telegram polling worker one.

### CommQueue
`cmd` is `agent_command_jobs` of one session (status and the question of `suspended_tool_call_id`), `th` the background threads, `loop` the main loop, `locks`/`gen` the lock of `RuntimeSessions` in each of its generations, `session` the deletion fence, and `task` the durable task with the same id, reduced to state, lease, whether a tool is started, who holds the token and which question was asked.
One action is one statement on a row, one read that is used later, or one lock operation; in particular the recovery reads a task row in one step and acts on it in the next, /clear takes four steps, and forwarding an answer takes two.
`TaskLease` is the full model of what `task` abridges: the recovery counter, checkpoints and evaluation are dropped here because the queue never reads them.
`TaskRow` is what the two have in common, one row with its state, lease, whether a tool is started, the open question and the closed ones. Both modules instantiate it (`TableRow`) and take no step it does not have (section 5). It is an upper bound of both and no more: that every step of a row in `TaskLease` has its counterpart in `CommQueue` is a matter of reading.
A deletion is confirmed while nothing of the session is active, which fences the tasks (`wl_sessions`), and reaches the commands (`comm_session_states`) in a later step; messages arrive in between. `/session-delete` itself, which holds the session lock meanwhile, is not a command of the model, so that the model allows more orders than the code.

### TemporalSteps and TaskContract
`sub`, `fenced`, `box`, `tk`, `run`, `ops` and `ans` are the tables (submission, its cancellation outbox, the task row, the runs of the cursor chain by revision, the operation ledger, the waits for a human); `act`, `wf` and `disp` are the Activities, the Workflow and the dispatching client; `effects` counts the real calls.
An Activity is named by the order in which it was scheduled and goes on after the Workflow has given it up, so two Activities of one cursor meet at every transaction of `step_store.py` and `ledger.py`.
The Temporal service is external and modelled by what the code relies on: a Workflow id exists once, an Activity's result or its timeout is delivered, metadata Activities are repeated.
`TaskContract` says what any backend owes the submitter: a call is made at most once, its result is settled at most once and only while the task is open, the outcome is decided once, and a task is not reported completed while the result of a tool is unknown.
A call in `Supplied` may be settled without having been made.
`TemporalSteps` instantiates it with calls = logical steps, `called`, `known` and `risky` read off `effects`, `run` and `ops`, and the outcome off the submission (`ContractKept`). No call is supplied.
`TaskLease` instantiates it once per task: calls = tool calls and the skill, all of them risky, `called` = what was executed, `known` = step rows `completed`, `failed` or `resolved_by_human`. An `uncertain` task counts as open, because /resolve may take it up again; a tool call can be supplied (refused by a hook, served by an equal earlier result, resolved by a human), the skill cannot. `ContractHonoured` is `\A t : Contract(t)!ContractSpec` with the quantifier inside the box, the form TLC evaluates.

### Publication
`journal` is `temporal_events`, `pfin` the finalization, `stream`/`acked` what the transport's outbox accepted and has had acknowledged, `pubr` the publisher in the middle of its round, `job`/`eras` the erasure.
A round reads the rows, relays them one by one and marks each in a transaction of its own; it may fail after any of them, meet a full outbox, or meet a cancellation that withdraws events.
The web socket and the messengers treat the final event differently, so the target is chosen at the start.

### WorkspaceLifecycle
Two conversations of one user share or do not share one directory; a plan is frozen with the state it was made from (`plan`), approved by a human, and executed by a worker whose lease another worker may take over after a crash.
`disk` has the files apart from the rows: a rename and its record are two steps, and the directory may be written by others.

### ApprovedWrite
The approval database, the task database and the disk are three actions apart; `gate` is the place of the Workflow and its Activity on the way from the probe to the replacement.
The write's transaction compares, replaces the file, and observes it, in three steps (`CommitWrite`, `ReplaceFile`, `ObserveWrite`): a cancellation waits for the transaction, another program does not. A human's resolution looks at the disk in one step and records in a later transaction (`ResolveLooks`, `ResolveRecords`).
Another program may write anything at any moment, the bytes the task was to write and the ones that were there before included (`ForeignWrite`). The code compares contents and cannot tell its own write from another's, so `WritesAsApproved` says that the recorded claim tells what the task did only as long as nobody else has written the file; that the task writes no more once a human has looked holds without that.
`said`, `writes`, `touched` and the count in `look` are history; `MaxTurns` bounds foreign writes and crashes.

### TaskBudget
`spent` is the row of `task_budgets`, `paid` the calls' rows, `slot` the `model_slots` of the machine.
A provider uses at most what was reserved, or up to `Excess` more; its answer comes whole or as a stream, whose reader may stop, close or die, while a monitor thread may close it too.
A chunk may or may not carry the usage so far. `told` is the last one a call carried, and a stream that ends is settled with it (`StreamEnds`; `budgets.py:291-299`), not with what was used (`used`): what was used after the last report is never charged, and `BudgetHolds` promises nothing about it.

### Collaboration
`node` is `agent_nodes`; `child` is the node's durable task as far as the coordinator reads it; `proc` is the subprocess of every claim, so one that lost its lease goes on and tries to publish.
A merge writes file after file (`merger`, `tree`), and a foreign edit, a stop or a death falls between two of them.

### ScheduleEngines
`jrow`, `lrun` belong to the local engine, `bind`, `mig`, `fence`, `occ` to the Temporal backend, `remote` and `owf` to the service; a slot is a due time.
`sy` is the synchronisation under its lock, with the row it read before its RPCs. A migration is a chain of commits in two databases with RPCs between them, each an action.

### MemoryJobs
`lockf` and `role` are `background_worker.lock` and each process's way through `BackgroundWorkerLease.acquire`: looking, unlinking, creating and writing the pid are separate steps, so that two processes can both end as the worker.
`mjob` is `memory_jobs`, `rev` the worker threads with the status they read, `known` the embedding jobs in a process's memory queue (a review is found by the poll, an embedding only there), `chat` the foreground turn, `eraser` the deletion, which checks for running jobs in one step and erases in a later one.
A review handles one candidate with any number of triples and one procedure; each `add_event` and each write of a memory is a step, because a deletion may fall between them.

### MCStores
The eight components share no variable. Where one calls another the callee is seen through what the caller reads of it (`child` in `Collaboration`, `osub` in `ScheduleEngines`, `ext` in `WorkspaceLifecycle`).
A behaviour of `MCStores` is therefore one component's, chosen at the start by `part`; the others keep their initial state. This is a way to check eight modules in one state space, not a composition.
The composition of components that do interact through rows is inside the modules: the durable task with the command in `CommQueue`, the two engines in `ScheduleEngines`, three stores and the disk in `ApprovedWrite`, the journal with the transport's outbox in `Publication`.

### MCCommunication
In the same way a behaviour is the ledger's or the queue's (`side`); the run asks of both what they owe in the end.

### Companion
`hist` is every event ever appended, `kept`/`low` the rows of `ws_events` and `ws_sessions.floor`, `inp` is `ws_inputs`; `srv` is the `Session` object, `thr` the thread of each chat, `apr` the approval it waits for, `wire` what the connection carries and `cli` the client's cursor.
The client keeps to the protocol (events in order, a desktop call only on the connection it came by, its cursor in the handshake). `missed` is what it can never get, because the outbox dropped it without a `history_gap`.
A crash of the server, an expired approval, an interrupt and a Session dropped from memory share one bound.

### AgentGraph
`graph`, `vertex`, `permit`, `registered`, `op`, `gc` are rows; `host` is the Activity that waits for its subprocess `agent`; `flow` and `parent` are the Workflows. A host may die with or without its subprocesses, the deadline may pass, and a second host reconciles.
Requests beside the run (merge, archive, collect, erase) arrive at any time. The merge of single files is in `Collaboration`.

### Receiving
`poller` has the offset in each poller's memory and the rest of its batch, `lock` the host's polling lock with the deadline of a request in the air, `air` the requests open at Telegram; `tries` are the handlers of each webhook event, several at once because platforms repeat; `command` is the command an event became, `held` while a Discord interaction is not yet answered.
What becomes of a command afterwards is `CommQueue`.

### GitDelivery
`dplan` is the artifact's row, `job` each call of the tool (with the row it read and what it observed), `branch`, `pulls`, `green`, `late` the Git host. Each step of a job is one compare-and-set or one request, whose answer may be lost; a lost merge request may still be carried out later.
`patch` and `file` are `apply_patch` over several files, stopped by a foreign edit, a refusal or a death between any two steps. Each file is compared in one step and replaced in the next, in the application and in the rollback (`PatchCompares`/`PatchReplaces`, `PatchUndoes`/`PatchRestores`), as in the code, which reads the file, writes a temporary one and moves it over the first; others edit in between. `at` is the file between the two steps, `fresh` the files others wrote since they were compared.

### MCServices
As in `MCStores` the components share nothing, and the variable `service` names the one a behaviour is about. `GitDelivery` appears three times: two calls about one plan (`delivery`), one call about two plans with the repair of what was left unknown (`repair`), and the patch.
A property of the run is a conjunction with one part per component, named for what the parts have in common (`DoneOnce`, `InTurn`). The definitions with the suffixes `...Any`, `...Skips`, `KnownFinished`, `QuietRows` next to the ones they vary are slips of the code that break one conjunct each; `PROJECT.json` lists one per property.

## 3. Runs, bounds and what they show

All runs use small sets of model values; each bound is a CONSTANT of the module.

| Run | Instance | Shows |
|---|---|---|
| `task_tools` | 1 task, 2 workers, a tool call and a question, 3 iterations, 1 recovery | tools run at most once, leases fence, phases and steps agree, suspended rows stay answerable, recorded results and finished rows stay, and the task keeps `TaskContract` |
| `task_settles` | 1 task run as a skill and continued as a turn, 2 workers, evaluator, 1 critic retry, 1 recovery, fairness | a verified completion has a current verdict, and every started task settles |
| `task_answers` (violation) | 2 workers, 2 questions in one response | an answer matched to one question is stored for the next |
| `delivery_ledger` | 1 loop without the adapter for the receipt, 1 thread, an event-keyed and a content-keyed reply and a cleanup receipt in a ledger for 2, deletion, TTL, 1 crash | nothing is sent twice, `sent` has proof, erased replies stay erased, deletion waits for a live send |
| `delivery_adapters` (violation) | a process with one adapter | a reply of another platform is claimed and given up unsent |
| `communication` | ledger: 2 sessions, page of 1, 1 crash; queue: 2 messages of any kind, 1 thread, 1 question, 1 tool, deletion, 1 crash; fairness | every reply that was queued is served or its row ends; admission and recovery reach every command |
| `queue_control` | 3 messages (at most 2 ordinary, 1 /cancel, 1 /clear), 2 threads, 1 question, deletion; with 2 messages or one busy thread also 1 tool, 1 pause, 1 crash | cancelled and erased commands stay so; no command is forgotten in `running` between two statements |
| `queue_fence` (violation) | a message, a /cancel, a deletion | the message pending when the deletion begins blocks the queue for ever |
| `stores_safe` | each of the eight components, bounds in `MCStoresSafe.cfg` | `PublishedInOrder`, `NothingAfterErasure`, `WritesAsApproved`, `DestroyedAsApproved`, `BudgetHolds`, `MergedAsReviewed`, `ScheduledOnce`, `OffStaysOff`, `BegunOnce`, `ErasedFallsSilent` |
| `stores_settle` | the same with smaller bounds (`MCStoresSettle.cfg`), two plans as there, fairness | `RowsSettle`: what a table holds as unfinished is finished, a deletion that another plan has overtaken excepted; of a submission also `OperationOnce` (a logical call is made once), `ContractKept` (`TaskContract` is refined) and `LateResultsRefused` |
| `memory_erased` (violation) | the memory component of `stores_safe`, 1 job | a review writes a memory of a conversation that was erased |
| `services` | the four components of `MCServices`, bounds in `MCServices.cfg` | `DoneOnce`, `NothingMissed`, `InTurn`, `DeliveredAsChecked`, `OthersStay`, `ServicesEnd` |

Why these bounds are enough to be interesting.
Two workers and one task already give every order of a paused worker, its successor, a human and the recovery scan; a call and a question give a result before and after a suspension; one recovery beyond the first claim is the smallest number at which a row is claimed again, refused and given up (the constant is 3 in the code; the theorems cover every value).
Two deliveries of different keys give a competing pair for one page; a page of one row makes the bound of 20 rows bite.
Three commands are the smallest number in which a question, its answer and a /cancel or /clear meet, and in which work stands before and behind a /clear. In `queue_control` the operator `CalmOrFew` bounds a behaviour: tools, pauses and crashes occur where the last message has not arrived and one thread is busy at a time, all messages and both threads where none of them occurs. Their combination with liveness is in `communication`.
A submission is checked with one step, one recovery and two provider and Activity attempts in `stores_settle`, so that an Activity of the first revision can arrive in the second and a provider is tried twice, and with three steps and no recovery in `stores_safe`.
Two events and an outbox for one give an outbox that is full in the middle of a round.
Two plans of one directory, a write and a crash give a plan that went stale under another's feet, in both runs of the stores; three generations in `stores_safe` and two in `stores_settle` let a plan that was resumed late overtake another.
Two calls, three tokens and an estimate of two give a pair of which only one fits; an excess of one a provider that uses more than was reserved.
Two claims per node are a worker and the one it lost its lease to; two files a merge that is interrupted half way.
Three due times (0 to 2) and a fault in either engine or in the synchronisation give a cutover and a rollback on both sides of a due time.
Two reviewers, two jobs, one deferral and one death give the race of the lock file, a review and the embedding it leaves.
In `services` an outbox of two and two connections give an overflow, a replay and a cursor from an earlier connection; one input sent twice a duplicate at any point of its chat. One crash of a host gives an orphaned subprocess and a late registration. Two pollers, two updates and a retry give a batch that is half handled when its poller loses the lock. Two webhook events, one of them Discord's, each delivered twice, and three troubles give a duplicate that arrives before, during and after the first is handled. Two plans or two jobs on two commits and one pull request give a plan overtaken by another's push or by its own repetition.
`MaxCrashes = 1` and the like let a crash fall between any two statements; what several crashes add to the task table is covered by `TaskLease`, where crashes are unbounded.
Deadlock checking is off because every model has states in which all work is done and nothing is left to arrive.
Symmetry is used only in runs without liveness properties, over workers, calls or threads.

Every property has a mutant: a definition next to the one it replaces (for example `ClaimableStarted`, `KnownKeyRowOnly`, `AbandonedAgain`) that states a plausible slip of the code and makes TLC find the property violated. Where a module has more than one, `PROJECT.json` names the one that is kept.

## 4. Fairness

Nothing is assumed of humans, of faults or of new messages, unless said here.
- `TaskLease!Fairness`: a worker inside a turn goes on (model calls, tools and SQLite have timeouts), the lease of a dead worker runs out (wall clock, `OrphanExpires` never speaks of a live worker), and the recovery scan keeps claiming (`recover_tasks` runs in every round of the communication worker).
- `CommDelivery!FairSpec`: each main loop goes on, also after a crash because the service restarts it, and leases of 120 seconds run out.
- `CommQueue!FairSpec`: the main loop and every thread that is not waiting for the session lock go on; `SF` on taking the lock, because `lock.acquire(timeout=.1)` polls and a holder always releases in a `finally`; leases of dead workers run out. `MCCommunication!SidesFairness` states the two with `side`.
- `StepsFairness`: client loop, Workflow and Activities go on; `SF` on marking a row dispatched, since the client may die and be started again between the start of the Workflow and the mark, finitely often.
- `PubFairness`, `AppFairness`: the publisher, the eraser, the Workflow and the transport's acknowledgements go on; deadlines pass.
- `LifeFairness`: workers of approved plans go on or are taken over; a schedule or transport that blocks a deletion ends its work.
- `BudFairness`: calls and monitors go on; nothing is assumed of the reader of a stream.
- `CollabFairness`: the service ticks and is resumed after its death; leases run out; a deadline is reached.
- `SchedFairness`: synchronisation and migration go on; `SF` on what competes for the metadata lock, which every holder releases.
- `MemSpec`: processes that died are started again, threads go on; `SF` on the last triple says that a text has finitely many; the lease of a dead owner runs out.
- `MCServices!Fairness`: the thread of a chat goes on and an approval expires; a stop reaches the subprocesses of a graph and its workers go on; the web server is restarted, its handlers run and its worker loop takes commands. Nothing is assumed of the client, of the pollers or of the Git host.

`MCStores!Fairness` conjoins these with `part`, and merges three of the strong conditions into one (`StrongRow`): only one component is active, so the merged condition means the same, and each strong condition doubles TLC's work.

Crashes are bounded, since nothing progresses in a process that dies for ever.

## 5. Proofs

Every invariant and every action property of the passing runs is a theorem for all values of the constants; what is only model-checked is their liveness (below).
The argument has one form throughout: an inductive invariant, one lemma per action or class of actions that it is kept, and the theorem from it. What follows says which invariant, and why the property alone is not inductive.

`TaskLeaseProofs`. `TypeCorrect == Spec => []TypeOK`: for any number of tasks, workers and calls, every handler writes values of the declared domains, and recoveries, iterations and retries stay inside their limits.
"At most one execution" fails as an invariant by itself: a worker may be about to run a tool while the row has long been taken over. What holds is a relation between three parties, so the inductive invariant `Inv` is `TypeOK /\ MemoryShape /\ IssuedOK /\ SafeInv`, where
- `WorkerOK` says what a worker that still holds the row (`Knows`) has in common with it: the phase belongs to its place in the program, its current call is the running step;
- `StepsOK` says which step rows a phase allows and that an executed step has a row that is not `none`, which is what keeps a call from being started again;
- `LeaseOK` says that a live lease has a running row and a token already issued;
- `PairOK` says that two workers never share a token, and that never two of them are about to run the same step;
- `IssuedOK` says that calls in a conversation or a step row were issued by the model, so a fresh response cannot reuse an id;
- `MemoryShape` says which fields of a worker's memory are set at which place.

The step `Inv /\ [Next]_vars => Inv'` has one lemma per action (`ClaimSafe`, `ToolStartedSafe`, ...), each resting on a lemma for its class: steps of the table alone (`TableStep`, `RowStep`), of a worker's memory alone (`MemoryStep`), a fenced save (`CheckpointStep`), an execution (`EffectStep`), leaving a turn (`LeaveStep`, `FinishStep`).
From `Invariance` follow `ExecutedAtMostOnce`, `Fenced` and `StepsMatchPhase`; `FinishedIsFinal` and `ResultsStay` are action properties proved from the same invariant.
`SuspendedAnswerable` and `VerifiedCurrent` speak of what a checkpoint contains and need `DataInv` beside it: a question in a worker's memory is an issued call that is neither answered nor left to run (`AsksOK`), a holder in the middle of a batch has put an earlier verdict aside, and a row that waits names an open question (`RowOK`).

`ContractsHonoured` and `LocalContract` show that each task of the local backend implements `TaskContract`; the two differ only in where the quantifier stands. `ExecuteTool` and `RunSkill` are `MakeCall` (`CallMade`); a save that writes a step row, and /resolve, are `Learn` or `Supply` if the row had no result yet, and unseen otherwise (`ResultSettled`); a step that writes the state of a row is `Decide` if it leaves the open states (`TaskDecided`); the rest is unseen (`Unseen`). `EffectsBy`, `StepsBy` and `CompletedBy` say once for all actions which of them may change what.
The hard obligations are that a result is recorded only of a call that was made or may be supplied, and that a task completes only when no executed call lacks its result. For them `WorkerOK` also says that a holder that is finishing has nothing started, and that one whose skill has run has executed it; `StepsOK` that the phases of a skill that has run go with a recorded result of it.

`DurableTasksAsRows` shows that each row of `TaskLease` takes only the steps of `TaskRow`. Every action is first reduced to one of nine things it may do to a row (`RowBy`, lemma `NextBy`), and each of these is a step of `TaskRow` or changes nothing it sees.
A refusal of `claim` records as uncertain any open row whose phase is started, while `TaskRow` gives up running rows only; `StartedOK` says that no other open row can be in such a phase.
That a question is not asked again after its answer needs `AnswersOK`: an answered call has a result in the checkpoint and in the memory of the worker that holds the row, so a save of that worker cannot lose it. A worker that was given up may still have the older conversation, but it no longer holds the row (`HeldBefore`).

`TemporalStepsProofs`. `CalledOnce`, `LateRefused` and the refinement `ContractImplemented`, for any number of steps, recoveries, attempts and Activities.
`StepsInv` types the rows, with three facts the types need (a ready checkpoint names a kind, only a revision below the limit has a successor, an Activity is scheduled for such a revision only).
`OperationOnce` is not inductive: `OnceInv` adds that a call that was made has a claimed row in the ledger (`CalledClaimed`), that an Activity about to call has claimed the row of a step nobody has called (`StartedFresh`), and that no two Activities are about to call the same step (`StartedAlone`).
`StepRowsTyped` proves the declared types (`StepsTypeOK`). What an Activity and the Workflow carry is typed only because of where they are, so `KindsInv` says: an Activity works on a revision that was opened and whose kind is an I/O step (`WorksOpened`), the Workflow walks along opened revisions and awaits the Activity of its own one (`WalksOpened`, `AwaitsOwn`), a completed revision has its successor (`Followed`), and the checkpoint of a holder that yields is `step_ready` and names such a kind (`YieldsReady`, `NamesKinds`).
`LateRefused` is an action property. It needs `TaskFollows`, what a decided submission says of its task, and the guards of the places that accept a result, each of which repeats the scope of the submission (`NoScope`, `ActivityRefused`).
The refinement maps the initial states of `TemporalSteps` to those of `TaskContract`, and every step to one of its actions or a stutter. The hard obligation is that success is reported only when no call is risky, so `ContractInv` adds `ChainInv` (one cursor of the chain is open, what was not opened owns no ledger row), `HolderInv` (the task's lease is the one of the open cursor's Activity, and the task's phase fits its place), `LooseInv` (a tool that was called and whose result is missing keeps the task from success, or an Activity still has the result in its hands), `ExecutedCalled` and `Unsubmitted`.

`CommDeliveryProofs`. `RepliesSentOnce`: in `OnceInv` the platform has taken a delivery no more often than rows were made for it, and less often while a row is still to be sent (`RowKept`); and a sender between its claim and its finish is the only holder of the delivery, whose row nobody makes anew (`HoldKept`), though its lease may lapse and the session be erased meanwhile.
`ErasedStaysErased` is an action property; `ErasedInv` ties the state of the session to the texts that are left, and the ledger's order does not occur in it.
`DeliveriesTyped` has to know the ledger's order. `TypeInv` adds to `OnceInv` that the ledger lists exactly the deliveries that have a row, each once (`LedgerFits`), that a sender with a claim has it at the head of its page (`LocalsFit`), and that purges and crashes are counted inside their bounds (`CountsFit`). The query of the pending rows is a recursive function over positions (`Selected`). It has a solution, and what it returns are the rows of the table that satisfy the condition, each once if the table has each once; both follow from the least position that would contradict them.

`CommQueueProofs`. `QueueInv` relates commands, durable tasks, main loop, threads and locks: only an ordinary message suspends or has a durable task (`RowInv`, `TaskInv`); the row the loop or a thread works on is one its step is for (`LoopInv`, `ThreadInv`); after a confirmed deletion a thread that still brings a question brings it for a command that is over (`FenceInv`); a running command is held by the loop, a thread, or a task that recovery can read (`HeldInv`); and there are no more generations of the session lock than /clear commands were begun (`LockInv`, a counting argument with finite-set cardinality).
It gives `QueueTypeCorrect`, `CancelledStaysCancelled` and `RunningNotForgotten`; the last one excepts the rows described in section 6 under `AskedForAnother`.
`QueuedTasksAsRows` shows that the task of a command takes only the steps of `TaskRow`, like a row of `TaskLease`; it adds `StartedRows`, the counterpart of `StartedOK`.

`ScheduleEnginesProofs`. `SlotsStartedOnce` and `StoppedStaysStopped` rest on one invariant `EnginesInv`: a stop has reached everything from which a later step could enable the job again, the copy a rollback restores included (`StopInv`); a synchronisation knows the row as it is, or the row stays marked (`SyncInv`); the engine that gives up is drained before the other begins (`EngineInv`); and a due time belongs to the local engine or lies behind the cutover (`SlotInv`).

`StoresProofs` has the protocols of approvals and files, the budget, and what holds of all stores together; it extends the other three proof modules of the stores.
- `WrittenAsApproved`: `AppInv` orders the gate (`GateOrder`: the replacement lies behind the use of the grant, which lies behind the decision), ties the grant to what the human said (`DecidedFirst`), allows one replacement (`WrittenOnce`), and ties the file to the number of writes as long as nobody else has written it (`FileTells`). A human looks only behind a fence, which no write passes (`LookFenced`), so what was found is still true when the claim is recorded (`LookTells`, `ClaimLooked`). The other program writes what it likes at any step.
- `FilesDestroyedAsApproved`: `LifeInv` says for which generation and references a plan was approved (`PlanFits`), that an open deletion keeps others from the directory (`DeletionHolds`), and that a worker about to destroy has compared (`WorkerFits`).
- `ResultsMergedAsReviewed`: `CollabInv` says that one commit is published, that the review is of it, and that no state after a merge leads back to a reviewed one.
- `EventsInOrder` and `WipedStaysWiped`: `EventsInv` says that what the transport has accepted precedes everything unsent (`StreamFits`), what a round still has to do is what is unsent (`RoundFits`), the final event is the last (`FinalLast`), and no publisher refers to what is wiped (`ErasureFits`).
- `BudgetHeld`: `BudInv` says that the budget's row is the sum of the calls' rows, how far a call's row is when its thread is at a place, that a row that was settled holds what was reported last and one that was not holds the estimate and every report (`FitsRow`), and that the sum is within the limit while no call has used more than its estimate: a report is never above what was used, so it needs no assumption about streams that stop reporting. That a sum changes by what one row changes is proved of the recursive function behind `MapThenSumSet` (`Sums`): it has a solution (`SumsDefined`), and the set with the fewest calls that contradicts the claim would have a smaller one (`SumsChange`).

- `StoresTyped` (`StoresTypeOK`), `StoresSafe` and `StoresStepsSafe` are proved of `SafeSpec`, the composition the runs check. `StoresInv` conjoins the invariants of the components, and a step of one component leaves the variables of the others alone (`StepsApart`).
  For the bounds in the types, `GenFits` says that a directory's generation passes `MaxGen + 1` only by the deletion that removes it, so never twice; `MarksTyped`, `WipeMarks` and `AroundTyped` type the rows on which the component's own invariant does not rest.

`MemoryJobsProofs`. `JobsBegunOnce`: a row nobody has claimed was begun no more often than it was put back (`Counted`), and a thread that is not idle has a job; the lock file does not occur, because the property does not rest on it.
`ThreadsFallSilent` adds `SilentInv`: the phases of the erasure, what a thread that read its status before may still write, and that a review the erasure has seen is cancelled (`Silenced`).

`ServicesProofs` has the four components of `MCServices`.
- `DeliveryInv`: all plans push to one branch, so only the first push of a plan without an expected head can create it and only one pull request exists (`OneBranch`); with that a row's pull request never changes, and `PlanFits`, `CallFits` relate rows, calls and the Git host. For the patch `PatchFits` says that a file the patch has written still holds it, and that one it has just compared is not foreign, unless others wrote it since. It gives `DeliveredAsCheckedAlways`, `PushedAtMostOnce` and the action property `OthersKeepTheirs`, which excepts the one file between its comparison and its replacement.
- `CompInv` is `HistInv` (the store reaches from the floor to the newest event; what was dropped untold lies between the client's cursor and the floor) and `ChatInv` (an input that was not taken has no thread). It gives `EventsNotMissed` and `InputsRunOnce`.
- `GraphInv`: a node has one permit, and only with it does its process begin (`NodeFits`); where an operation works no process can begin (`OpFits`, `GcFits`).
- `RecvInv`: the lock's holder is the one poller and its request the only one of this host, also while a lost one may still be open (`PollerFits`, `AirFits`); what lies below an offset or before the rest of a batch was handled (`OffsetFits`); what was answered was stored (`EventFits`).

`EverythingDoneOnce` and `EveryoneInTurn` are proved of the specification TLC checks, from the conjunction of the four (`ServicesAlways`): a step of one component leaves the variables of the others alone.
`ServicesTyped` is proved of it as well. For the companion the types are a statement about the session's numbers, and they need `CarriedInv`: the store keeps exactly the events above its floor up to the newest, and neither the floor, the client's cursor, what the pump has sent, nor what is on the wire goes beyond the newest event; a connection that is open was counted. The rows that a reconnecting client is sent are the kept ones in the order of their numbers (`BySeq`); that such an order exists is proved from their lying without a gap between floor and newest.

The assumptions are those of the modules about their constants (`BudgetAssumption`, `ConstantsAssumption`, `DeliveryAssumption`, `QueueAssumption`, `StepsAssumption`, `ScheduleAssumption`, `PublicationAssumption`, `ApprovedAssumption`, `LifecycleAssumption`, `CollabAssumption`, `MemoryAssumption`, `CompanionAssumption`, `ReceivingAssumption`, `ServicesAssumption`): bounds are numbers, names of "nobody" name nobody, sets that must be finite are, and `MCServices` has a plan and a call. TLC evaluates them in the runs.
Uniqueness of tokens (uuid4), of provider call ids and of Workflow ids is built into the models, not proved.

Only model-checked: all liveness (`EventuallySettled`, `DeliveriesSettle`, `CommandsMove`, `RowsSettle`, `ServicesEnd`), since TLAPS has no rule for `ENABLED`, on which fairness rests.

## 6. Where code and documents disagree

The first four are runs that TLC refutes; the quoted lines are in `PROJECT.json`.
1. `task_answers`: `durable_invoke` matches an answer against a row it has read, `TaskStore.answer` stores it for whatever question is there later.
2. `delivery_adapters`: any process claims any pending reply, also one it has no adapter for.
3. `queue_fence`: a message pending when a deletion begins stays at the head of the queue for ever and blocks every command behind it, the /cancel included.
4. `memory_erased`: `supersede_semantic_memory` and `add_procedure` do not look at the episode (`InsertMemory`, `LearnProcedure`), so a review that a deletion has overtaken writes a row, against memory.py:344 "Deleted conversation cannot produce new memories". `ErasedFallsSilent` in `stores_safe` is what remains true: one row per thread, because the event after it is refused, and no review of the episode is claimed again.

The models reach the following as well; no run is kept for them.
- A verdict saved in the last iteration is not consumed by the recovery (`ResumePc`): the task ends as failed although it had passed (`server.py:238`, README.md:535).
- A task whose turn has just ended with an error or a question has no lease, and the recovery treats its command as abandoned while its thread is about to store the outcome (`Skipped`; `communication_worker.py:290`).
- An answer forwarded to a suspended job waits for the session lock while the task is still suspended; a later message that gets the lock first is taken for the answer, and the forwarded one is heard by nobody (`Forwarded`, `Dispatch`; `tasks.py:457`).
- /clear drops the lock under which a turn still runs, and the next message works at the same time (`ClearLock`; `communication_worker.py:158`).
- A process that dies after a running command became `cancel_requested` leaves a row that nobody settles, since `recoverable_commands` omits that status (`RecoveryStatus`; `communication_store.py:311`).
- A merge that dies while the service restarts stays `merging`, its files half written: `resume_coordinator` does not count merging nodes as work (`ServiceResumes`; `coordinator.py:402`, README.md:633).
- A scheduled occurrence whose Activity dies between submitting the task and recording the submission is settled as cancelled, while the submission runs on (`PrepareDies`; `schedules.py:374`). `ScheduledOnce` therefore speaks of occurrences.
- Two processes that find the same stale lock file both become the memory worker, since the second unlinks the file the first has just created (`UnlinkLock`; `memory_worker.py:88`, against README.md:328 "only one process acquires the background memory worker lease"). Jobs are still begun once (`BegunOnce`).
- The review of a suspended turn ends with `finish_episode`, which sets the running episode to `verified_completed` (`WriteStatus`), and procedures are learnt from an episode that is still running (`CheckProcedure`), against the message of memory_review.py:206 "only verified_completed episodes can be saved as procedural memory".
- A command that answers the question of another command's task asks again in its turn, and `suspend_command` suspends this second command, which has no durable task of its own. If the forwarding of a third message to it fails between `mark_command_running` and the result, the row stays `running`, and `recover_tasks` skips it in every round, since it finds no task (`AskedForAnother`; `communication_worker.py:197`, `:284`). `CommandsHeld` excepts exactly these rows.
- An embedding job that was put back after a 429 is looked for only when a process starts (`Backlog`).
- After `handle_chat` has reported that the queue is full, a second `chat.send` is accepted while the first thread still runs, against websocket_server.py:434; and a `tool.call` is sent directly and again by the pump, which the client has to drop (`Companion`).
- An overflow closes the socket without failing the desktop requests that wait on it; they end by their timeout.
- A grant stays `approved` when its turn is cancelled between the poll and the use.
- A DAG merge that was asked to stop and whose host dies leaves the graph in `cancelling` for ever (`MergeLost`; `dag_lifecycle.py:329`).
- The offset of Telegram is advanced before an update is handled, so an update whose download fails or that meets a full store is lost (`dropped`; `telegram_polling_worker.py:59`).
- A Discord command is held for ever if the process or the connection dies between the answer and the release (`Stranded`); and `MultiWebhookService._worker_loop` ends for good on an exception of `process_pending_once`.
- Between the comparison of a patch file and its replacement an edit of others is lost, in the application (`patches.py:144-145`) as in the rollback (151-152), against patches.py:149 "Preserve concurrent edits" and README.md:641 「保留同時發生的人類修改」. `OthersStay` excepts exactly that file; without the exception TLC refutes it at once.
- A deletion that was approved and started stays blocked for ever if another plan of the same directory, started before it and interrupted, goes on after it and raises the generation: each resumption is refused by the comparison of the generations (`Overtaken`; `operations.py:169`), although workspace_lifecycle/README.md:17 offers `/workspace resume` for blocked operations. For example: an archive of the directory is executed and its worker dies before it touches anything, the deletion is executed, the archive is resumed and ends before the deletion reaches the directory. `RowsSettle` excepts exactly this; without the exception TLC refutes it.
- A stream whose last chunks carry no usage is charged less than it used (`StreamEnds`; `budgets.py:291-299`).
- A human's resolution may be recorded as `matches_expected` though the task never wrote, or as `matches_before` though it did, if another program wrote the file (`ResolveLooks`; `write_resolution.py:81-88`).

## 7. What is not modelled, and the plan

Not modelled because a model checker would see nothing in them: parsing and rendering of payloads, prompts, ranking and retrieval, permissions and hook decisions (arbitrary choices in the models), operating-system processes, web and IDE front ends.
Left out of the modelled components: attachments and their quotas, cleanup commands while a session is deleted (`/session-delete` itself), the provider's retry delays, storage quotas (they appear as exceptions at any step), schema migrations, several submissions of one task, notifications of schedules, the erasure of schedules, the graph planning of the coordinator.

The map therefore covers a small part of all lines: the protocols are in a few files it covers densely, most other files are of the first kind, and widening the lines would not model more.

What is left of the plan: properties of the erasure of schedules, of their notifications, and of several submissions of one task; none of the three is modelled yet.
