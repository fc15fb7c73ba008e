# TLA+ models of the CodeWhale (DeepSeek-TUI) runtime

This project keeps TLA+ specifications beside the Rust workspace under `src/crates`.
It models the parts whose correctness depends on order, failure and time: the durable
task store, the execution of one task under its watchdogs, the automations that feed the
store, the launch gates and rate-limit governor of sub-agents, Fleet runs with their ledger,
driver, workers and operators, and the lifecycle event outbox. TLC checks each on small
instances; TLAPS proves the safety of all of them for every instance.

Run a model with `tlc -config X.cfg M`, a proof with `tlapm M.tla`, in this directory.
`PROJECT.json` lists the runs with their expected results, the source lines of every
definition, the hazards and the theorems.

## Inventory of the system

| Component (source) | State | Operations | Interacts with | Hard behaviour | Correct when |
|---|---|---|---|---|---|
| Durable task store (`engine/src/task_manager.rs`) | `tasks/<id>.json`, staged records, `queue.json`, scope lock, generation leases, store lock; in memory: workers, cancel tokens, pending events | add, claim, apply event, flush, cancel, finish, start and recovery, shutdown | other processes over the directory; the executor; automations | crash or failed write between two writes; recovery of dead owners; cancellation from another process | a task runs at most once, ends once, is not lost; accepted events are kept once; a recorded cancellation decides |
| Task execution (`run_task`, `ExecutionGuard`, `EngineTaskExecutor`, same file) | two guards, event channel, blocked event, debounce deadline, cancel tokens | the select loop, the driver loop, drain, finish | task store, runtime journal | timeouts racing answers; two watchdogs; full channel; failing store | the worker is released in time, events keep their order, running work is not called idle |
| Lifecycle outbox (`hooks/src/lifecycle_outbox.rs`) | queue, writer task, batch, seq, JSONL file, webhook posts | emit, flush, batch, recover seq, append, post | emit sites, other processes over the file | full queue, stalled webhook, torn write, restart | order and seq grow, a flush covers what preceded it, the writer goes on |
| Claim schedules and read snapshots (`ClaimSchedule`, `ReadSnapshot`, same file) | last fingerprint, next claim, back-off | should_claim, claimed, found nothing, failed | queue file's metadata | missed wake-up, coarse mtime | queued work is noticed, an unchanged snapshot is current |
| Automation manager (`engine/src/automation_manager.rs`) | definitions, run receipts, delayed triggers, archive; `state.lock` per change, `dispatch.lock` per pass | create, update, pause, delete, run now, trigger and cancel; a scheduler's passes: recover, collect, claim, admit, reconcile, fire | task store, other processes over the directory, operators who edit during a pass | crash or failed write between claim, admission and receipt; a lost answer of the task store; edits during a pass | a slot runs once and not beside another, receipts tell the truth, due work is served |
| Fleet (`engine/src/fleet/`: `ledger.rs`, `scheduler.rs`, `manager.rs`, `executor.rs`) | ledger of tasks, leases, attempts, heartbeats, receipts, alerts; coordination records (`tools/subagent/mod.rs`); worker streams and processes | lease, launch, poll, time out, record outcome, reconcile; restart, interrupt, stop, resume | worker processes, operators in processes of their own, coordination store | late results of superseded attempts, restart during a tick, a crash between record, lease and launch, orphans | one process per task, a lease's record in the store, true and final outcomes |
| Runtime threads (`engine/src/runtime_threads/`) | threads, active turns, approvals, event journal | start turn, interrupt, append, decide | engine, app server, task driver | approval timeouts, store failure, restart | one active turn per thread, a seq per event, each approval decided once |
| Sub-agent launches (`engine/src/tools/subagent/governor.rs`, launch path of `mod.rs`) | owner gates, fleet gate, queue of waiters, permits; reports of the last window, pause | acquire, cancel, release, configure, record attempt, success or rate limit, probe | provider calls of the children, configuration | a grant racing a cancellation, capacity moved under waiters, a pause with nobody left to end it | no slot leaks or multiplies, waiting is fair, a pause admits nobody and ends |
| Sub-agents, the rest (`engine/src/tools/subagent/`) | mailbox, lifecycle records, write claims | spawn, deliver, hand back, cancel | engine | delivery order, parent gone | a result is delivered once |
| Work graph (`engine/src/work_graph/`) | graph, events | reduce, validate, migrate | tools, interface | replay of old events | reduction keeps the validator's rules |
| Rate limiter (`engine/src/llm_client/`) | bucket, retry delays | acquire, back off | provider clients | overflow, zero, clock | waits are bounded |

`PROJECT.json` names the remaining crates (clients, terminal interface, configuration,
tools and so on) with the reason why they are left out.

## Plan

1. `TaskStore` with `TaskLifecycle` as its abstract specification, and their proofs. Done.
2. `LifecycleOutbox` and `TaskSupervisor`. Done, with proofs.
3. `AutomationManager`, composed with the abstract `TaskLifecycle`. Done, with proofs.
4. `LaunchGovernor`; `WorkerRecords` and `FleetManager`. Done, with proofs.
5. `ClaimSchedule`: wake-ups and fingerprints of idle workers, which discharge the
   fairness `TaskStore` assumes of `Claim`; then `ReadSnapshot`.
6. `RuntimeThread`: turns, approvals and the journal, as the environment of
   `TaskSupervisor`; then sub-agent delivery, the work graph reducer (a pure function
   checked against the validator), the rate limiter and the workflow gates.

## Modules

### TaskStore and TaskLifecycle

A *scope* stands for the processes that run managers of one execution scope, one alive at
a time; `gen` counts its incarnations. `rec`, `staged` and `queueFile` are the files;
everything else is lost in `Crash`. An operation of several writes (admission, claim,
recovery, cancellation) is one action per write; between them `txn` holds the store lock,
and a crash or a storage fault may end it there. A record keeps status, owner, generation,
cancellation, terminal reason and the number of events it holds; prompts, timelines and
artifacts are left out.

| Actions | Code |
|---|---|
| `Start`, `StartLoad`, `StartRecover`, `StartReady`, `StartFails` | `start_with_executor_and_runtime`, `recover_dead_executions_locked` |
| `Admit…` | `add_task_with_id`, `admit_task_record`: stage, queue, promote, roll-back |
| `Claim`, `ClaimCommit` and their failures | `claim_next_task` |
| `RunBegin`, `ExecEnd`, `FinishTask`, `FinishFails` | `run_task`, `finish_task` |
| event actions | `apply_execution_event`, `flush_task`, `apply_loaded_locked` |
| `CancelTask`, `CancelQueue` | `cancel_task_visible_to` |
| `Shutdown`, `Exit`, `Crash` | `shutdown`, `shutdown_and_wait`, the end of the process |

`starts`, `accepted`, `cancels` and `faults` are history or bounds. `TaskLifecycle` is what
callers rely on: none, queued, running, then one end; success needs an execution and no
recorded cancellation. `Lifecycle` in `TaskStore` maps record status, recorded cancellation
and executor starts to it.

### TaskSupervisor

One execution: the loop of `run_task` (`sup`), the future it polls (`drv`: `execute` and
`drive_engine_turn`), the channel between them, the tokens and the clock. The executor is
polled first in the biased select and runs until it sleeps, meets a full channel or calls
the runtime, whose answer may take any time, also when it interrupts a turn whose approval
nobody decided (`TurnDenied`). `Tick` lets time pass when the select has
nothing to do; other delays are `Stall`s and are counted, and the deadlines are stated up
to them. The store's answer to an event or a write is a choice; `TaskStore` models what the
write does. The page size of journal reads is left out: a read takes all that is there.

Two bounds of the code are wider than they look, and the properties state them as they are:

* A cancellation may take two poll intervals to be seen, not one. The next poll is due one
  interval after the last, but the select sleeps a whole interval from its own start
  (`wait.min(STORE_REFRESH_INTERVAL)`), and any event wakes the loop just before the poll is
  due; the sleep after that event ends up to an interval late. Hence `2 * Refresh - 1` in
  `CancelPrompt`.
* Once the driver has interrupted the turn itself it sleeps until the end of its own grace
  and sends no heartbeat meanwhile, even with a running tool. Hence `DriverNap` in
  `IdleHonest`.

### AutomationManager

`auto`, `run`, `trig` and `archive` are the files; a change of one is a transaction under
`state.lock` and one step. `disp` is what the holder of `dispatch.lock` keeps in memory
while it works through a pass or a run-now request; operators edit, pause, cancel and delete
without that lock, between any two of its steps. The module extends `TaskLifecycle`, the
abstract specification that `TaskStore` is proved to implement: `Admit` is its `Accept`,
tasks proceed and are canceled on their own. The slots of a recurring rule are the instants
of the clock, 0 means no slot.

| Actions | Code |
|---|---|
| `CreateAutomation`, `UpdateAutomation`, `DeleteAutomation` | the methods of that name; a pause and a resume are updates; a deletion archives, forgets receipts, then removes the definition, and may be cut short |
| `CreateTrigger`, `CancelTrigger` | `create_trigger`, `cancel_trigger_visible_to` |
| `BeginPass`, `SkipPass`, `Release` | `spawn_scheduler`, the dispatch lock and a busy one |
| `Recover`, `Collect`, `Claim`, `Admit`, `Save` | `scheduler_tick_with`: `recover_schedule_advance`, `collect_due_runs`, `claim_scheduled_run`, `enqueue_run_task`, `finish_scheduled_run` |
| `ReconcileRead`, `TrigClaim`, `RunNow` | `reconcile_run_statuses_shared`, `fire_due_triggers_with`, `run_now_shared` |
| `Lose`, `Crash`, `Restart`, `Clock`, `Proceed`, `CancelTask` | the world: a lost task record, process ends, time, the task store |

A write that fails is a step with a fault: a claim may leave a receipt whose definition was
not advanced (`TornAdvance`), an admission may reach the task store and its answer be lost.

### LaunchGovernor

Per gate (one per owner with limits, one for the fleet) capacity, active count and the queue
of waiters; per child where its launch stands and which permits it holds or has in its
channel. A gate call and a governor call is one step each, because each has its mutex; what
lies between interleaves: a failed `try_acquire` and the `acquire` after it, a grant sent and
its receipt, the permits of an ending child dropped one by one. Instants are ages: reports are
counted per age up to the window, so pruning is ageing. `Configure` and `ConfigureOwner` are
`update_runtime_limits` and the owner's `update`; `Probe` is the waiting child's recovery
tick.

### WorkerRecords and FleetManager

`WorkerRecords` has no state: it says what registration, preparation, activation, projection,
recovery and confirmation do to one coordination record (`tools/subagent/mod.rs`) and when
reconciliation refuses it. `FleetManager` composes these with the ledger, the driver of a run
(`run_to_completion`), the executor's streams, the worker processes and operators in other
processes.

* Each compare-and-set call of the ledger is one step, as the file is rewritten under its
  lock; the snapshots it was decided on (`drv.snap`, the operators' `call`) are older.
* `disk` is the stored record, `rec` the driver's copy of when it last looked; the operators
  work on the store.
* The driver's tick is a sequence: `BeginTick`, `Schedule`, `ReadLeases` with one `Beat` per
  heartbeat, `Lease`, `Drive`, `DriveReconcile`, `Check`, per leased task `Activate` and `Launch`
  (or `RejectLaunch`, `RefuseLaunch`, `LaunchFails`), per tracked worker `Attend`, `Fence`, then a
  poll with `Report` and `Stamp` for its events, `Observe` or `Running`, and `Timeout` or
  `WithinLimit`, `Publish`, and at the end `Settle` and `Finish`. An error ends the tick where
  the code's `?` does (`LeaseFails`, `AppendFails`). An event and its heartbeat are two appends,
  and a heartbeat asks for no lease. The poll and the check of the limit are two steps, so a
  process that ends between them is still stopped and failed as timed out, as in the code.
* Operators: `RestartWorker` with `RestartCommit` or `RestartTorn` (record persisted, ledger
  not), `Interrupt`, `StopRun` with `StopTask`, `ResumeRun` with `ResumeRead`, `ResumeMark`,
  `ResumeRetry`, `ResumeAlert`.
* `Crash` ends the driver and leaves orphans, which their parent-death watch ends
  (`OrphanDies`); `StartDriver` is the command that drives the run again.

Each task is pinned to a worker of its own, and a batch of events of one append counts as one
in `seq`.

`OneProcess` is stated, checked and proved for at most one fault; a second fault can defeat it
(see below). `LeaseHasRecord` says how the three copies of a launch agree: the generation of the
stored record is the lease's or a prepared one after it, the lease's own record is not that of a
finished worker, and the driver's memory equals the store within a generation, except for a
record that a recovery closed before its lease. That exception is the divergence which
`LaunchPersisted` states and the run `fleet_lease` shows.

### Subsequences

Operators without state: the entries of a sequence at some places, or those of a set, in their
order. `VecDeque::retain` and the loop that sorts a batch are defined with them, by the rank of
a place and not by recursion, so that they can be reasoned about. `TaskStore` (`LoadedQueues`,
`AdmitPromoteFails`, `Claim`) and `LifecycleOutbox` (`EventsOf`) use them.

### LifecycleOutbox

Per process a bounded queue, a writer started on demand, batches, seq recovery, one append
per record, posts and the flush barrier; processes share one file and restart. The runs use
one process, because the documentation promises a growing seq only for a file of its own. The
file is a sequence of whole and torn pieces, which is what recovery can tell apart. One doc
comment differs without a property of its own: the module comment says events are dropped when
no runtime is available, whereas `emit` queues them and the writer is started by a later call.

`EventsOf` is the loop of `run` that sorts a batch: the k-th event is the one whose place has
rank k among the places of events. `FlushBarrier` and `RecordOrder` say not only what a
finished flush and the file promise but also where everything on the way to them stands;
this makes them inductive, and TLC checks them in that form.

## Runs

Deadlock checking is off in all of them but `automation`: executions, launches and fleet
runs end, and the bounds on requests, incarnations and failures run out. A scheduler goes its
rounds for ever, so there a state without a step would be an error.

| Run | Shows | Bounds |
|---|---|---|
| `store` | types and a queue without duplicates, at most one execution, ownership, attended running records, cancellation, final outcomes, events kept exactly once, implementation of `TaskLifecycle`, the inductive invariant of the proofs, and that every admitted task ends (`Settles`) | 2 scopes, 1 task, 1 worker, 3 incarnations, 3 events, pending set of 2, 1 cancellation, 2 faults |
| `supervisor` | types, `Deadline`, `CancelPrompt`, `DebouncedWrite`, `EventOrder`, `IdleHonest` | wall 5, idle 3, grace 1, debounce 3, refresh 2, channel 2; 1 journal event; 1 request; 1 stall; 1 fault |
| `supervisor_liveness` | `Finishes` | wall 3, idle 2, a destination thread that may be busy, approvals; 2 journal events; 1 request; 1 fault |
| `outbox` | types, `FlushBarrier`, `RecordOrder`, and `AppendsGoOn` when posts return | queue 2, batch 2, 1 post in flight, 4 events, 1 flush, 2 incarnations, 2 faults |
| `automation` | types and that an unsettled run has its definition and what the lock holder has in hand is on disk, `SlotOnce`, `NoOverlap`, `ReceiptTrue`, `CanceledNeverFires`, `OwedSlotKept`, `SchedulesServed`, `TriggersFire` | 1 scope, 1 automation, 1 trigger, 3 task ids, time to 2, archive of 1, 1 operator request, 1 fault |
| `governor` | types and that capacity, pause and ceiling agree, `SlotsCounted`, `NoOvertaking`, `PauseAdmitsNobody`, `EveryWaitEnds` | 3 children, 2 of one owner; concurrency 1 or 2; window 1; throttled by 1 report, paused by 2, raised by 1 success; 2 calls; 1 configuration change |
| `fleet` | types and that no snapshot is ahead of the ledger, `OneProcess`, `LeaseHasRecord`, `OutcomeTrue`, `OutcomeFinal`, `FleetSettles` | 1 task, 1 operator with 2 calls, 2 attempts by policy, stale at once, time to 1, 3 events, 1 fault |
| `supervisor_thinking`, `supervisor_timeout`, `outbox_stalled`, `outbox_recovery`, `fleet_lease` | violations, see below | smallest that show them |

Why the bounds are enough to meet the interesting cases: two scopes give an owner and a
stranger for each record, three incarnations a dead owner, its successor and the successor's
own end, one fault a failure at every write, two a failed roll-back, three events more than the
pending set takes. The run has one task: tasks meet only in the queue file and in the manager's
table, and the theorems, which cover every safety property of the run, are for any number of
them. (Two tasks with two incarnations and one fault were checked apart from the runs, without
events: a million states.) In
the supervisor the wall time exceeds the idle limit, so a tool can outlast the latter, the
debounce exceeds the poll interval as in the code (250 ms and 200 ms), and a channel of two
is filled by the announcements of a turn and one event. In the outbox the queue, the batch
and the fan-out can all be full with four events. In `automation` three ids
give two runs of the schedule and one of a run-now or the trigger, two instants a slot that
passes while its predecessor is unsettled, and the fault comes before, between or after any
two writes. In `governor` one child holds the owner's permit while it waits for the fleet's,
and a third comes past it at the fleet gate; two rate-limited calls pause, one halves. In
`fleet` two calls give a restart of a restart, a stop during a restart, a resume during
either; with `StaleAfter` 0 every lease may be found stale, by a resume that the driver's
heartbeat overtakes; the fault is a crash, a failed append, a torn restart or a failed launch.
The run has one task; the tasks of a run meet only in `MaxWorkers` and in an error that ends a
tick, and the safety theorems are for any number of them. No run uses symmetry. In `supervisor`
a cancellation or a shutdown is asked for at any point, beside a stall and a failed write at any
other; the theorems allow any number of each. In `supervisor_liveness` the failed write
meets every event, every flush and the final write, so a blocked event, its retry and a repeated
final write are among the executions that must end.

### Fairness

* `TaskStore`: a process that ended is started again, an operation that has begun goes on,
  a worker claims, executes and finishes. Workers loop in the code; executions end because
  of `ExecutionGuard`, which `Deadline` and `Finishes` show. That a free worker notices
  queued work rests on `ClaimSchedule`, which is planned. Crashes, faults, requests and
  shutdowns have no fairness.
* `TaskSupervisor`: the worker's future is polled (`SupervisorStep`, `DriverStep`) and time
  passes. Nothing is assumed of the runtime: `RuntimeAnswer` and journal events may never
  come.
* `LifecycleOutbox`: the runtime polls the writer; in `FairSpec` posts end, because each has
  a request timeout and bounded retries. `StalledSpec` drops that.
* `AutomationManager`: a scheduler goes its rounds (`BeginPass` or `SkipPass`) and finishes
  the pass it has begun, a process that ended is started again, a task ends, which is
  `Settles` of `TaskStore`. Edits and faults have no fairness, and neither has the clock: the
  properties are about what is already due.
* `LaunchGovernor`: futures are polled, the probe ticks, a call is answered (each has its
  timeout), a child ends, time passes. Nothing is assumed of what the answers are.
* `FleetManager`: the driver and the operators' calls go on, orphans end by their watch, and
  someone drives the run again after a crash. `Timeout` is strongly fair, because a worker
  that is found running at the check of its limit again and again reaches it; the task must
  have one. The
  exit of a worker has no fairness.

### Violations

Each states a sentence of the repository and shows an execution of the code that breaks it.

* `supervisor_thinking`: the driver counts reasoning deltas as progress, the supervisor does
  not see them as such; a model that reasons longer than the idle limit is ended with "no
  model or tool progress". An approval outside a tool item has the same cause: it refreshes
  the driver's guard only, and the supervisor still ends the task as idle.
* `supervisor_timeout`: an execution that completes within the grace after a timeout is
  recorded as canceled, although nobody canceled it.
* `outbox_stalled`: a flush waits for every post and the writer waits with it, so a stalled
  webhook holds back later appends beyond the flush caller's timeout.
* `fleet_lease`: the driver dies between the registration of a worker's record and the lease
  that goes with it. The next driver closes the record as interrupted and registers the task
  again, with the same generation; the merge of that publication keeps the record that has ended
  (`tools/subagent/mod.rs:14248`) and reports no error, so the lease becomes visible over a
  record it cannot be launched from. The comment in the ledger promises the opposite
  (`ledger.rs:749`): the launch projection is persisted before the lease, and "a failed callback
  leaves the task Enqueued [...] rather than a Running lease that cannot launch". The driver that
  wrote the lease launches it from its memory; what another fault makes of the difference is
  described below.
* `outbox_recovery`: after a write that was cut short the next record
  continues the torn line; that line is then the last complete one, does not parse, and the
  next process drops its batches.

One more observation, without a sentence it contradicts: `execute` waits for a busy
destination thread up to the wall time, but no event is sent meanwhile, so the supervisor's
shorter idle limit ends that wait.

Observations of the same kind in Fleet and the governor:

* A record that waits for proof of the attempt before makes `drive_executor_tick` return an
  error before it polls any worker (`fleet/manager.rs`, the check after the reconciliation),
  so one such task holds up the outcomes of the others. That a record waits is by design; it
  is `Held` in `FleetSettles`, and an operator must move it.
* A resume fixes its instant before it reads the ledger; a heartbeat of a later second has a
  negative age, which `task_is_stale` cannot convert and takes for stale, so a healthy worker
  is replaced. The model has this behaviour, and the properties hold with it.
* `set_max_capacity` sets a throttled gate back to the full configured capacity, also when
  the limits did not change; only a pause is kept.
* Up to one fault `OneProcess` is proved, and the bound matters. With two, TLC finds
  `OneProcess` violated: the driver dies between registering a worker's record and leasing its
  task, and recovery closes the record as interrupted; the next driver launches that same
  generation, but the stored record has ended and is not reopened by it (the skip in the merge
  of a publication, `tools/subagent/mod.rs:14248`); when this driver dies too, the stored record
  does not show that a process was started, so a restart takes the attempt for settled, and the
  next one is launched while the orphan has not yet noticed its parent's death.
* A deletion that is cut short removes receipts and keeps the definition. `SlotOnce` is proved
  for what is on record; that a slot whose receipt was removed in this way has been taken is
  forgotten, and only the definition's next slot, which never goes back behind it, still says so.

## Proofs

The theorems hold for every value of the constants that satisfies the assumptions of the
modules: bounds and thresholds are naturals, capacities positive where the code says so, a
value that stands for nothing (`None`, `NoTask`) is none of the real ones. Three sets are
finite because their elements are counted or listed: the children of `LaunchGovernor`, whose
permits are counted, the operators of `FleetManager`, whose calls are, and the tasks of
`TaskStore`, which the queue file lists; all are processes, files or tasks of a running
program. The set of configurable concurrencies has a greatest element
(`MAX_SUBAGENTS` in the code). Each component has one inductive invariant from which
its other theorems follow; a property that needs more than that has a second one beside it.

* `TaskStoreProofs`: `StoreInvariant` proves `Spec => []StoreInv`. The properties are not
  inductive alone. That a worker owns its record needs that recovery meets only records of
  dead generations, hence `GenerationOrder` (no record is ahead of its scope; a starting
  manager has claimed nothing) and `WorkerShape`; the steps that finish an operation need
  what its first step established, hence `LockHolder`; `AtMostOnce` needs that a queued
  record was never started, hence `StartOrder`; the event count needs `EventBound`.
  `NextCases` splits the next-state relation; effect lemmas say what each group of actions
  does to owners, workers, counts; steps that leave owners and workers alone are handled
  together. `TypeCorrect`, `ExecutedAtMostOnce`, `WorkersOwn`, `RunningAttended`,
  `CancellationWins`, `CanceledBeforeRun`, `EventsAccounted` and `PendingWithOwner` follow.
  `QueueListsOnce` adds the queue file, which other processes rewrite too: it stays a list of
  tasks without duplicates, because a load retains entries of a list that had none and adds only
  tasks that are not in it. What retaining does to a sequence is `RetainedOnce`.
* `SubsequenceProofs` has those facts: every rank up to the number of places is taken
  (`RankOnto`), by the least place that reaches it (`Smallest`); so the places come in their
  order (`PlacesInOrder`) and each once.
* `TaskLifecycleProofs`: from `StoreInv`, `LifeCases` reduces every step to how it changes
  one record's status, cancellation and starts; `OutcomesFinal` (outcomes never change) and
  `StoreImplementsLifecycle` (refinement) follow.
* `TaskSupervisorProofs`: `SupervisorInv` is the types, `EventOrder` and one part per clock.
  None of the deadlines is inductive: a state says only what time it is, so each clock also says
  where the next wake-up lies. The select never sleeps past the wall time or past the interrupt
  and the grace (`WallClock`), so `Deadline` holds whatever comes through the channel. A request
  is seen by the poll after next at the latest, because an iteration that has not seen it began
  before the first of them was due (`CancelClock`). The persist deadline is kept, not
  recomputed, until the write happens, and where there is none yet the loop has not slept since
  the change (`WriteClock`). A refused event always cancels the execution and a heartbeat is
  never refused (`Refusals`), so the retry comes before the next receive and the last drain
  leaves nothing behind. For `IdleHonest` the drain must take what was queued when it began
  (`DrainCount`), and a driver that sleeps beside a running tool has a heartbeat in the channel
  or sleeps no longer than a nap after the last progress (`DriverClock`). All theorems are for
  any limits, including those where one watchdog is much shorter than the other.
* `LaunchGovernorProofs`: `GovernorInv` is `GovernorTypeOK` and `SlotsCounted` together. A
  count alone is not inductive, because a release has to find the next waiter: `SlotsCounted`
  also says that every waiting child is in its gate's queue once, beside nobody but children
  that gave up, and that nobody waits beside a free slot. The heart is
  `wake_locked`: the number of entries it pops is the least one that serves the room there is,
  or the whole queue. That such a number exists is an induction over the length of the queue,
  done by taking the least element of a set of naturals (`LeastNat`), since the induction
  theorems with an operator parameter are not available. `PermitsCounted`, the fairness of
  the queue (`GateIsFair`) and the pause (`PauseHolds`) follow; the last two are about steps.
* `AutomationProofs`: `AutomationInv` is `AutomationTypeOK`, `ReceiptTrue` and
  `OneUnsettled`. What has to be shown is that waiting does not make the holder of
  `dispatch.lock` wrong: only a receipt settles a run, only the holder writes receipts, and a
  deletion spares unsettled runs, so a run it listed or has in hand is still unsettled on disk
  when it comes back; and an end that it read in the task store stays that end unless the
  task is lost. Hence `DispatchOK`, `AnswerTrue` and `HonestRun`. `NoOverlap` is not inductive:
  it follows because a live task of a scheduled run has an unsettled receipt (`ReceiptTrue`)
  and an automation has only one of those. `SlotsRunOnce` has an invariant of its own
  (`SlotInv`): a due slot lies in the past when it is claimed, and the schedule then moves on
  behind it.
* `FleetProofs`: `FleetInv` is `FleetTypeOK`, `LeaseNumbered` (the generations of
  `LeaseHasRecord`) and `OutcomeTrue`. Everybody
  acts on something older than the ledger, so the invariant orders the copies: a snapshot is
  not ahead of the ledger, memory is not ahead of the store, the store's record is of the
  ledger's attempt or, prepared, of the one after it. What is behind is refused, or projected
  without being offered for launch again (`Succeeds`); so a record that offers an attempt
  offers one that has had no process (`LaunchedOnce`), and what a stream retains is of its own
  process (`StreamTrue`). That attempts stay within the bound is a count: each generation after
  the first belongs to a call that has begun, and a call gives up a task with the generation it
  starts (`Accounted`). `StepsOK` has one lemma per action; most reduce to four: only records
  change, only the host, only the ledger within an attempt, only one call. These theorems hold
  for any number of crashes and failed appends.
  The rest of `LeaseHasRecord` is `RecordInv`, also for any number of faults: what a record of the
  lease's generation may be (`Sound`: not one of a finished worker; interrupted only by a
  recovery), and that store and memory agree within a generation but for the record closed before
  its lease (`Agree`). Agreement alone is not inductive: a reconciliation that acts on an old
  reading of the ledger must not end the record of a lease that goes on, so no reading that the
  driver reconciles with has the attempt of such a lease as closed (`Current`). What it then publishes is what the store holds, unless the store keeps a
  closed record (`PublishedAgrees`). `LeasesRecorded` follows.
  `OneProcessUntilTwoFaults` has an invariant of its own beside that one, `SoleInv`. Two live
  processes of a task need an orphan, and an orphan needs a fault. Before any (`Faultless`),
  every live process is tracked by the driver, and the stored and the driver's record tell of it
  (`Guards`): started and not proved gone, or the next attempt waits for that proof. A fault
  leaves at most one process per task that nobody tracks, and its record goes on telling of it:
  recovery marks it interrupted, a restart carries the doubt on to the next generation, and only
  a receipt or the evidence that it ended clears it. So nothing is launched beside it, and no
  receipt is of it (`Sole`). A second fault may lose what the record tells, as seen above, so the
  bound is part of the theorem.
* `LifecycleOutboxProofs`: `OutboxInv` is `OutboxTypeOK`, `FlushBarrier` and `RecordOrder`. The
  events of a process stand in one line: pieces in the file, then the records or the batch in
  delivery (`Underway`), then the queue; every step takes from the front of a part and puts at
  the end of the one before it, or drops a part (`InLine`). A flush keeps its place in that
  line: what it covers was tried, is under way or is ahead of it in the queue, and nothing
  behind it is covered (`FlushQueued`, `FlushTaken`); so when the barrier finds no post under
  way nothing it covers is left. That no accepted event is lost sight of (`NoneLost`) is what a
  new flush starts from. The numbers of records in delivery are the last ones given
  (`Numbered`), and the recovery scan finds the greatest number because the last whole line is
  the last record whenever it parses (`Recovered`). This part is claimed only when there is one
  process (`Alone`), the rest for any number of processes over one file. That sorting a batch
  keeps all events and their order (`EventsSorted`) rests on ranks (`SubsequenceProofs`). A step
  of one process changes the others' part only by the piece it appends (`StepParts`), so each
  action has a lemma about its own process alone.

Only model-checked:

* liveness (`Settles`, `Finishes`, `AppendsGoOn`, `SchedulesServed`, `TriggersFire`,
  `EveryWaitEnds`, `FleetSettles`), because temporal reasoning under fairness and `ENABLED` are
  outside this prover's reach.

`OneProcess` is not claimed beyond one fault; what holds for any number of faults is in
`OutcomeTrue`: no attempt has two processes. Every invariant and action property of the passing
runs is a theorem.

## Not modelled

Texts of any kind (prompts, results, timelines, receipts' wording), artifacts, read-only
listings and their cache, claim schedules (planned), the runtime behind the journal, and the
components `PROJECT.json` lists as not modelled. Clocks are discrete; `Instant` overflow of
a limit (a limit that can never fire) is left out. A write to the task store is atomic, as
`write_atomic` renames a complete file; loss of a renamed file in a power failure is left out.

* Automations: the calendar arithmetic of rules (daylight saving, weekdays), models and
  postures, `expected_revision` and idempotency of the request layer, the quarantine of
  damaged files. Scopes that compete for the dispatch lock are in the model (`Scopes`), the
  run has one.
* Sub-agents: mailbox, delivery, conversations, write claims.
* Fleet: compaction and replay of the ledger file, budgets, the status of the run as a whole
  (`refresh_run_status`), placement over several workers, remote hosts with stops that fail,
  `tick_run` and `cancel_run`, which only tests call, the "busy" answer of an operator who
  meets the driver's lock inside one process, and the conflict of ownership between a live
  process that adopted a run and a driver started again beside it.

Much of the repository is terminal interface, provider clients, configuration, protocol types,
command-line tools and vendored code. These have little state that outlives a call; they are
not modelled, and the share of the workspace that the map names is small for that reason.
