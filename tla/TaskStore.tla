----------------------------- MODULE TaskStore -----------------------------
(***************************************************************************)
(* The durable task store of crates/engine/src/task_manager.rs.            *)
(*                                                                         *)
(* Several processes share one data directory.  Each runs a TaskManager    *)
(* for an execution scope; a scope owner lock admits one live manager per  *)
(* scope, and every start of a manager is a new generation that holds its  *)
(* own lease file until the process ends.  Every operation reloads the     *)
(* directory under task-store.lock, edits the record it is about and       *)
(* writes it back; operations that write several files hold the lock over  *)
(* all the writes, but the process may die, or a write may fail, between   *)
(* any two of them.                                                        *)
(*                                                                         *)
(* A task record keeps what ownership, cancellation and event accounting   *)
(* depend on.  Prompts, timelines, artifacts and summaries are left out.   *)
(* An operation of one write is one step; an operation of several writes   *)
(* is one step per write with `txn` naming the holder of the store lock.   *)
(* A write either happens or fails without effect (write_atomic renames a  *)
(* complete temporary file).                                               *)
(***************************************************************************)
EXTENDS Integers, Sequences, FiniteSets, SequencesExt, Subsequences

CONSTANTS
    Scopes,        \* execution scopes; one process at a time runs each
    Tasks,         \* durable task ids
    Workers,       \* worker slots of a manager
    None,          \* no scope, no task, no worker
    MaxGen,        \* incarnations of each scope's process
    MaxFaults,     \* storage failures in a behaviour
    MaxEvents,     \* execution events per task
    MaxCancels,    \* cancellation requests per task
    PendingCap,    \* TASK_EVENT_CHANNEL_CAPACITY
    ExecOutcomes   \* terminal reasons an execution may report

Reasons == {"completed", "canceled", "cancel_timeout", "shutdown",
            "wall_timeout", "idle_timeout", "failed"}

ASSUME ConstantsAssumption ==
    /\ None \notin Scopes \cup Tasks \cup Workers
    /\ MaxGen \in Nat \ {0}
    /\ MaxFaults \in Nat
    /\ MaxEvents \in Nat
    /\ MaxCancels \in Nat
    /\ PendingCap \in Nat \ {0}
    /\ ExecOutcomes \subseteq Reasons

\* An id is "task_" and sixteen hexadecimal digits (new_task_id).
ASSUME FiniteTasksAssumption == IsFiniteSet(Tasks)

VARIABLES
    rec,            \* tasks/<id>.json, one record per task
    staged,         \* tasks/.<id>.json.pending: its scope, or None
    queueFile,      \* queue.json
    manager,        \* per scope: down, starting, up or stopping
    gen,            \* per scope: generation of the current or last process
    wk,             \* per scope: its workers and the run_task each is in
    pendingEvents,  \* per scope: events accepted and not yet on disk
    runningCancel,  \* per scope: tasks whose cancel token is registered
    txn,            \* the operation that holds task-store.lock
    faults,         \* storage failures so far
    cancels,        \* cancellation requests made per task
    starts,         \* times the executor was first polled, per task
    accepted        \* events the supervisor accepted, per task

durable  == <<rec, staged, queueFile>>
volatile == <<manager, gen, wk, pendingEvents, runningCancel>>
history  == <<faults, cancels, starts, accepted>>
vars     == <<rec, staged, queueFile, manager, gen, wk, pendingEvents,
              runningCancel, txn, faults, cancels, starts, accepted>>

-----------------------------------------------------------------------------
(* Records and their readings. *)

Statuses == {"none", "queued", "running", "completed", "failed", "canceled"}
Terminal == {"completed", "failed", "canceled"}

\* "none": the record file does not exist.  gen = 0: no generation yet.
TaskRecord == [status : Statuses, scope : Scopes \cup {None},
               gen : 0..MaxGen, cancel : BOOLEAN,
               reason : Reasons \cup {"none"}, events : 0..MaxEvents]

NoRecord == [status |-> "none", scope |-> None, gen |-> 0,
             cancel |-> FALSE, reason |-> "none", events |-> 0]

Fresh(s) == [status |-> "queued", scope |-> s, gen |-> 0, cancel |-> FALSE,
             reason |-> "none", events |-> 0]

WithEvents(r, n) == [r EXCEPT !.events = n]

Claimed(r, g) == [r EXCEPT !.status = "running", !.gen = g]

Finished(r, status, reason) ==
    [r EXCEPT !.status = status, !.reason = reason]

Worker == [task : Tasks \cup {None},
           phase : {"idle", "claimed", "executing", "ended"},
           cancel : BOOLEAN, result : Reasons \cup {"none"}]

IdleWorker == [task |-> None, phase |-> "idle", cancel |-> FALSE,
               result |-> "none"]

ClaimedWorker(t) == [task |-> t, phase |-> "claimed", cancel |-> FALSE,
                     result |-> "none"]

Signaled(k) == [k EXCEPT !.cancel = TRUE]

Executing(k) == [k EXCEPT !.phase = "executing"]

Ended(k, canceled, reason) ==
    [k EXCEPT !.phase = "ended", !.cancel = canceled, !.result = reason]

\* The holder of the store lock: its operation, scope, task and worker, and
\* the records a starting manager has still to look at.
Holder(op, s, t, w, todo) ==
    [op |-> op, scope |-> s, task |-> t, worker |-> w, step |-> 1,
     todo |-> todo]

NoTxn == Holder("none", None, None, None, {})

Serving(s) == manager[s] \in {"up", "stopping"}

TaskStatus(reason) ==
    CASE reason = "completed" -> "completed"
      [] reason \in {"canceled", "cancel_timeout", "shutdown"} -> "canceled"
      [] OTHER -> "failed"

\* Mutant: a process that is shutting down counts as dead.
LeaseHeld_ServingOnly(s, g) == manager[s] = "up" /\ gen[s] = g

\* A generation's lease is held by its process for as long as that lives.
LeaseHeld(s, g) == manager[s] # "down" /\ gen[s] = g

\* Mutant: the interrupted task is queued again.
Interrupted_Requeued(r) == [r EXCEPT !.status = "queued", !.gen = 0]

\* "Interrupted by process restart; prior process is not attached".
Interrupted(r) == [r EXCEPT !.status = "failed", !.reason = "failed"]

RequireExecutionOwner(s, t) ==
    /\ rec[t].status = "running"
    /\ rec[t].scope = s
    /\ rec[t].gen = gen[s]

Queued(t) == rec[t].status = "queued"

QueuedTasks == {t \in Tasks : Queued(t)}

\* Mutants: only the file is consulted; a listed task is added once more.
LoadedQueues_FileOnly == {Retained(queueFile, QueuedTasks)}
LoadedQueues_AddsListed ==
    {Retained(queueFile, QueuedTasks) \o order : order \in SetToSeqs(QueuedTasks)}

\* The queue load_state builds: what the file lists and is still queued,
\* then the queued tasks the file does not list, in an order the random ids
\* decide.
LoadedQueues ==
    LET known == Retained(queueFile, QueuedTasks)
        missing == QueuedTasks \ ToSet(known)
    IN  {known \o order : order \in SetToSeqs(missing)}

\* Steps that meet a storage failure: an unreadable store, a failed write,
\* or five seconds without the store lock.
Fault == faults < MaxFaults /\ faults' = faults + 1

\* The last incarnation of a process neither stops nor dies, so that every
\* behaviour ends with its managers running.
MayStop(s) == gen[s] < MaxGen

\* The record every operation of manager s loads: what the file holds and,
\* on top, the events s has accepted for that task.
Loaded(s, t) == WithEvents(rec[t], rec[t].events + pendingEvents[s][t])

\* Mutant: the events just written stay pending.
Persist_KeepsPending(s, t, r) ==
    /\ rec' = [rec EXCEPT ![t] = r]
    /\ pendingEvents' = pendingEvents

\* persist_changed_task_locked: the whole record is written, and the events
\* in it are no longer pending.
Persist(s, t, r) ==
    /\ rec' = [rec EXCEPT ![t] = r]
    /\ pendingEvents' = [pendingEvents EXCEPT ![s][t] = 0]

\* The token registered for task t, shared with the worker running it.
SignalRegistered(s, t) ==
    wk' = [wk EXCEPT ![s] = [w \in Workers |->
              IF wk[s][w].task = t /\ t \in runningCancel[s]
              THEN Signaled(wk[s][w]) ELSE wk[s][w]]]

-----------------------------------------------------------------------------
Init ==
    /\ rec = [t \in Tasks |-> NoRecord]
    /\ staged = [t \in Tasks |-> None]
    /\ queueFile = <<>>
    /\ manager = [s \in Scopes |-> "down"]
    /\ gen = [s \in Scopes |-> 0]
    /\ wk = [s \in Scopes |-> [w \in Workers |-> IdleWorker]]
    /\ pendingEvents = [s \in Scopes |-> [t \in Tasks |-> 0]]
    /\ runningCancel = [s \in Scopes |-> {}]
    /\ txn = NoTxn
    /\ faults = 0
    /\ cancels = [t \in Tasks |-> 0]
    /\ starts = [t \in Tasks |-> 0]
    /\ accepted = [t \in Tasks |-> 0]

-----------------------------------------------------------------------------
(* Starting a manager: new lease, then load, recovery of the executions of  *)
(* dead generations and the queue write under one store lock.               *)

Start(s) ==
    /\ manager[s] = "down"
    /\ gen[s] < MaxGen
    /\ manager' = [manager EXCEPT ![s] = "starting"]
    /\ gen' = [gen EXCEPT ![s] = @ + 1]
    /\ UNCHANGED <<durable, wk, pendingEvents, runningCancel, txn, history>>

StartLoad(s) ==
    /\ manager[s] = "starting"
    /\ txn = NoTxn
    /\ txn' = Holder("start", s, None, None,
                     {t \in Tasks : rec[t].status = "running"})
    /\ UNCHANGED <<durable, volatile, history>>

\* One record of recover_dead_executions_locked: failed when the lease of
\* its generation can be taken, left alone while its owner holds it.
StartRecover(s) ==
    /\ txn.op = "start" /\ txn.scope = s
    /\ \E t \in txn.todo :
          /\ txn' = [txn EXCEPT !.todo = @ \ {t}]
          /\ rec' = IF LeaseHeld(rec[t].scope, rec[t].gen) THEN rec
                    ELSE [rec EXCEPT ![t] = Interrupted(@)]
    /\ UNCHANGED <<staged, queueFile, volatile, history>>

StartReady(s) ==
    /\ txn.op = "start" /\ txn.scope = s
    /\ txn.todo = {}
    /\ queueFile' \in LoadedQueues
    /\ txn' = NoTxn
    /\ manager' = [manager EXCEPT ![s] = "up"]
    /\ UNCHANGED <<rec, staged, gen, wk, pendingEvents, runningCancel, history>>

\* Any failure on the way returns an error, and the process is gone.
StartFails(s) ==
    /\ manager[s] = "starting"
    /\ txn = NoTxn \/ txn.scope = s
    /\ MayStop(s)
    /\ Fault
    /\ manager' = [manager EXCEPT ![s] = "down"]
    /\ txn' = NoTxn
    /\ UNCHANGED <<durable, gen, wk, pendingEvents, runningCancel, cancels,
                   starts, accepted>>

-----------------------------------------------------------------------------
(* Admission: stage the record, list it in the queue, promote it.           *)

AdmitStage(s, t) ==
    /\ manager[s] = "up"
    /\ txn = NoTxn
    /\ rec[t].status = "none"
    /\ staged[t] = None
    /\ staged' = [staged EXCEPT ![t] = s]
    /\ txn' = Holder("admit", s, t, None, {})
    /\ UNCHANGED <<rec, queueFile, volatile, history>>

\* recover_task_admission on a stage that was never promoted; a stage of
\* another scope is refused, and a promoted task is returned as it is.
RecoverStage(s, t) ==
    /\ manager[s] = "up"
    /\ txn = NoTxn
    /\ rec[t].status = "none"
    /\ staged[t] = s
    /\ txn' = Holder("recover", s, t, None, {})
    /\ UNCHANGED <<durable, volatile, history>>

Admitting(s) == txn.op \in {"admit", "recover"} /\ txn.scope = s

AdmitQueue(s) ==
    /\ Admitting(s) /\ txn.step = 1
    /\ \E q \in LoadedQueues :
          queueFile' = IF txn.task \in ToSet(q) THEN q ELSE Append(q, txn.task)
    /\ txn' = [txn EXCEPT !.step = 2]
    /\ UNCHANGED <<rec, staged, volatile, history>>

AdmitPromote(s) ==
    /\ Admitting(s) /\ txn.step = 2
    /\ rec' = [rec EXCEPT ![txn.task] = Fresh(staged[txn.task])]
    /\ staged' = [staged EXCEPT ![txn.task] = None]
    /\ txn' = NoTxn
    /\ UNCHANGED <<queueFile, volatile, history>>

\* The stage is removed, unless it predates this call or removing fails too.
CleanupStage ==
    \/ txn.op = "admit" /\ staged' = [staged EXCEPT ![txn.task] = None]
    \/ staged' = staged

AdmitQueueFails(s) ==
    /\ Admitting(s) /\ txn.step = 1
    /\ Fault
    /\ CleanupStage
    /\ txn' = NoTxn
    /\ UNCHANGED <<rec, queueFile, volatile, cancels, starts, accepted>>

\* The queue is rolled back to the one loaded, or that fails as well.
AdmitPromoteFails(s) ==
    /\ Admitting(s) /\ txn.step = 2
    /\ Fault
    /\ queueFile' \in {Retained(queueFile, Tasks \ {txn.task}), queueFile}
    /\ CleanupStage
    /\ txn' = NoTxn
    /\ UNCHANGED <<rec, volatile, cancels, starts, accepted>>

-----------------------------------------------------------------------------
(* Claiming: the worker takes the first queued task of its own scope off    *)
(* the queue file, then marks the record running under its generation.      *)

Claimable(s, t) == t \in Tasks /\ Queued(t) /\ rec[t].scope = s

Claim(s, w) ==
    /\ manager[s] = "up"
    /\ txn = NoTxn
    /\ wk[s][w].phase = "idle"
    /\ \E q \in LoadedQueues : \E i \in DOMAIN q :
          /\ Claimable(s, q[i])
          /\ \A j \in 1..(i - 1) : ~Claimable(s, q[j])
          /\ queueFile' = Retained(q, Tasks \ {q[i]})
          /\ txn' = Holder("claim", s, q[i], w, {})
    /\ UNCHANGED <<rec, staged, volatile, history>>

ClaimCommit(s, w) ==
    /\ txn.op = "claim" /\ txn.scope = s /\ txn.worker = w
    /\ Persist(s, txn.task, Claimed(Loaded(s, txn.task), gen[s]))
    /\ wk' = [wk EXCEPT ![s][w] = ClaimedWorker(txn.task)]
    /\ runningCancel' = [runningCancel EXCEPT ![s] = @ \cup {txn.task}]
    /\ txn' = NoTxn
    /\ UNCHANGED <<staged, queueFile, manager, gen, history>>

ClaimFails(s, w) ==
    /\ txn.op = "claim" /\ txn.scope = s /\ txn.worker = w
    /\ Fault
    /\ txn' = NoTxn
    /\ UNCHANGED <<durable, volatile, cancels, starts, accepted>>

-----------------------------------------------------------------------------
(* Running a claimed task.                                                  *)

\* The first turn of run_task's loop reads the record without the lock.  A
\* cancellation or a shutdown seen before the executor was polled ends the
\* run there.
RunBegin(s, w) ==
    LET t == wk[s][w].task
        canceled == wk[s][w].cancel \/ rec[t].cancel
                       \/ ~RequireExecutionOwner(s, t)
    IN  /\ wk[s][w].phase = "claimed"
        /\ IF canceled \/ manager[s] = "stopping"
           THEN /\ wk' = [wk EXCEPT ![s][w] =
                             Ended(@, canceled, IF manager[s] = "stopping"
                                                THEN "shutdown" ELSE "canceled")]
                /\ starts' = starts
           ELSE /\ wk' = [wk EXCEPT ![s][w] = Executing(@)]
                /\ starts' = [starts EXCEPT ![t] = @ + 1]
        /\ UNCHANGED <<durable, manager, gen, pendingEvents, runningCancel, txn,
                       faults, cancels, accepted>>

\* observe_task_cancellation on the poll interval.
PollStore(s, w) ==
    LET t == wk[s][w].task
    IN  /\ wk[s][w].phase = "executing" /\ ~wk[s][w].cancel
        /\ rec[t].cancel \/ ~RequireExecutionOwner(s, t)
        /\ wk' = [wk EXCEPT ![s][w] = Signaled(@)]
        /\ UNCHANGED <<durable, manager, gen, pendingEvents, runningCancel, txn,
                       history>>

\* An unreadable record, a refused event or a failed debounced write asks
\* the execution to stop.
StorageTrouble(s, w) ==
    /\ wk[s][w].phase \in {"claimed", "executing"}
    /\ Fault
    /\ wk' = [wk EXCEPT ![s][w] = Signaled(@)]
    /\ UNCHANGED <<durable, manager, gen, pendingEvents, runningCancel, txn,
                   cancels, starts, accepted>>

SeeShutdown(s, w) ==
    /\ wk[s][w].phase = "executing" /\ ~wk[s][w].cancel
    /\ manager[s] = "stopping"
    /\ wk' = [wk EXCEPT ![s][w] = Signaled(@)]
    /\ UNCHANGED <<durable, manager, gen, pendingEvents, runningCancel, txn,
                   history>>

\* Mutant: a full pending set is dropped instead of written.
EventBase_DropsFull(s, t) ==
    [stored |-> rec[t].events,
     waiting |-> IF pendingEvents[s][t] >= PendingCap THEN 0
                 ELSE pendingEvents[s][t]]

\* apply_execution_event.  A full pending set is written before the event
\* is taken; then an urgent event, or one that fills the set, is written at
\* once, any other waits for the debounced flush.  Events queued when the
\* execution ended are still drained.
EventBase(s, t) ==
    IF pendingEvents[s][t] >= PendingCap
    THEN [stored |-> rec[t].events + pendingEvents[s][t], waiting |-> 0]
    ELSE [stored |-> rec[t].events, waiting |-> pendingEvents[s][t]]

ExecutionEvent(s, w) ==
    LET t == wk[s][w].task
    IN  /\ wk[s][w].phase \in {"executing", "ended"}
        /\ txn = NoTxn
        /\ accepted[t] < MaxEvents
        /\ RequireExecutionOwner(s, t)
        /\ accepted' = [accepted EXCEPT ![t] = @ + 1]
        /\ \/ /\ Persist(s, t, WithEvents(rec[t], Loaded(s, t).events + 1))
              /\ UNCHANGED <<wk, faults>>
           \/ /\ EventBase(s, t).waiting + 1 < PendingCap
              /\ rec' = [rec EXCEPT ![t] = WithEvents(@, EventBase(s, t).stored)]
              /\ pendingEvents' = [pendingEvents EXCEPT
                                      ![s][t] = EventBase(s, t).waiting + 1]
              /\ UNCHANGED <<wk, faults>>
           \/ \* the write fails: the event stays pending, not refused
              /\ Fault
              /\ rec' = [rec EXCEPT ![t] = WithEvents(@, EventBase(s, t).stored)]
              /\ pendingEvents' = [pendingEvents EXCEPT
                                      ![s][t] = EventBase(s, t).waiting + 1]
              /\ SignalRegistered(s, t)
        /\ UNCHANGED <<staged, queueFile, manager, gen, runningCancel, txn,
                       cancels, starts>>

FlushTask(s, w) ==
    LET t == wk[s][w].task
    IN  /\ wk[s][w].phase = "executing"
        /\ txn = NoTxn
        /\ pendingEvents[s][t] > 0
        /\ RequireExecutionOwner(s, t)
        /\ Persist(s, t, Loaded(s, t))
        /\ UNCHANGED <<staged, queueFile, manager, gen, wk, runningCancel, txn,
                       history>>

ExecEnd(s, w) ==
    /\ wk[s][w].phase = "executing"
    /\ \E r \in ExecOutcomes :
          wk' = [wk EXCEPT ![s][w] = Ended(@, @.cancel, r)]
    /\ UNCHANGED <<durable, manager, gen, pendingEvents, runningCancel, txn,
                   history>>

\* Mutant: only the local token is asked, not the record.
FinalReason_TokenOnly(s, w) ==
    LET told == IF wk[s][w].cancel /\ wk[s][w].result = "completed"
                THEN "canceled" ELSE wk[s][w].result
    IN  IF manager[s] = "stopping" /\ told \in {"canceled", "failed"}
        THEN "shutdown" ELSE told

\* What finish_task makes of the reported reason.
FinalReason(s, w) ==
    LET t == wk[s][w].task
        told == IF (wk[s][w].cancel \/ rec[t].cancel)
                      /\ TaskStatus(wk[s][w].result) = "completed"
                THEN "canceled" ELSE wk[s][w].result
    IN  IF manager[s] = "stopping" /\ told \in {"canceled", "failed"}
        THEN "shutdown" ELSE told

FinishTask(s, w) ==
    LET t == wk[s][w].task
    IN  /\ wk[s][w].phase = "ended"
        /\ txn = NoTxn
        /\ RequireExecutionOwner(s, t)
        /\ Persist(s, t, Finished(Loaded(s, t), TaskStatus(FinalReason(s, w)),
                                  FinalReason(s, w)))
        /\ wk' = [wk EXCEPT ![s][w] = IdleWorker]
        /\ runningCancel' = [runningCancel EXCEPT ![s] = @ \ {t}]
        /\ UNCHANGED <<staged, queueFile, manager, gen, txn, history>>

\* Mutant: the worker gives up on a terminal write that failed.
FinishFails_GivesUp(s, w) ==
    /\ wk[s][w].phase = "ended"
    /\ txn = NoTxn
    /\ Fault
    /\ runningCancel' = [runningCancel EXCEPT ![s] = @ \ {wk[s][w].task}]
    /\ wk' = [wk EXCEPT ![s][w] = IdleWorker]
    /\ UNCHANGED <<durable, manager, gen, pendingEvents, txn, cancels, starts,
                   accepted>>

\* The terminal write fails and is retried; the token is already unregistered.
FinishFails(s, w) ==
    /\ wk[s][w].phase = "ended"
    /\ txn = NoTxn
    /\ Fault
    /\ runningCancel' = [runningCancel EXCEPT ![s] = @ \ {wk[s][w].task}]
    /\ UNCHANGED <<durable, manager, gen, wk, pendingEvents, txn, cancels,
                   starts, accepted>>

-----------------------------------------------------------------------------
(* Requests any serving manager may make about any task.                    *)

\* Mutant: a finished task is closed again.
CanceledRecord_Finished(r) ==
    IF r.status = "running" THEN [r EXCEPT !.cancel = TRUE]
    ELSE [r EXCEPT !.status = "canceled"]

CanceledRecord(r) ==
    CASE r.status = "queued"  -> [r EXCEPT !.status = "canceled"]
      [] r.status = "running" -> [r EXCEPT !.cancel = TRUE]
      [] OTHER -> r

\* cancel_task_visible_to: the local token first, then the record, then the
\* queue.
CancelTask(s, t) ==
    /\ Serving(s)
    /\ txn = NoTxn
    /\ rec[t].status # "none"
    /\ cancels[t] < MaxCancels
    /\ cancels' = [cancels EXCEPT ![t] = @ + 1]
    /\ IF rec[t].status = "running" THEN SignalRegistered(s, t) ELSE wk' = wk
    /\ \/ /\ Persist(s, t, CanceledRecord(Loaded(s, t)))
          /\ txn' = Holder("cancel", s, None, None, {})
          /\ UNCHANGED faults
       \/ /\ Fault
          /\ UNCHANGED <<rec, pendingEvents, txn>>
    /\ UNCHANGED <<staged, queueFile, manager, gen, runningCancel, starts,
                   accepted>>

CancelQueue(s) ==
    /\ txn.op = "cancel" /\ txn.scope = s
    /\ \/ queueFile' \in LoadedQueues /\ UNCHANGED faults
       \/ Fault /\ UNCHANGED queueFile
    /\ txn' = NoTxn
    /\ UNCHANGED <<rec, staged, volatile, cancels, starts, accepted>>

\* record_tool_metadata rewrites the record as this manager loads it.
RecordMetadata(s, t) ==
    /\ Serving(s)
    /\ txn = NoTxn
    /\ rec[t].status # "none"
    /\ Persist(s, t, Loaded(s, t))
    /\ UNCHANGED <<staged, queueFile, manager, gen, wk, runningCancel, txn,
                   history>>

-----------------------------------------------------------------------------
(* Shutdown, and the death of a process at any point.                       *)

Shutdown(s) ==
    /\ manager[s] = "up"
    /\ MayStop(s)
    /\ manager' = [manager EXCEPT ![s] = "stopping"]
    /\ UNCHANGED <<durable, gen, wk, pendingEvents, runningCancel, txn, history>>

\* shutdown_and_wait: every worker has returned before the process ends.
Exit(s) ==
    /\ manager[s] = "stopping"
    /\ txn.scope # s
    /\ \A w \in Workers : wk[s][w].phase = "idle"
    /\ manager' = [manager EXCEPT ![s] = "down"]
    /\ UNCHANGED <<durable, gen, wk, pendingEvents, runningCancel, txn, history>>

Crash(s) ==
    /\ manager[s] # "down"
    /\ MayStop(s)
    /\ manager' = [manager EXCEPT ![s] = "down"]
    /\ wk' = [wk EXCEPT ![s] = [w \in Workers |-> IdleWorker]]
    /\ pendingEvents' = [pendingEvents EXCEPT ![s] = [t \in Tasks |-> 0]]
    /\ runningCancel' = [runningCancel EXCEPT ![s] = {}]
    /\ txn' = IF txn.scope = s THEN NoTxn ELSE txn
    /\ UNCHANGED <<durable, gen, history>>

-----------------------------------------------------------------------------
WorkerStep(s, w) ==
    \/ Claim(s, w) \/ ClaimCommit(s, w) \/ ClaimFails(s, w)
    \/ RunBegin(s, w) \/ PollStore(s, w) \/ StorageTrouble(s, w)
    \/ SeeShutdown(s, w) \/ ExecutionEvent(s, w) \/ FlushTask(s, w)
    \/ ExecEnd(s, w) \/ FinishTask(s, w) \/ FinishFails(s, w)

RequestStep(s, t) ==
    \/ AdmitStage(s, t) \/ RecoverStage(s, t)
    \/ CancelTask(s, t) \/ RecordMetadata(s, t)

ManagerStep(s) ==
    \/ Start(s) \/ StartLoad(s) \/ StartRecover(s) \/ StartReady(s)
    \/ StartFails(s)
    \/ AdmitQueue(s) \/ AdmitPromote(s)
    \/ AdmitQueueFails(s) \/ AdmitPromoteFails(s)
    \/ CancelQueue(s)
    \/ Shutdown(s) \/ Exit(s) \/ Crash(s)

Next ==
    \E s \in Scopes :
        \/ ManagerStep(s)
        \/ \E w \in Workers : WorkerStep(s, w)
        \/ \E t \in Tasks : RequestStep(s, t)

Spec == Init /\ [][Next]_vars

\* A process that ended is started again, an operation that has begun goes
\* on, a worker keeps trying to claim, run and finish, and an execution ends
\* (ExecutionGuard terminalizes one that does not).
Fairness ==
    \A s \in Scopes :
        /\ WF_vars(Start(s)) /\ WF_vars(StartLoad(s))
        /\ WF_vars(StartRecover(s)) /\ WF_vars(StartReady(s))
        /\ WF_vars(AdmitQueue(s)) /\ WF_vars(AdmitPromote(s))
        /\ WF_vars(CancelQueue(s)) /\ WF_vars(Exit(s))
        /\ \A w \in Workers :
              /\ WF_vars(Claim(s, w)) /\ WF_vars(ClaimCommit(s, w))
              /\ WF_vars(RunBegin(s, w)) /\ WF_vars(ExecEnd(s, w))
              /\ WF_vars(FinishTask(s, w))

FairSpec == Spec /\ Fairness
-----------------------------------------------------------------------------
(* Properties. *)

TxnType ==
    [op : {"none", "start", "admit", "recover", "claim", "cancel"},
     scope : Scopes \cup {None}, task : Tasks \cup {None},
     worker : Workers \cup {None}, step : 1..2, todo : SUBSET Tasks]

\* Everything but the queue file is of its type.
StoreTypeOK ==
    /\ rec \in [Tasks -> TaskRecord]
    /\ staged \in [Tasks -> Scopes \cup {None}]
    /\ manager \in [Scopes -> {"down", "starting", "up", "stopping"}]
    /\ gen \in [Scopes -> 0..MaxGen]
    /\ wk \in [Scopes -> [Workers -> Worker]]
    /\ pendingEvents \in [Scopes -> [Tasks -> 0..MaxEvents]]
    /\ runningCancel \in [Scopes -> SUBSET Tasks]
    /\ txn \in TxnType
    /\ faults \in 0..MaxFaults
    /\ cancels \in [Tasks -> 0..MaxCancels]
    /\ starts \in [Tasks -> Nat]
    /\ accepted \in [Tasks -> 0..MaxEvents]

\* The type invariant: records, workers and the lock holder are well formed,
\* and queue.json lists no task twice, whatever failed or interrupted
\* admission, claim or cancellation rewrote it (load_state, admit_task_record).
TypeOK ==
    /\ StoreTypeOK
    /\ queueFile \in Seq(Tasks)
    /\ IsInjective(queueFile)

\* A task's executor is polled at most once over all processes, crashes,
\* recoveries and repeated admissions: work is never executed twice
\* (claim_next_task, run_task, recover_dead_executions_locked).
AtMostOnce == \A t \in Tasks : starts[t] <= 1

\* A worker that is in run_task owns its record: no other process has
\* failed, requeued or taken over the task it is executing, so its events
\* and its terminal write are never refused as stale
\* (require_execution_owner, recover_dead_executions_locked).
WorkerOwns ==
    \A s \in Scopes, w \in Workers :
        wk[s][w].phase # "idle" => RequireExecutionOwner(s, wk[s][w].task)

\* While a scope's manager serves, each of its running records is attended:
\* it carries the current generation and one of the workers is in run_task
\* for it.  Nothing is left running by a dead generation, a failed claim or
\* a failed terminal write (start_with_executor_and_runtime, run_task).
RunningIsAttended ==
    \A s \in Scopes, t \in Tasks :
        Serving(s) /\ rec[t].status = "running" /\ rec[t].scope = s
            => /\ rec[t].gen = gen[s]
               /\ \E w \in Workers : wk[s][w].task = t

\* A task whose cancellation was recorded never ends as completed, whichever
\* process recorded it and whether or not the owner's poll saw it before the
\* execution returned (cancel_task_visible_to, finish_task).
CancelWins == \A t \in Tasks : rec[t].cancel => rec[t].status # "completed"

\* "Task canceled before execution": a record that cancellation closed while
\* it was queued belongs to a task that was never started.
CanceledUnrun ==
    \A t \in Tasks :
        rec[t].status = "canceled" /\ rec[t].reason = "none" => starts[t] = 0

\* Every accepted event is on disk or pending exactly once while the task
\* runs, and on disk when it was finished by its worker, whatever writes
\* failed and whoever else rewrote the record in between
\* (apply_execution_event, apply_loaded_locked, persist_changed_task_locked).
EventsExactlyOnce ==
    /\ \A s \in Scopes, w \in Workers :
          LET t == wk[s][w].task
          IN  wk[s][w].phase # "idle"
                => rec[t].events + pendingEvents[s][t] = accepted[t]
    /\ \A t \in Tasks :
          rec[t].status \in Terminal /\ rec[t].reason # "failed"
             => rec[t].events = accepted[t]

\* A manager holds pending events only for a record it owns; otherwise
\* apply_loaded_locked would refuse every later operation of that manager.
PendingOwned ==
    \A s \in Scopes, t \in Tasks :
        pendingEvents[s][t] > 0 => RequireExecutionOwner(s, t)

\* A terminal record keeps its status and its reason for ever: no late
\* cancellation, recovery or finish rewrites an outcome already reported.
TerminalFinal ==
    [][\A t \in Tasks : rec[t].status \in Terminal
          => rec'[t].status = rec[t].status /\ rec'[t].reason = rec[t].reason]_vars

\* Every accepted task ends: a queued or running record becomes terminal
\* once the storage failures, crashes and requests of the bound are spent.
Settles ==
    \A t \in Tasks :
        rec[t].status \in {"queued", "running"} ~> rec[t].status \in Terminal
\* The store implements the lifecycle its callers rely on: read through
\* record status, recorded cancellation and executor starts, every step of
\* every process is a step of TaskLifecycle or changes nothing it shows.
Lifecycle == INSTANCE TaskLifecycle
    WITH life <- [t \in Tasks |-> rec[t].status],
         asked <- [t \in Tasks |-> rec[t].cancel],
         started <- starts

ImplementsLifecycle == Lifecycle!LifecycleSpec
-----------------------------------------------------------------------------
(* The inductive invariant of TaskStoreProofs: which worker may hold which *)
(* record, what the holder of the store lock may count on until its last   *)
(* write, and that no record is ahead of its scope's generation.           *)

\* Busy workers hold a task each, no two the same, in a serving manager.
WorkerShape ==
    \A s \in Scopes, w \in Workers :
        /\ wk[s][w].phase = "idle" <=> wk[s][w].task = None
        /\ wk[s][w].phase # "idle" => Serving(s)
        /\ wk[s][w].phase = "ended" => wk[s][w].result \in Reasons
        /\ \A v \in Workers :
              wk[s][w].phase # "idle" /\ wk[s][v].task = wk[s][w].task => v = w

\* A running record names a scope and a generation that scope has reached;
\* a manager that is still starting has claimed nothing.
GenerationOrder ==
    \A t \in Tasks :
        rec[t].status = "running" =>
            /\ rec[t].scope \in Scopes
            /\ rec[t].gen <= gen[rec[t].scope]
            /\ manager[rec[t].scope] = "starting"
                  => rec[t].gen < gen[rec[t].scope]

\* What each holder of the store lock relies on until it lets go.
LockHolder ==
    /\ txn.op = "start" =>
          /\ txn.scope \in Scopes /\ manager[txn.scope] = "starting"
          /\ \A t \in txn.todo : rec[t].status = "running"
          /\ \A t \in Tasks : rec[t].status = "running" /\ rec[t].scope = txn.scope
                => t \in txn.todo
    /\ txn.op \in {"admit", "recover"} =>
          /\ txn.scope \in Scopes /\ Serving(txn.scope) /\ txn.task \in Tasks
          /\ rec[txn.task].status = "none" /\ staged[txn.task] = txn.scope
    /\ txn.op = "claim" =>
          /\ txn.scope \in Scopes /\ Serving(txn.scope)
          /\ txn.task \in Tasks /\ txn.worker \in Workers
          /\ rec[txn.task].status = "queued" /\ rec[txn.task].scope = txn.scope
          /\ wk[txn.scope][txn.worker].phase = "idle"
    /\ txn.op = "none" => txn = NoTxn
    /\ txn.op = "cancel" => txn.scope \in Scopes /\ Serving(txn.scope)

\* A task is started only between its claim and its end.
StartOrder ==
    /\ \A t \in Tasks : /\ starts[t] \in {0, 1}
                        /\ rec[t].status \in {"none", "queued"} => starts[t] = 0
    /\ \A s \in Scopes, w \in Workers :
          /\ wk[s][w].phase = "claimed" => starts[wk[s][w].task] = 0
          /\ wk[s][w].phase = "executing" => starts[wk[s][w].task] = 1
          /\ wk[s][w].phase = "ended" /\ wk[s][w].result = "completed"
                => starts[wk[s][w].task] = 1

\* Only a running record carries a cancellation request, until it ends.
CancelOrder ==
    \A t \in Tasks :
        rec[t].cancel => rec[t].status \in {"running", "failed", "canceled"}

\* No event is counted twice, none is accepted before the claim, and none
\* is pending in a process that does not serve.
EventBound ==
    /\ \A s \in Scopes, t \in Tasks :
          /\ rec[t].events + pendingEvents[s][t] <= accepted[t]
          /\ pendingEvents[s][t] > 0 => Serving(s)
    /\ \A t \in Tasks :
          rec[t].status \in {"none", "queued"} => accepted[t] = 0

\* Everything the proofs rest on holds in every reachable state.
StoreInv ==
    /\ StoreTypeOK
    /\ WorkerShape
    /\ WorkerOwns
    /\ RunningIsAttended
    /\ GenerationOrder
    /\ LockHolder
    /\ StartOrder
    /\ CancelOrder
    /\ CanceledUnrun
    /\ PendingOwned
    /\ EventBound
    /\ EventsExactlyOnce
=============================================================================
