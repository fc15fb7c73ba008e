-------------------------- MODULE TaskStoreProofs --------------------------
(***************************************************************************)
(* Proofs about TaskStore for any scopes, tasks, workers and bounds.       *)
(*                                                                         *)
(* The safety properties are not inductive by themselves; StoreInv of      *)
(* TaskStore is.  Most steps leave the owners of all records and the tasks *)
(* and phases of all workers alone: the lemmas on kept owners and kept     *)
(* workers deal with those at once, and each remaining action has a step   *)
(* of its own.                                                             *)
(***************************************************************************)
EXTENDS TaskStore, SubsequenceProofs, FiniteSetTheorems, SequenceTheorems,
        TLAPS

-----------------------------------------------------------------------------
(* What the edits of records and workers change. *)

\* A record with another event count differs in nothing else.
LEMMA WithEventsKeeps ==
  ASSUME NEW r \in TaskRecord, NEW n \in 0..MaxEvents
  PROVE  /\ WithEvents(r, n) \in TaskRecord
         /\ WithEvents(r, n).status = r.status
         /\ WithEvents(r, n).scope = r.scope
         /\ WithEvents(r, n).gen = r.gen
         /\ WithEvents(r, n).cancel = r.cancel
         /\ WithEvents(r, n).reason = r.reason
         /\ WithEvents(r, n).events = n
BY DEF WithEvents, TaskRecord

\* A claim changes status and generation only.
LEMMA ClaimedKeeps ==
  ASSUME NEW r \in TaskRecord, NEW g \in 0..MaxGen
  PROVE  /\ Claimed(r, g) \in TaskRecord
         /\ Claimed(r, g).status = "running"
         /\ Claimed(r, g).gen = g
         /\ Claimed(r, g).scope = r.scope
         /\ Claimed(r, g).cancel = r.cancel
         /\ Claimed(r, g).reason = r.reason
         /\ Claimed(r, g).events = r.events
BY DEF Claimed, TaskRecord, Statuses

\* A terminal write changes status and reason only.
LEMMA FinishedKeeps ==
  ASSUME NEW r \in TaskRecord, NEW x \in Statuses, NEW y \in Reasons
  PROVE  /\ Finished(r, x, y) \in TaskRecord
         /\ Finished(r, x, y).status = x
         /\ Finished(r, x, y).reason = y
         /\ Finished(r, x, y).scope = r.scope
         /\ Finished(r, x, y).gen = r.gen
         /\ Finished(r, x, y).cancel = r.cancel
         /\ Finished(r, x, y).events = r.events
BY DEF Finished, TaskRecord

\* Recovery changes status and reason only.
LEMMA InterruptedKeeps ==
  ASSUME NEW r \in TaskRecord
  PROVE  /\ Interrupted(r) \in TaskRecord
         /\ Interrupted(r).status = "failed"
         /\ Interrupted(r).reason = "failed"
         /\ Interrupted(r).scope = r.scope
         /\ Interrupted(r).gen = r.gen
         /\ Interrupted(r).cancel = r.cancel
         /\ Interrupted(r).events = r.events
BY DEF Interrupted, TaskRecord, Statuses, Reasons

\* A cancellation closes a queued record, marks a running one and leaves
\* every other as it is.
LEMMA CanceledKeeps ==
  ASSUME NEW r \in TaskRecord
  PROVE  /\ CanceledRecord(r) \in TaskRecord
         /\ CanceledRecord(r).scope = r.scope
         /\ CanceledRecord(r).gen = r.gen
         /\ CanceledRecord(r).reason = r.reason
         /\ CanceledRecord(r).events = r.events
         /\ CanceledRecord(r).status
              = IF r.status = "queued" THEN "canceled" ELSE r.status
         /\ CanceledRecord(r).cancel
              = IF r.status = "running" THEN TRUE ELSE r.cancel
<1>1. CASE r.status = "queued"
  BY <1>1 DEF CanceledRecord, TaskRecord, Statuses
<1>2. CASE r.status = "running"
  BY <1>2 DEF CanceledRecord, TaskRecord, Statuses
<1>3. CASE r.status # "queued" /\ r.status # "running"
  BY <1>3 DEF CanceledRecord, TaskRecord, Statuses
<1> QED BY <1>1, <1>2, <1>3

\* A record just promoted is a queued record.
LEMMA FreshIsRecord ==
  ASSUME NEW s \in Scopes
  PROVE  /\ Fresh(s) \in TaskRecord
         /\ Fresh(s).status = "queued"
         /\ Fresh(s).scope = s
         /\ Fresh(s).cancel = FALSE
         /\ Fresh(s).events = 0
BY ConstantsAssumption DEF Fresh, TaskRecord, Statuses

\* Signalling a worker's token changes neither task, phase nor result.
LEMMA SignalEdit ==
  ASSUME NEW k \in Worker
  PROVE  /\ Signaled(k) \in Worker
         /\ Signaled(k).task = k.task
         /\ Signaled(k).phase = k.phase
         /\ Signaled(k).result = k.result
BY DEF Signaled, Worker

\* Starting and ending an execution change the worker's phase and result.
LEMMA ExecuteEdit ==
  ASSUME NEW k \in Worker
  PROVE  /\ Executing(k) \in Worker
         /\ Executing(k).task = k.task
         /\ Executing(k).phase = "executing"
BY DEF Executing, Worker

LEMMA EndEdit ==
  ASSUME NEW k \in Worker, NEW c \in BOOLEAN, NEW y \in Reasons
  PROVE  /\ Ended(k, c, y) \in Worker
         /\ Ended(k, c, y).task = k.task
         /\ Ended(k, c, y).phase = "ended"
         /\ Ended(k, c, y).result = y
BY DEF Ended, Worker

\* An idle worker and one that has just claimed.
LEMMA NewWorkers ==
  ASSUME NEW t \in Tasks
  PROVE  /\ IdleWorker \in Worker
         /\ IdleWorker.phase = "idle" /\ IdleWorker.task = None
         /\ ClaimedWorker(t) \in Worker
         /\ ClaimedWorker(t).phase = "claimed" /\ ClaimedWorker(t).task = t
BY DEF IdleWorker, ClaimedWorker, Worker

\* Who may hold the store lock.
LEMMA Holders ==
  ASSUME NEW op \in {"none", "start", "admit", "recover", "claim", "cancel"},
         NEW s \in Scopes \cup {None}, NEW t \in Tasks \cup {None},
         NEW w \in Workers \cup {None}, NEW todo \in SUBSET Tasks
  PROVE  /\ Holder(op, s, t, w, todo) \in TxnType
         /\ Holder(op, s, t, w, todo).op = op
         /\ Holder(op, s, t, w, todo).scope = s
         /\ Holder(op, s, t, w, todo).task = t
         /\ Holder(op, s, t, w, todo).worker = w
         /\ Holder(op, s, t, w, todo).todo = todo
BY DEF Holder, TxnType

LEMMA NoHolder ==
  NoTxn \in TxnType /\ NoTxn.op = "none" /\ NoTxn.scope = None
BY Holders DEF NoTxn

\* The transaction's own next step.
LEMMA HolderSteps ==
  ASSUME NEW x \in TxnType, NEW d \in SUBSET Tasks
  PROVE  /\ [x EXCEPT !.step = 2] \in TxnType
         /\ [x EXCEPT !.step = 2].op = x.op
         /\ [x EXCEPT !.step = 2].scope = x.scope
         /\ [x EXCEPT !.step = 2].task = x.task
         /\ [x EXCEPT !.step = 2].worker = x.worker
         /\ [x EXCEPT !.step = 2].todo = x.todo
         /\ [x EXCEPT !.todo = d] \in TxnType
         /\ [x EXCEPT !.todo = d].op = x.op
         /\ [x EXCEPT !.todo = d].scope = x.scope
         /\ [x EXCEPT !.todo = d].task = x.task
         /\ [x EXCEPT !.todo = d].worker = x.worker
         /\ [x EXCEPT !.todo = d].todo = d
BY DEF TxnType

-----------------------------------------------------------------------------
(* What a write to one record, one worker or one token changes. *)

\* Persist replaces one record and clears one pending count.
LEMMA PersistEffect ==
  ASSUME StoreTypeOK, NEW s \in Scopes, NEW t \in Tasks, NEW r \in TaskRecord,
         Persist(s, t, r)
  PROVE  /\ rec' \in [Tasks -> TaskRecord]
         /\ pendingEvents' \in [Scopes -> [Tasks -> 0..MaxEvents]]
         /\ rec'[t] = r
         /\ \A x \in Tasks : x # t => rec'[x] = rec[x]
         /\ pendingEvents'[s][t] = 0
         /\ \A u \in Scopes, x \in Tasks :
               u # s \/ x # t => pendingEvents'[u][x] = pendingEvents[u][x]
BY ConstantsAssumption DEF StoreTypeOK, Persist

\* A single record is replaced.
LEMMA RecordEffect ==
  ASSUME StoreTypeOK, NEW t \in Tasks, NEW r \in TaskRecord,
         rec' = [rec EXCEPT ![t] = r]
  PROVE  /\ rec' \in [Tasks -> TaskRecord]
         /\ rec'[t] = r
         /\ \A x \in Tasks : x # t => rec'[x] = rec[x]
BY DEF StoreTypeOK

\* A single worker is replaced.
LEMMA WorkerEffect ==
  ASSUME StoreTypeOK, NEW s \in Scopes, NEW w \in Workers, NEW k \in Worker,
         wk' = [wk EXCEPT ![s][w] = k]
  PROVE  /\ wk' \in [Scopes -> [Workers -> Worker]]
         /\ wk'[s][w] = k
         /\ \A u \in Scopes, v \in Workers :
               u # s \/ v # w => wk'[u][v] = wk[u][v]
BY DEF StoreTypeOK

\* The tasks, phases and results of all workers stay.
WorkersKept ==
    \A s \in Scopes, w \in Workers :
        /\ wk'[s][w].task = wk[s][w].task
        /\ wk'[s][w].phase = wk[s][w].phase
        /\ wk'[s][w].result = wk[s][w].result

\* The status, scope and generation of all records stay.
OwnersKept ==
    \A t \in Tasks :
        /\ rec'[t].status = rec[t].status
        /\ rec'[t].scope = rec[t].scope
        /\ rec'[t].gen = rec[t].gen

\* Signalling a token, directly or through its registration, keeps workers.
LEMMA SignalKeeps ==
  ASSUME StoreTypeOK, NEW s \in Scopes, NEW w \in Workers,
         wk' = [wk EXCEPT ![s][w] = Signaled(@)]
  PROVE  wk' \in [Scopes -> [Workers -> Worker]] /\ WorkersKept
<1>1. wk[s][w] \in Worker
  BY DEF StoreTypeOK
<1>2. /\ Signaled(wk[s][w]) \in Worker
      /\ Signaled(wk[s][w]).task = wk[s][w].task
      /\ Signaled(wk[s][w]).phase = wk[s][w].phase
      /\ Signaled(wk[s][w]).result = wk[s][w].result
  BY <1>1, SignalEdit
<1> QED BY <1>2, WorkerEffect, ZenonT(30) DEF WorkersKept

LEMMA SignalRegisteredKeeps ==
  ASSUME StoreTypeOK, NEW s \in Scopes, NEW t \in Tasks, SignalRegistered(s, t)
  PROVE  wk' \in [Scopes -> [Workers -> Worker]] /\ WorkersKept
<1>1. \A v \in Workers : /\ wk[s][v] \in Worker
                         /\ Signaled(wk[s][v]) \in Worker
                         /\ Signaled(wk[s][v]).task = wk[s][v].task
                         /\ Signaled(wk[s][v]).phase = wk[s][v].phase
                         /\ Signaled(wk[s][v]).result = wk[s][v].result
  BY SignalEdit DEF StoreTypeOK
<1>2. \A u \in Scopes, v \in Workers :
         wk'[u][v] = IF u = s /\ wk[s][v].task = t /\ t \in runningCancel[s]
                     THEN Signaled(wk[s][v]) ELSE wk[u][v]
  BY DEF SignalRegistered, StoreTypeOK
<1>3. wk' \in [Scopes -> [Workers -> Worker]]
  <2> DEFINE slots == [v \in Workers |->
                         IF wk[s][v].task = t /\ t \in runningCancel[s]
                         THEN Signaled(wk[s][v]) ELSE wk[s][v]]
  <2>1. slots \in [Workers -> Worker]
    BY <1>1
  <2>2. wk' = [wk EXCEPT ![s] = slots]
    BY DEF SignalRegistered
  <2> HIDE DEF slots
  <2> QED BY <2>1, <2>2 DEF StoreTypeOK
<1> QED BY <1>1, <1>2, <1>3 DEF WorkersKept

\* What an operation loads differs from the file in the event count only.
LEMMA LoadedRecord ==
  ASSUME StoreTypeOK, EventBound, NEW s \in Scopes, NEW t \in Tasks
  PROVE  /\ Loaded(s, t) \in TaskRecord
         /\ Loaded(s, t).status = rec[t].status
         /\ Loaded(s, t).scope = rec[t].scope
         /\ Loaded(s, t).gen = rec[t].gen
         /\ Loaded(s, t).cancel = rec[t].cancel
         /\ Loaded(s, t).reason = rec[t].reason
         /\ Loaded(s, t).events = rec[t].events + pendingEvents[s][t]
<1>1. rec[t] \in TaskRecord /\ rec[t].events \in Nat
  BY ConstantsAssumption DEF StoreTypeOK, TaskRecord
<1>2. rec[t].events + pendingEvents[s][t] \in 0..MaxEvents
  BY <1>1, ConstantsAssumption DEF StoreTypeOK, EventBound
<1> QED BY <1>1, <1>2, WithEventsKeeps DEF Loaded

-----------------------------------------------------------------------------
(* Type correctness. *)

\* A worker in run_task has one of the tasks.
LEMMA BusyHasTask ==
  ASSUME StoreTypeOK, WorkerShape, NEW s \in Scopes, NEW w \in Workers,
         wk[s][w].phase # "idle"
  PROVE  wk[s][w].task \in Tasks /\ wk[s][w] \in Worker
BY DEF StoreTypeOK, WorkerShape, Worker

LEMMA TaskStatusType ==
  ASSUME NEW y \in Reasons
  PROVE  /\ TaskStatus(y) \in Terminal
         /\ TaskStatus(y) = "completed" <=> y = "completed"
BY DEF Reasons, TaskStatus, Terminal

\* Whatever the execution reported, the reason written is one of the
\* reasons, and success survives only without a recorded cancellation.
LEMMA FinalReasonType ==
  ASSUME StoreTypeOK, WorkerShape, NEW s \in Scopes, NEW w \in Workers,
         wk[s][w].phase = "ended"
  PROVE  /\ FinalReason(s, w) \in Reasons
         /\ FinalReason(s, w) = "completed" =>
               /\ wk[s][w].result = "completed"
               /\ ~rec[wk[s][w].task].cancel
<1>1. wk[s][w].result \in Reasons
  BY DEF WorkerShape
<1>2. TaskStatus(wk[s][w].result) = "completed" <=> wk[s][w].result = "completed"
  BY <1>1, TaskStatusType
<1> QED BY <1>1, <1>2 DEF FinalReason, Reasons

\* Every step of every process keeps the types.
LEMMA TypeStep ==
  ASSUME StoreInv, Next
  PROVE  StoreTypeOK'
<1> USE ConstantsAssumption DEF durable, volatile, history
<1>1. /\ StoreTypeOK /\ WorkerShape /\ WorkerOwns /\ LockHolder /\ EventBound
      /\ EventsExactlyOnce /\ PendingOwned
  BY DEF StoreInv
<1>2. PICK s \in Scopes : \/ ManagerStep(s)
                          \/ \E w \in Workers : WorkerStep(s, w)
                          \/ \E t \in Tasks : RequestStep(s, t)
  BY DEF Next
<1>3. ASSUME Fault PROVE faults' \in 0..MaxFaults
  BY <1>1, <1>3 DEF Fault, StoreTypeOK
<1>4. ASSUME NEW r \in TaskRecord, NEW t \in Tasks, Persist(s, t, r)
      PROVE  /\ rec' \in [Tasks -> TaskRecord]
             /\ pendingEvents' \in [Scopes -> [Tasks -> 0..MaxEvents]]
  BY <1>1, <1>4, PersistEffect
<1>5. CASE ManagerStep(s)
  <2>1. CASE Start(s)
    BY <1>1, <2>1 DEF Start, StoreTypeOK
  <2>2. CASE StartLoad(s)
    <3>1. txn' \in TxnType
      BY <2>2, Holders DEF StartLoad
    <3> QED BY <1>1, <2>2, <3>1 DEF StartLoad, StoreTypeOK
  <2>3. CASE StartRecover(s)
    <3>1. PICK t \in txn.todo :
             /\ txn' = [txn EXCEPT !.todo = @ \ {t}]
             /\ \/ rec' = rec
                \/ rec' = [rec EXCEPT ![t] = Interrupted(@)]
      BY <2>3 DEF StartRecover
    <3>2. txn \in TxnType /\ txn.todo \in SUBSET Tasks
      BY <1>1 DEF StoreTypeOK, TxnType
    <3>3. txn' \in TxnType
      BY <3>1, <3>2, HolderSteps
    <3>4. rec' \in [Tasks -> TaskRecord]
      <4>1. t \in Tasks /\ rec[t] \in TaskRecord
        BY <1>1, <3>1, <3>2 DEF StoreTypeOK
      <4> QED BY <1>1, <3>1, <4>1, InterruptedKeeps, RecordEffect DEF StoreTypeOK
    <3> QED BY <1>1, <2>3, <3>3, <3>4 DEF StartRecover, StoreTypeOK
  <2>4. CASE StartReady(s)
    BY <1>1, <2>4, NoHolder DEF StartReady, StoreTypeOK
  <2>5. CASE StartFails(s)
    BY <1>1, <1>3, <2>5, NoHolder DEF StartFails, StoreTypeOK
  <2>6. CASE AdmitQueue(s)
    <3>1. txn' \in TxnType
      BY <1>1, <2>6, HolderSteps DEF AdmitQueue, StoreTypeOK
    <3> QED BY <1>1, <2>6, <3>1 DEF AdmitQueue, StoreTypeOK
  <2>7. CASE AdmitPromote(s)
    <3>1. txn.task \in Tasks /\ staged[txn.task] \in Scopes
      BY <1>1, <2>7 DEF AdmitPromote, Admitting, LockHolder
    <3>2. rec' \in [Tasks -> TaskRecord]
      BY <1>1, <2>7, <3>1, FreshIsRecord, RecordEffect DEF AdmitPromote
    <3>3. staged' \in [Tasks -> Scopes \cup {None}]
      BY <1>1, <2>7, <3>1 DEF AdmitPromote, StoreTypeOK
    <3> QED BY <1>1, <2>7, <3>2, <3>3, NoHolder DEF AdmitPromote, StoreTypeOK
  <2>8. ASSUME CleanupStage, Admitting(s)
        PROVE  staged' \in [Tasks -> Scopes \cup {None}]
    BY <1>1, <2>8 DEF CleanupStage, StoreTypeOK
  <2>9. CASE AdmitQueueFails(s)
    BY <1>1, <1>3, <2>8, <2>9, NoHolder DEF AdmitQueueFails, StoreTypeOK
  <2>10. CASE AdmitPromoteFails(s)
    BY <1>1, <1>3, <2>8, <2>10, NoHolder DEF AdmitPromoteFails, StoreTypeOK
  <2>11. CASE CancelQueue(s)
    BY <1>1, <1>3, <2>11, NoHolder DEF CancelQueue, StoreTypeOK
  <2>12. CASE Shutdown(s)
    BY <1>1, <2>12 DEF Shutdown, StoreTypeOK
  <2>13. CASE Exit(s)
    BY <1>1, <2>13 DEF Exit, StoreTypeOK
  <2>14. CASE Crash(s)
    <3>1. wk' \in [Scopes -> [Workers -> Worker]]
      <4>1. IdleWorker \in Worker
        BY DEF IdleWorker, Worker
      <4> QED BY <1>1, <2>14, <4>1 DEF Crash, StoreTypeOK
    <3>2. txn' \in TxnType
      BY <1>1, <2>14, NoHolder DEF Crash, StoreTypeOK
    <3> QED BY <1>1, <2>14, <3>1, <3>2 DEF Crash, StoreTypeOK
  <2> QED BY <1>5, <2>1, <2>2, <2>3, <2>4, <2>5, <2>6, <2>7, <2>9, <2>10,
             <2>11, <2>12, <2>13, <2>14 DEF ManagerStep
<1>6. ASSUME NEW w \in Workers, WorkerStep(s, w)
      PROVE  StoreTypeOK'
  <2> DEFINE t == wk[s][w].task
  <2>1. CASE Claim(s, w)
    <3>1. PICK x \in Tasks : txn' = Holder("claim", s, x, w, {})
      BY <2>1 DEF Claim, Claimable
    <3>2. txn' \in TxnType
      BY <3>1, Holders
    <3> QED BY <1>1, <2>1, <3>2 DEF Claim, StoreTypeOK
  <2>2. CASE ClaimCommit(s, w)
    <3>1. txn.task \in Tasks
      BY <1>1, <2>2 DEF ClaimCommit, LockHolder
    <3>2. Claimed(Loaded(s, txn.task), gen[s]) \in TaskRecord
      BY <1>1, <3>1, LoadedRecord, ClaimedKeeps DEF StoreTypeOK
    <3>3. /\ rec' \in [Tasks -> TaskRecord]
          /\ pendingEvents' \in [Scopes -> [Tasks -> 0..MaxEvents]]
      BY <1>4, <2>2, <3>1, <3>2 DEF ClaimCommit
    <3>4. wk' \in [Scopes -> [Workers -> Worker]]
      BY <1>1, <2>2, <3>1, NewWorkers, WorkerEffect DEF ClaimCommit
    <3> QED BY <1>1, <2>2, <3>1, <3>3, <3>4, NoHolder DEF ClaimCommit, StoreTypeOK
  <2>3. CASE ClaimFails(s, w)
    BY <1>1, <1>3, <2>3, NoHolder DEF ClaimFails, StoreTypeOK
  <2>4. CASE RunBegin(s, w)
    <3>1. t \in Tasks /\ wk[s][w] \in Worker
      BY <1>1, <2>4, BusyHasTask DEF RunBegin
    <3>2. wk' \in [Scopes -> [Workers -> Worker]]
      <4>1. PICK k \in Worker : wk' = [wk EXCEPT ![s][w] = k]
        <5> DEFINE c == wk[s][w].cancel \/ rec[t].cancel
                           \/ ~RequireExecutionOwner(s, t)
                   y == IF manager[s] = "stopping" THEN "shutdown" ELSE "canceled"
        <5>1. c \in BOOLEAN /\ y \in Reasons
          BY DEF Reasons
        <5>2. Ended(wk[s][w], c, y) \in Worker /\ Executing(wk[s][w]) \in Worker
          <6> HIDE DEF c, y
          <6> QED BY <3>1, <5>1, EndEdit, ExecuteEdit
        <5>3. \/ wk' = [wk EXCEPT ![s][w] = Ended(@, c, y)]
              \/ wk' = [wk EXCEPT ![s][w] = Executing(@)]
          BY <2>4 DEF RunBegin
        <5> HIDE DEF c, y
        <5> QED BY <5>2, <5>3
      <4> QED BY <1>1, <4>1, WorkerEffect
    <3>3. starts' \in [Tasks -> Nat]
      <4>1. starts' = starts \/ starts' = [starts EXCEPT ![t] = @ + 1]
        BY <2>4 DEF RunBegin
      <4>2. starts \in [Tasks -> Nat]
        BY <1>1 DEF StoreTypeOK
      <4> HIDE DEF t
      <4> QED BY <3>1, <4>1, <4>2
    <3> QED BY <1>1, <2>4, <3>2, <3>3 DEF RunBegin, StoreTypeOK
  <2>5. CASE PollStore(s, w)
    BY <1>1, <2>5, SignalKeeps DEF PollStore, StoreTypeOK
  <2>6. CASE StorageTrouble(s, w)
    BY <1>1, <1>3, <2>6, SignalKeeps DEF StorageTrouble, StoreTypeOK
  <2>7. CASE SeeShutdown(s, w)
    BY <1>1, <2>7, SignalKeeps DEF SeeShutdown, StoreTypeOK
  <2>8. CASE ExecutionEvent(s, w)
    <3>1. t \in Tasks
      BY <1>1, <2>8, BusyHasTask DEF ExecutionEvent
    <3>2. /\ rec[t] \in TaskRecord /\ rec[t].events \in Nat
          /\ pendingEvents[s][t] \in Nat /\ accepted[t] \in Nat
          /\ rec[t].events + pendingEvents[s][t] <= accepted[t]
          /\ accepted[t] < MaxEvents
      BY <1>1, <2>8, <3>1 DEF ExecutionEvent, StoreTypeOK, TaskRecord, EventBound
    <3>3. /\ EventBase(s, t).stored \in 0..MaxEvents
          /\ EventBase(s, t).waiting + 1 \in 0..MaxEvents
      BY <3>2 DEF EventBase
    <3>4. Loaded(s, t).events + 1 \in 0..MaxEvents
      BY <1>1, <3>1, <3>2, LoadedRecord
    <3>5. /\ WithEvents(rec[t], EventBase(s, t).stored) \in TaskRecord
          /\ WithEvents(rec[t], Loaded(s, t).events + 1) \in TaskRecord
      BY <3>2, <3>3, <3>4, WithEventsKeeps
    <3>6. accepted' \in [Tasks -> 0..MaxEvents]
      BY <1>1, <2>8, <3>1, <3>2 DEF ExecutionEvent, StoreTypeOK
    <3>7. /\ rec' \in [Tasks -> TaskRecord]
          /\ pendingEvents' \in [Scopes -> [Tasks -> 0..MaxEvents]]
          /\ wk' \in [Scopes -> [Workers -> Worker]]
          /\ faults' \in 0..MaxFaults
      <4>1. CASE /\ Persist(s, t, WithEvents(rec[t], Loaded(s, t).events + 1))
                 /\ UNCHANGED <<wk, faults>>
        BY <1>1, <1>4, <3>1, <3>5, <4>1 DEF StoreTypeOK
      <4>2. CASE /\ rec' = [rec EXCEPT ![t] = WithEvents(@, EventBase(s, t).stored)]
                 /\ pendingEvents' = [pendingEvents EXCEPT
                                         ![s][t] = EventBase(s, t).waiting + 1]
                 /\ \/ UNCHANGED <<wk, faults>>
                    \/ Fault /\ SignalRegistered(s, t)
        <5>1. rec' \in [Tasks -> TaskRecord]
          BY <1>1, <3>1, <3>5, <4>2, RecordEffect
        <5>2. pendingEvents' \in [Scopes -> [Tasks -> 0..MaxEvents]]
          <6> DEFINE n == EventBase(s, t).waiting + 1
          <6>1. n \in 0..MaxEvents
            BY <3>3
          <6>2. pendingEvents' = [pendingEvents EXCEPT ![s][t] = n]
            BY <4>2
          <6> HIDE DEF n
          <6> QED BY <1>1, <3>1, <6>1, <6>2 DEF StoreTypeOK
        <5>3. /\ wk' \in [Scopes -> [Workers -> Worker]]
              /\ faults' \in 0..MaxFaults
          BY <1>1, <1>3, <3>1, <4>2, SignalRegisteredKeeps DEF StoreTypeOK
        <5> QED BY <5>1, <5>2, <5>3
      <4> QED BY <2>8, <4>1, <4>2 DEF ExecutionEvent
    <3> QED BY <1>1, <2>8, <3>6, <3>7 DEF ExecutionEvent, StoreTypeOK
  <2>9. CASE FlushTask(s, w)
    <3>1. t \in Tasks
      BY <1>1, <2>9, BusyHasTask DEF FlushTask
    <3> QED BY <1>1, <1>4, <2>9, <3>1, LoadedRecord DEF FlushTask, StoreTypeOK
  <2>10. CASE ExecEnd(s, w)
    <3>1. PICK y \in ExecOutcomes : wk' = [wk EXCEPT ![s][w] = Ended(@, @.cancel, y)]
      BY <2>10 DEF ExecEnd
    <3>2. wk[s][w] \in Worker /\ wk[s][w].cancel \in BOOLEAN /\ y \in Reasons
      BY <1>1 DEF StoreTypeOK, Worker
    <3>3. Ended(wk[s][w], wk[s][w].cancel, y) \in Worker
      BY <3>2, EndEdit
    <3>4. wk' \in [Scopes -> [Workers -> Worker]]
      BY <1>1, <3>1, <3>3, WorkerEffect
    <3> QED BY <1>1, <2>10, <3>4 DEF ExecEnd, StoreTypeOK
  <2>11. CASE FinishTask(s, w)
    <3>1. t \in Tasks
      BY <1>1, <2>11, BusyHasTask DEF FinishTask
    <3>2. FinalReason(s, w) \in Reasons /\ TaskStatus(FinalReason(s, w)) \in Statuses
      BY <1>1, <2>11, FinalReasonType, TaskStatusType
         DEF FinishTask, Terminal, Statuses
    <3>3. Finished(Loaded(s, t), TaskStatus(FinalReason(s, w)), FinalReason(s, w))
             \in TaskRecord
      BY <1>1, <3>1, <3>2, LoadedRecord, FinishedKeeps
    <3>4. /\ rec' \in [Tasks -> TaskRecord]
          /\ pendingEvents' \in [Scopes -> [Tasks -> 0..MaxEvents]]
      BY <1>4, <2>11, <3>1, <3>3 DEF FinishTask
    <3>5. wk' \in [Scopes -> [Workers -> Worker]]
      BY <1>1, <2>11, <3>1, NewWorkers, WorkerEffect DEF FinishTask
    <3> QED BY <1>1, <2>11, <3>4, <3>5 DEF FinishTask, StoreTypeOK
  <2>12. CASE FinishFails(s, w)
    BY <1>1, <1>3, <2>12 DEF FinishFails, StoreTypeOK
  <2> QED BY <1>6, <2>1, <2>2, <2>3, <2>4, <2>5, <2>6, <2>7, <2>8, <2>9,
             <2>10, <2>11, <2>12 DEF WorkerStep
<1>7. ASSUME NEW t \in Tasks, RequestStep(s, t)
      PROVE  StoreTypeOK'
  <2>1. CASE AdmitStage(s, t)
    <3>1. txn' \in TxnType
      BY <2>1, Holders DEF AdmitStage
    <3> QED BY <1>1, <2>1, <3>1 DEF AdmitStage, StoreTypeOK
  <2>2. CASE RecoverStage(s, t)
    <3>1. txn' \in TxnType
      BY <2>2, Holders DEF RecoverStage
    <3> QED BY <1>1, <2>2, <3>1 DEF RecoverStage, StoreTypeOK
  <2>3. CASE CancelTask(s, t)
    <3>1. cancels' \in [Tasks -> 0..MaxCancels]
      BY <1>1, <2>3 DEF CancelTask, StoreTypeOK
    <3>2. wk' \in [Scopes -> [Workers -> Worker]]
      BY <1>1, <2>3, SignalRegisteredKeeps DEF CancelTask, StoreTypeOK
    <3>3. CanceledRecord(Loaded(s, t)) \in TaskRecord
      BY <1>1, LoadedRecord, CanceledKeeps
    <3>4. /\ rec' \in [Tasks -> TaskRecord]
          /\ pendingEvents' \in [Scopes -> [Tasks -> 0..MaxEvents]]
          /\ faults' \in 0..MaxFaults
          /\ txn' \in TxnType
      BY <1>1, <1>3, <1>4, <2>3, <3>3, Holders DEF CancelTask, StoreTypeOK
    <3> QED BY <1>1, <2>3, <3>1, <3>2, <3>4 DEF CancelTask, StoreTypeOK
  <2>4. CASE RecordMetadata(s, t)
    BY <1>1, <1>4, <2>4, LoadedRecord DEF RecordMetadata, StoreTypeOK
  <2> QED BY <1>7, <2>1, <2>2, <2>3, <2>4 DEF RequestStep
<1> QED BY <1>2, <1>5, <1>6, <1>7

-----------------------------------------------------------------------------
(* Ownership: who may be running what. *)

Ownership == WorkerShape /\ WorkerOwns /\ RunningIsAttended /\ GenerationOrder

\* Ownership depends on nothing else.
LEMMA OwnershipKept ==
  ASSUME StoreTypeOK, Ownership, WorkersKept, OwnersKept,
         manager' = manager, gen' = gen
  PROVE  Ownership'
<1>1. WorkerShape'
  BY DEF Ownership, WorkerShape, WorkersKept, Serving
<1>2. WorkerOwns'
  <2>1. SUFFICES ASSUME NEW s \in Scopes, NEW w \in Workers,
                        wk'[s][w].phase # "idle"
                 PROVE  RequireExecutionOwner(s, wk[s][w].task)'
    BY DEF WorkersKept, WorkerOwns, RequireExecutionOwner
  <2>2. wk[s][w].phase # "idle" /\ wk[s][w].task \in Tasks
    BY <2>1, BusyHasTask DEF WorkersKept, Ownership
  <2>3. RequireExecutionOwner(s, wk[s][w].task)
    BY <2>2 DEF Ownership, WorkerOwns
  <2> QED BY <2>1, <2>2, <2>3 DEF OwnersKept, WorkersKept, RequireExecutionOwner
<1>3. RunningIsAttended'
  BY DEF Ownership, RunningIsAttended, WorkersKept, OwnersKept, Serving
<1>4. GenerationOrder'
  BY DEF Ownership, GenerationOrder, OwnersKept
<1> QED BY <1>1, <1>2, <1>3, <1>4 DEF Ownership

\* Rewriting a record with another event count keeps all owners.
LEMMA EventWriteKeeps ==
  ASSUME StoreTypeOK, NEW t \in Tasks, NEW n \in 0..MaxEvents,
         rec' = [rec EXCEPT ![t] = WithEvents(rec[t], n)]
  PROVE  OwnersKept
<1>1. rec[t] \in TaskRecord
  BY DEF StoreTypeOK
<1> QED BY <1>1, WithEventsKeeps, RecordEffect DEF OwnersKept

\* The three outcomes of an execution event.
LEMMA EventEffect ==
  ASSUME StoreInv, NEW s \in Scopes, NEW w \in Workers, ExecutionEvent(s, w)
  PROVE  LET t == wk[s][w].task
         IN  /\ t \in Tasks
             /\ OwnersKept /\ WorkersKept
             /\ \A x \in Tasks : rec'[x].cancel = rec[x].cancel
                                /\ rec'[x].reason = rec[x].reason
             /\ \A u \in Scopes, x \in Tasks :
                   u # s \/ x # t => pendingEvents'[u][x] = pendingEvents[u][x]
             /\ \A x \in Tasks : x # t => /\ rec'[x].events = rec[x].events
                                         /\ accepted'[x] = accepted[x]
             /\ accepted'[t] = accepted[t] + 1
             /\ rec'[t].events \in Nat /\ pendingEvents'[s][t] \in Nat
             /\ rec'[t].events + pendingEvents'[s][t]
                   = rec[t].events + pendingEvents[s][t] + 1
             /\ rec'[t].events >= rec[t].events
<1> DEFINE t == wk[s][w].task
<1>1. StoreTypeOK /\ WorkerShape /\ EventBound
  BY DEF StoreInv
<1>2. t \in Tasks
  BY <1>1, BusyHasTask DEF ExecutionEvent
<1>3. /\ rec[t] \in TaskRecord /\ rec[t].events \in Nat
      /\ pendingEvents[s][t] \in Nat /\ accepted[t] \in Nat
      /\ rec[t].events + pendingEvents[s][t] <= accepted[t]
      /\ accepted[t] < MaxEvents
  BY <1>1, <1>2, ConstantsAssumption
     DEF ExecutionEvent, StoreTypeOK, TaskRecord, EventBound
<1>4. PICK n \in 0..MaxEvents, p \in 0..MaxEvents :
         /\ rec' = [rec EXCEPT ![t] = WithEvents(rec[t], n)]
         /\ pendingEvents' = [pendingEvents EXCEPT ![s][t] = p]
         /\ n + p = rec[t].events + pendingEvents[s][t] + 1
         /\ n >= rec[t].events
         /\ wk' = wk \/ SignalRegistered(s, t)
  <2>1. CASE /\ Persist(s, t, WithEvents(rec[t], Loaded(s, t).events + 1))
             /\ UNCHANGED <<wk, faults>>
    <3>1. Loaded(s, t).events = rec[t].events + pendingEvents[s][t]
      BY <1>1, <1>2, LoadedRecord
    <3> DEFINE n == Loaded(s, t).events + 1
    <3>2. /\ n \in 0..MaxEvents /\ 0 \in 0..MaxEvents
          /\ n + 0 = rec[t].events + pendingEvents[s][t] + 1
          /\ n >= rec[t].events
      <4> HIDE DEF t
      <4> QED BY <1>3, <3>1, ConstantsAssumption
    <3>3. /\ rec' = [rec EXCEPT ![t] = WithEvents(rec[t], n)]
          /\ pendingEvents' = [pendingEvents EXCEPT ![s][t] = 0]
          /\ wk' = wk
      BY <2>1 DEF Persist
    <3> HIDE DEF n, t
    <3> QED BY <3>2, <3>3
  <2>2. CASE /\ rec' = [rec EXCEPT ![t] = WithEvents(@, EventBase(s, t).stored)]
             /\ pendingEvents' = [pendingEvents EXCEPT
                                     ![s][t] = EventBase(s, t).waiting + 1]
             /\ wk' = wk \/ SignalRegistered(s, t)
    <3> HIDE DEF t
    <3>1. /\ EventBase(s, t).stored \in 0..MaxEvents
          /\ EventBase(s, t).waiting + 1 \in 0..MaxEvents
          /\ EventBase(s, t).stored + EventBase(s, t).waiting
                = rec[t].events + pendingEvents[s][t]
          /\ EventBase(s, t).stored >= rec[t].events
          /\ EventBase(s, t).waiting \in Nat
      BY <1>3, ConstantsAssumption DEF EventBase
    <3> DEFINE n == EventBase(s, t).stored
               p == EventBase(s, t).waiting + 1
    <3>2. /\ n \in 0..MaxEvents /\ p \in 0..MaxEvents
          /\ n + p = rec[t].events + pendingEvents[s][t] + 1
          /\ n >= rec[t].events
      BY <1>3, <3>1, ConstantsAssumption
    <3>3. /\ rec' = [rec EXCEPT ![t] = WithEvents(rec[t], n)]
          /\ pendingEvents' = [pendingEvents EXCEPT ![s][t] = p]
          /\ wk' = wk \/ SignalRegistered(s, t)
      BY <2>2
    <3> HIDE DEF n, p
    <3> QED BY <3>2, <3>3
  <2> QED BY <2>1, <2>2 DEF ExecutionEvent
<1> HIDE DEF t
<1>5. OwnersKept
  BY <1>1, <1>2, <1>4, EventWriteKeeps
<1>6. /\ \A x \in Tasks : rec'[x].cancel = rec[x].cancel
                         /\ rec'[x].reason = rec[x].reason
      /\ \A x \in Tasks : x # t => rec'[x].events = rec[x].events
      /\ rec'[t].events = n
  <2>1. /\ WithEvents(rec[t], n) \in TaskRecord
        /\ WithEvents(rec[t], n).cancel = rec[t].cancel
        /\ WithEvents(rec[t], n).reason = rec[t].reason
        /\ WithEvents(rec[t], n).events = n
    BY <1>3, WithEventsKeeps
  <2>2. rec'[t] = WithEvents(rec[t], n) /\ \A x \in Tasks : x # t => rec'[x] = rec[x]
    BY <1>1, <1>2, <1>4, <2>1, RecordEffect
  <2> QED BY <2>1, <2>2
<1>7. WorkersKept
  BY <1>1, <1>2, <1>4, SignalRegisteredKeeps DEF WorkersKept
<1>8. /\ \A u \in Scopes, x \in Tasks :
            u # s \/ x # t => pendingEvents'[u][x] = pendingEvents[u][x]
      /\ pendingEvents'[s][t] = p
  BY <1>1, <1>2, <1>4 DEF StoreTypeOK
<1>9. /\ accepted'[t] = accepted[t] + 1
      /\ \A x \in Tasks : x # t => accepted'[x] = accepted[x]
  BY <1>1, <1>2 DEF ExecutionEvent, StoreTypeOK, t
<1>10. n \in Nat /\ p \in Nat
  BY ConstantsAssumption
<1> QED BY <1>2, <1>4, <1>5, <1>6, <1>7, <1>8, <1>9, <1>10 DEF t

\* Rewriting a record as it was loaded moves its pending events to disk.
LEMMA RewriteEffect ==
  ASSUME StoreTypeOK, EventBound, NEW s \in Scopes, NEW t \in Tasks,
         Persist(s, t, Loaded(s, t))
  PROVE  /\ OwnersKept
         /\ \A x \in Tasks : /\ rec'[x].cancel = rec[x].cancel
                            /\ rec'[x].reason = rec[x].reason
         /\ rec'[t].events = rec[t].events + pendingEvents[s][t]
         /\ pendingEvents'[s][t] = 0
         /\ \A x \in Tasks : x # t => rec'[x].events = rec[x].events
         /\ \A u \in Scopes, x \in Tasks :
               u # s \/ x # t => pendingEvents'[u][x] = pendingEvents[u][x]
<1> DEFINE r == Loaded(s, t)
<1>1. /\ r \in TaskRecord /\ r.status = rec[t].status /\ r.scope = rec[t].scope
      /\ r.gen = rec[t].gen /\ r.cancel = rec[t].cancel /\ r.reason = rec[t].reason
      /\ r.events = rec[t].events + pendingEvents[s][t]
  BY LoadedRecord
<1>2. Persist(s, t, r)
  OBVIOUS
<1> HIDE DEF r
<1>3. /\ rec'[t] = r
      /\ \A x \in Tasks : x # t => rec'[x] = rec[x]
      /\ pendingEvents'[s][t] = 0
      /\ \A u \in Scopes, x \in Tasks :
            u # s \/ x # t => pendingEvents'[u][x] = pendingEvents[u][x]
  BY <1>1, <1>2, PersistEffect
<1> QED BY <1>1, <1>3 DEF OwnersKept

\* A claim makes one queued record the worker's.
LEMMA ClaimEffect ==
  ASSUME StoreInv, NEW s \in Scopes, NEW w \in Workers, ClaimCommit(s, w)
  PROVE  LET t == txn.task
         IN  /\ t \in Tasks /\ Serving(s)
             /\ rec[t].status = "queued" /\ rec[t].scope = s
             /\ wk[s][w].phase = "idle"
             /\ rec'[t].status = "running" /\ rec'[t].scope = s
             /\ rec'[t].gen = gen[s] /\ rec'[t].cancel = rec[t].cancel
             /\ rec'[t].events = rec[t].events + pendingEvents[s][t]
             /\ \A x \in Tasks : x # t => rec'[x] = rec[x]
             /\ pendingEvents'[s][t] = 0
             /\ \A u \in Scopes, x \in Tasks :
                   u # s \/ x # t => pendingEvents'[u][x] = pendingEvents[u][x]
             /\ wk'[s][w].task = t /\ wk'[s][w].phase = "claimed"
             /\ \A u \in Scopes, v \in Workers :
                   u # s \/ v # w => wk'[u][v] = wk[u][v]
<1> DEFINE t == txn.task
<1>1. StoreTypeOK /\ LockHolder /\ EventBound
  BY DEF StoreInv
<1>2. /\ t \in Tasks /\ Serving(s)
      /\ rec[t].status = "queued" /\ rec[t].scope = s
      /\ wk[s][w].phase = "idle" /\ gen[s] \in 0..MaxGen
  BY <1>1 DEF ClaimCommit, LockHolder, StoreTypeOK
<1>3. /\ Persist(s, t, Claimed(Loaded(s, t), gen[s]))
      /\ wk' = [wk EXCEPT ![s][w] = ClaimedWorker(t)]
  BY DEF ClaimCommit
<1> HIDE DEF t
<1>4. /\ Loaded(s, t) \in TaskRecord
      /\ Loaded(s, t).scope = s /\ Loaded(s, t).cancel = rec[t].cancel
      /\ Loaded(s, t).events = rec[t].events + pendingEvents[s][t]
  BY <1>1, <1>2, LoadedRecord
<1>5. /\ Claimed(Loaded(s, t), gen[s]) \in TaskRecord
      /\ Claimed(Loaded(s, t), gen[s]).status = "running"
      /\ Claimed(Loaded(s, t), gen[s]).scope = s
      /\ Claimed(Loaded(s, t), gen[s]).gen = gen[s]
      /\ Claimed(Loaded(s, t), gen[s]).cancel = rec[t].cancel
      /\ Claimed(Loaded(s, t), gen[s]).events = rec[t].events + pendingEvents[s][t]
  BY <1>2, <1>4, ClaimedKeeps
<1>6. /\ rec'[t] = Claimed(Loaded(s, t), gen[s])
      /\ \A x \in Tasks : x # t => rec'[x] = rec[x]
      /\ pendingEvents'[s][t] = 0
      /\ \A u \in Scopes, x \in Tasks :
            u # s \/ x # t => pendingEvents'[u][x] = pendingEvents[u][x]
  BY <1>1, <1>2, <1>3, <1>5, PersistEffect
<1>7. /\ wk'[s][w].task = t /\ wk'[s][w].phase = "claimed"
      /\ \A u \in Scopes, v \in Workers : u # s \/ v # w => wk'[u][v] = wk[u][v]
  <2> DEFINE k == ClaimedWorker(t)
  <2>1. k \in Worker /\ k.task = t /\ k.phase = "claimed"
    BY <1>2, NewWorkers
  <2>2. wk' = [wk EXCEPT ![s][w] = k]
    BY <1>3
  <2> HIDE DEF k
  <2> QED BY <1>1, <2>1, <2>2, WorkerEffect, ZenonT(30)
<1> QED BY <1>2, <1>5, <1>6, <1>7 DEF t

\* A terminal write closes the worker's record and frees the worker.
LEMMA FinishEffect ==
  ASSUME StoreInv, NEW s \in Scopes, NEW w \in Workers, FinishTask(s, w)
  PROVE  LET t == wk[s][w].task
         IN  /\ t \in Tasks /\ wk[s][w].phase = "ended"
             /\ rec[t].status = "running"
             /\ rec'[t].status \in Terminal
             /\ rec'[t].status = "completed" =>
                   wk[s][w].result = "completed" /\ ~rec[t].cancel
             /\ rec'[t].cancel = rec[t].cancel /\ rec'[t].reason \in Reasons
             /\ rec'[t].events = rec[t].events + pendingEvents[s][t]
             /\ \A x \in Tasks : x # t => rec'[x] = rec[x]
             /\ pendingEvents'[s][t] = 0
             /\ \A u \in Scopes, x \in Tasks :
                   u # s \/ x # t => pendingEvents'[u][x] = pendingEvents[u][x]
             /\ wk'[s][w].task = None /\ wk'[s][w].phase = "idle"
             /\ \A u \in Scopes, v \in Workers :
                   u # s \/ v # w => wk'[u][v] = wk[u][v]
<1> DEFINE t == wk[s][w].task
           y == FinalReason(s, w)
<1>1. StoreTypeOK /\ WorkerShape /\ EventBound
  BY DEF StoreInv
<1>2. /\ t \in Tasks /\ wk[s][w].phase = "ended" /\ rec[t].status = "running"
      /\ Persist(s, t, Finished(Loaded(s, t), TaskStatus(y), y))
      /\ wk' = [wk EXCEPT ![s][w] = IdleWorker]
  BY <1>1, BusyHasTask DEF FinishTask, RequireExecutionOwner
<1>3. y \in Reasons /\ (y = "completed" => wk[s][w].result = "completed" /\ ~rec[t].cancel)
  BY <1>1, <1>2, FinalReasonType
<1> HIDE DEF t, y
<1>4. /\ TaskStatus(y) \in Terminal /\ TaskStatus(y) \in Statuses
      /\ TaskStatus(y) = "completed" => y = "completed"
  BY <1>3, TaskStatusType DEF Terminal, Statuses
<1>5. /\ Loaded(s, t) \in TaskRecord /\ Loaded(s, t).cancel = rec[t].cancel
      /\ Loaded(s, t).events = rec[t].events + pendingEvents[s][t]
  BY <1>1, <1>2, LoadedRecord
<1> DEFINE r == Finished(Loaded(s, t), TaskStatus(y), y)
<1>6. /\ r \in TaskRecord /\ r.status = TaskStatus(y) /\ r.reason = y
      /\ r.cancel = rec[t].cancel
      /\ r.events = rec[t].events + pendingEvents[s][t]
  BY <1>3, <1>4, <1>5, FinishedKeeps
<1> HIDE DEF r
<1>7. /\ rec'[t] = r
      /\ \A x \in Tasks : x # t => rec'[x] = rec[x]
      /\ pendingEvents'[s][t] = 0
      /\ \A u \in Scopes, x \in Tasks :
            u # s \/ x # t => pendingEvents'[u][x] = pendingEvents[u][x]
  BY <1>1, <1>2, <1>6, PersistEffect DEF r
<1>8. /\ wk'[s][w].task = None /\ wk'[s][w].phase = "idle"
      /\ \A u \in Scopes, v \in Workers : u # s \/ v # w => wk'[u][v] = wk[u][v]
  <2>1. IdleWorker \in Worker /\ IdleWorker.task = None /\ IdleWorker.phase = "idle"
    BY <1>2, NewWorkers
  <2> QED BY <1>1, <1>2, <2>1, WorkerEffect, ZenonT(30)
<1> QED BY <1>2, <1>3, <1>4, <1>6, <1>7, <1>8 DEF t

\* A cancellation closes a queued record or marks a running one; nothing
\* else in the store changes but event counts, unless the write fails.
LEMMA CancelEffect ==
  ASSUME StoreInv, NEW s \in Scopes, NEW t \in Tasks, CancelTask(s, t)
  PROVE  /\ WorkersKept
         /\ \A x \in Tasks : x # t => rec'[x] = rec[x]
         /\ rec'[t].scope = rec[t].scope /\ rec'[t].gen = rec[t].gen
         /\ rec'[t].reason = rec[t].reason
         /\ \A u \in Scopes, x \in Tasks :
               u # s \/ x # t => pendingEvents'[u][x] = pendingEvents[u][x]
         /\ pendingEvents'[s][t] \in {0, pendingEvents[s][t]}
         /\ rec'[t].events + pendingEvents'[s][t]
               = rec[t].events + pendingEvents[s][t]
         /\ \/ rec'[t].status = rec[t].status /\ rec'[t].cancel = rec[t].cancel
            \/ /\ rec[t].status = "queued" /\ rec'[t].status = "canceled"
               /\ rec'[t].cancel = rec[t].cancel
            \/ /\ rec[t].status = "running" /\ rec'[t].status = "running"
               /\ rec'[t].cancel = TRUE
<1>1. StoreTypeOK /\ EventBound
  BY DEF StoreInv
<1>2. WorkersKept
  BY <1>1, SignalRegisteredKeeps DEF CancelTask, WorkersKept
<1>3. rec[t].events \in Nat /\ pendingEvents[s][t] \in Nat
  BY <1>1, ConstantsAssumption DEF StoreTypeOK, TaskRecord
<1>4. CASE UNCHANGED <<rec, pendingEvents>>
  BY <1>2, <1>4
<1>5. CASE Persist(s, t, CanceledRecord(Loaded(s, t)))
  <2>1. /\ Loaded(s, t) \in TaskRecord
        /\ Loaded(s, t).status = rec[t].status
        /\ Loaded(s, t).scope = rec[t].scope
        /\ Loaded(s, t).gen = rec[t].gen
        /\ Loaded(s, t).cancel = rec[t].cancel
        /\ Loaded(s, t).reason = rec[t].reason
        /\ Loaded(s, t).events = rec[t].events + pendingEvents[s][t]
    BY <1>1, LoadedRecord
  <2> DEFINE r == CanceledRecord(Loaded(s, t))
  <2>2. /\ r \in TaskRecord /\ r.scope = rec[t].scope /\ r.gen = rec[t].gen
        /\ r.reason = rec[t].reason
        /\ r.events = rec[t].events + pendingEvents[s][t]
        /\ r.status = IF rec[t].status = "queued" THEN "canceled" ELSE rec[t].status
        /\ r.cancel = IF rec[t].status = "running" THEN TRUE ELSE rec[t].cancel
    BY <2>1, CanceledKeeps
  <2> HIDE DEF r
  <2>3. /\ rec'[t] = r
        /\ \A x \in Tasks : x # t => rec'[x] = rec[x]
        /\ pendingEvents'[s][t] = 0
        /\ \A u \in Scopes, x \in Tasks :
              u # s \/ x # t => pendingEvents'[u][x] = pendingEvents[u][x]
    BY <1>1, <1>5, <2>2, PersistEffect DEF r
  <2>4. rec'[t].events + pendingEvents'[s][t] = rec[t].events + pendingEvents[s][t]
    BY <1>3, <2>2, <2>3
  <2>5. \/ rec'[t].status = rec[t].status /\ rec'[t].cancel = rec[t].cancel
        \/ /\ rec[t].status = "queued" /\ rec'[t].status = "canceled"
           /\ rec'[t].cancel = rec[t].cancel
        \/ /\ rec[t].status = "running" /\ rec'[t].status = "running"
           /\ rec'[t].cancel = TRUE
    <3>1. CASE rec[t].status = "queued"
      BY <2>2, <2>3, <3>1
    <3>2. CASE rec[t].status = "running"
      BY <2>2, <2>3, <3>2
    <3>3. CASE rec[t].status # "queued" /\ rec[t].status # "running"
      BY <2>2, <2>3, <3>3
    <3> QED BY <3>1, <3>2, <3>3
  <2> QED BY <1>2, <2>2, <2>3, <2>4, <2>5
<1> QED BY <1>4, <1>5 DEF CancelTask

\* Recovery fails one running record whose owner is gone, or none.
LEMMA RecoverEffect ==
  ASSUME StoreInv, NEW s \in Scopes, StartRecover(s)
  PROVE  \E t \in txn.todo :
           /\ t \in Tasks /\ rec[t].status = "running"
           /\ txn'.op = "start" /\ txn'.scope = s /\ txn'.todo = txn.todo \ {t}
           /\ \A x \in Tasks : x # t => rec'[x] = rec[x]
           /\ \/ rec'[t] = rec[t] /\ LeaseHeld(rec[t].scope, rec[t].gen)
              \/ /\ ~LeaseHeld(rec[t].scope, rec[t].gen)
                 /\ rec'[t].status = "failed" /\ rec'[t].reason = "failed"
                 /\ rec'[t].cancel = rec[t].cancel
                 /\ rec'[t].events = rec[t].events
<1>1. StoreTypeOK /\ LockHolder
  BY DEF StoreInv
<1>2. PICK t \in txn.todo :
         /\ txn' = [txn EXCEPT !.todo = @ \ {t}]
         /\ rec' = IF LeaseHeld(rec[t].scope, rec[t].gen) THEN rec
                   ELSE [rec EXCEPT ![t] = Interrupted(@)]
  BY DEF StartRecover
<1>3. /\ txn \in TxnType /\ t \in Tasks /\ rec[t] \in TaskRecord
      /\ txn.todo \ {t} \in SUBSET Tasks /\ txn.op = "start" /\ txn.scope = s
      /\ rec[t].status = "running"
  BY <1>1, <1>2 DEF StoreTypeOK, TxnType, StartRecover, LockHolder
<1>4. txn'.op = "start" /\ txn'.scope = s /\ txn'.todo = txn.todo \ {t}
  BY <1>2, <1>3, HolderSteps
<1>5. CASE LeaseHeld(rec[t].scope, rec[t].gen)
  BY <1>2, <1>3, <1>4, <1>5
<1>6. CASE ~LeaseHeld(rec[t].scope, rec[t].gen)
  <2>1. /\ Interrupted(rec[t]) \in TaskRecord
        /\ Interrupted(rec[t]).status = "failed"
        /\ Interrupted(rec[t]).reason = "failed"
        /\ Interrupted(rec[t]).cancel = rec[t].cancel
        /\ Interrupted(rec[t]).events = rec[t].events
    BY <1>3, InterruptedKeeps
  <2>2. /\ rec'[t] = Interrupted(rec[t])
        /\ \A x \in Tasks : x # t => rec'[x] = rec[x]
    BY <1>1, <1>2, <1>3, <1>6, <2>1, RecordEffect
  <2> QED BY <1>2, <1>3, <1>4, <1>6, <2>1, <2>2
<1> QED BY <1>5, <1>6

\* Promotion turns one missing record into a queued one.
LEMMA PromoteEffect ==
  ASSUME StoreInv, NEW s \in Scopes, AdmitPromote(s)
  PROVE  LET t == txn.task
         IN  /\ t \in Tasks /\ rec[t].status = "none"
             /\ rec'[t].status = "queued" /\ rec'[t].cancel = FALSE
             /\ rec'[t].events = 0
             /\ \A x \in Tasks : x # t => rec'[x] = rec[x]
<1>1. StoreTypeOK /\ LockHolder
  BY DEF StoreInv
<1>2. txn.task \in Tasks /\ rec[txn.task].status = "none" /\ staged[txn.task] \in Scopes
  BY <1>1 DEF AdmitPromote, Admitting, LockHolder
<1> QED BY <1>1, <1>2, FreshIsRecord, RecordEffect DEF AdmitPromote

\* The first turn of run_task: the executor is polled, or the run is over.
LEMMA RunBeginEffect ==
  ASSUME StoreInv, NEW s \in Scopes, NEW w \in Workers, RunBegin(s, w)
  PROVE  LET t == wk[s][w].task
         IN  /\ t \in Tasks /\ wk[s][w].phase = "claimed"
             /\ wk'[s][w].task = t
             /\ \A u \in Scopes, v \in Workers :
                   u # s \/ v # w => wk'[u][v] = wk[u][v]
             /\ \/ /\ wk'[s][w].phase = "executing"
                   /\ starts'[t] = starts[t] + 1
                   /\ \A x \in Tasks : x # t => starts'[x] = starts[x]
                \/ /\ wk'[s][w].phase = "ended"
                   /\ wk'[s][w].result \in {"shutdown", "canceled"}
                   /\ starts' = starts
<1> DEFINE t == wk[s][w].task
           c == wk[s][w].cancel \/ rec[t].cancel \/ ~RequireExecutionOwner(s, t)
           y == IF manager[s] = "stopping" THEN "shutdown" ELSE "canceled"
<1>1. StoreTypeOK /\ WorkerShape
  BY DEF StoreInv
<1>2. t \in Tasks /\ wk[s][w].phase = "claimed" /\ wk[s][w] \in Worker
  BY <1>1, BusyHasTask DEF RunBegin
<1>3. \/ wk' = [wk EXCEPT ![s][w] = Ended(@, c, y)] /\ starts' = starts
      \/ /\ wk' = [wk EXCEPT ![s][w] = Executing(@)]
         /\ starts' = [starts EXCEPT ![t] = @ + 1]
  BY DEF RunBegin
<1>4. c \in BOOLEAN /\ y \in {"shutdown", "canceled"} /\ y \in Reasons
  BY DEF Reasons
<1>5. /\ Ended(wk[s][w], c, y) \in Worker
      /\ Ended(wk[s][w], c, y).task = t
      /\ Ended(wk[s][w], c, y).phase = "ended"
      /\ Ended(wk[s][w], c, y).result = y
  <2> HIDE DEF c, y
  <2> QED BY <1>2, <1>4, EndEdit
<1>6. /\ Executing(wk[s][w]) \in Worker
      /\ Executing(wk[s][w]).task = t
      /\ Executing(wk[s][w]).phase = "executing"
  BY <1>2, ExecuteEdit
<1>7. starts \in [Tasks -> Nat]
  BY <1>1 DEF StoreTypeOK
<1> HIDE DEF t, c, y
<1>8. CASE wk' = [wk EXCEPT ![s][w] = Ended(@, c, y)] /\ starts' = starts
  <2>1. /\ wk'[s][w] = Ended(wk[s][w], c, y)
        /\ \A u \in Scopes, v \in Workers : u # s \/ v # w => wk'[u][v] = wk[u][v]
    <3> DEFINE k == Ended(wk[s][w], c, y)
    <3>1. k \in Worker /\ wk' = [wk EXCEPT ![s][w] = k]
      BY <1>5, <1>8
    <3> HIDE DEF k
    <3>2. /\ wk'[s][w] = k
          /\ \A u \in Scopes, v \in Workers : u # s \/ v # w => wk'[u][v] = wk[u][v]
      BY <1>1, <3>1, WorkerEffect, ZenonT(30)
    <3> QED BY <3>2 DEF k
  <2> QED BY <1>2, <1>4, <1>5, <1>8, <2>1 DEF t
<1>9. CASE /\ wk' = [wk EXCEPT ![s][w] = Executing(@)]
           /\ starts' = [starts EXCEPT ![t] = @ + 1]
  <2>1. /\ wk'[s][w] = Executing(wk[s][w])
        /\ \A u \in Scopes, v \in Workers : u # s \/ v # w => wk'[u][v] = wk[u][v]
    BY <1>1, <1>6, <1>9, WorkerEffect, ZenonT(30)
  <2>2. /\ starts'[t] = starts[t] + 1
        /\ \A x \in Tasks : x # t => starts'[x] = starts[x]
    BY <1>2, <1>7, <1>9
  <2> QED BY <1>2, <1>6, <2>1, <2>2 DEF t
<1> QED BY <1>3, <1>8, <1>9

\* The execution reports a reason.
LEMMA ExecEndEffect ==
  ASSUME StoreInv, NEW s \in Scopes, NEW w \in Workers, ExecEnd(s, w)
  PROVE  /\ wk[s][w].phase = "executing"
         /\ wk'[s][w].task = wk[s][w].task /\ wk'[s][w].phase = "ended"
         /\ wk'[s][w].result \in Reasons
         /\ \A u \in Scopes, v \in Workers :
               u # s \/ v # w => wk'[u][v] = wk[u][v]
<1>1. StoreTypeOK
  BY DEF StoreInv
<1>2. PICK y \in ExecOutcomes : wk' = [wk EXCEPT ![s][w] = Ended(@, @.cancel, y)]
  BY DEF ExecEnd
<1>3. wk[s][w] \in Worker /\ wk[s][w].cancel \in BOOLEAN /\ y \in Reasons
  BY <1>1, ConstantsAssumption DEF StoreTypeOK, Worker
<1>4. /\ Ended(wk[s][w], wk[s][w].cancel, y) \in Worker
      /\ Ended(wk[s][w], wk[s][w].cancel, y).task = wk[s][w].task
      /\ Ended(wk[s][w], wk[s][w].cancel, y).phase = "ended"
      /\ Ended(wk[s][w], wk[s][w].cancel, y).result = y
  BY <1>3, EndEdit
<1>5. /\ wk'[s][w] = Ended(wk[s][w], wk[s][w].cancel, y)
      /\ \A u \in Scopes, v \in Workers : u # s \/ v # w => wk'[u][v] = wk[u][v]
  BY <1>1, <1>2, <1>4, WorkerEffect, ZenonT(30)
<1> QED BY <1>3, <1>4, <1>5 DEF ExecEnd

-----------------------------------------------------------------------------
(* The steps that matter to the invariant. *)

\* Tokens, files and the store lock may change, nothing else.
Quiet ==
    /\ WorkersKept
    /\ UNCHANGED <<rec, manager, gen, pendingEvents, starts, accepted>>

\* The steps that are not quiet.
LEMMA NextCases ==
  ASSUME StoreInv, Next
  PROVE  \E s \in Scopes :
            \/ Quiet
            \/ Start(s) \/ StartRecover(s) \/ StartReady(s) \/ StartFails(s)
            \/ AdmitPromote(s) \/ Shutdown(s) \/ Exit(s) \/ Crash(s)
            \/ \E w \in Workers :
                  \/ ClaimCommit(s, w) \/ RunBegin(s, w) \/ ExecutionEvent(s, w)
                  \/ FlushTask(s, w) \/ ExecEnd(s, w) \/ FinishTask(s, w)
            \/ \E t \in Tasks : CancelTask(s, t) \/ RecordMetadata(s, t)
<1> USE DEF durable, volatile, history
<1>1. StoreTypeOK
  BY DEF StoreInv
<1>2. ASSUME wk' = wk PROVE WorkersKept
  BY <1>2 DEF WorkersKept
<1>3. ASSUME NEW s \in Scopes, ManagerStep(s)
      PROVE  \/ Quiet
             \/ Start(s) \/ StartRecover(s) \/ StartReady(s) \/ StartFails(s)
             \/ AdmitPromote(s) \/ Shutdown(s) \/ Exit(s) \/ Crash(s)
  <2>1. CASE StartLoad(s)
    BY <1>2, <2>1 DEF StartLoad, Quiet
  <2>2. CASE AdmitQueue(s)
    BY <1>2, <2>2 DEF AdmitQueue, Quiet
  <2>3. CASE AdmitQueueFails(s)
    BY <1>2, <2>3 DEF AdmitQueueFails, Quiet
  <2>4. CASE AdmitPromoteFails(s)
    BY <1>2, <2>4 DEF AdmitPromoteFails, Quiet
  <2>5. CASE CancelQueue(s)
    BY <1>2, <2>5 DEF CancelQueue, Quiet
  <2> QED BY <1>3, <2>1, <2>2, <2>3, <2>4, <2>5 DEF ManagerStep
<1>4. ASSUME NEW s \in Scopes, NEW w \in Workers, WorkerStep(s, w)
      PROVE  \/ Quiet
             \/ ClaimCommit(s, w) \/ RunBegin(s, w) \/ ExecutionEvent(s, w)
             \/ FlushTask(s, w) \/ ExecEnd(s, w) \/ FinishTask(s, w)
  <2>1. CASE Claim(s, w)
    BY <1>2, <2>1 DEF Claim, Quiet
  <2>2. CASE ClaimFails(s, w)
    BY <1>2, <2>2 DEF ClaimFails, Quiet
  <2>3. CASE PollStore(s, w)
    BY <1>1, <2>3, SignalKeeps DEF PollStore, Quiet
  <2>4. CASE StorageTrouble(s, w)
    BY <1>1, <2>4, SignalKeeps DEF StorageTrouble, Quiet
  <2>5. CASE SeeShutdown(s, w)
    BY <1>1, <2>5, SignalKeeps DEF SeeShutdown, Quiet
  <2>6. CASE FinishFails(s, w)
    BY <1>2, <2>6 DEF FinishFails, Quiet
  <2> QED BY <1>4, <2>1, <2>2, <2>3, <2>4, <2>5, <2>6 DEF WorkerStep
<1>5. ASSUME NEW s \in Scopes, NEW t \in Tasks, RequestStep(s, t)
      PROVE  Quiet \/ CancelTask(s, t) \/ RecordMetadata(s, t)
  <2>1. CASE AdmitStage(s, t)
    BY <1>2, <2>1 DEF AdmitStage, Quiet
  <2>2. CASE RecoverStage(s, t)
    BY <1>2, <2>2 DEF RecoverStage, Quiet
  <2> QED BY <1>5, <2>1, <2>2 DEF RequestStep
<1> QED BY <1>3, <1>4, <1>5 DEF Next

\* No step takes a task away from a live owner or leaves one unattended.
LEMMA OwnershipStep ==
  ASSUME StoreInv, Next
  PROVE  Ownership'
<1> USE DEF durable, volatile, history
<1>1. StoreTypeOK /\ Ownership /\ LockHolder /\ EventBound
  BY DEF StoreInv, Ownership
<1>2. ASSUME rec' = rec PROVE OwnersKept
  BY <1>2 DEF OwnersKept
<1>3. ASSUME wk' = wk PROVE WorkersKept
  BY <1>3 DEF WorkersKept
<1>4. CASE Quiet
  BY <1>1, <1>2, <1>4, OwnershipKept DEF Quiet
<1>5. ASSUME NEW s \in Scopes, Start(s) PROVE Ownership'
  <2>1. /\ manager[s] = "down" /\ manager'[s] = "starting" /\ gen'[s] = gen[s] + 1
        /\ \A u \in Scopes : u # s => manager'[u] = manager[u] /\ gen'[u] = gen[u]
        /\ rec' = rec /\ wk' = wk /\ gen[s] \in Nat
    BY <1>1, <1>5, ConstantsAssumption DEF Start, StoreTypeOK
  <2>2. \A w \in Workers : wk[s][w].phase = "idle"
    BY <1>1, <2>1 DEF Ownership, WorkerShape, Serving
  <2>3. WorkerShape'
    BY <1>1, <2>1, <2>2 DEF Ownership, WorkerShape, Serving
  <2>4. WorkerOwns'
    BY <1>1, <2>1, <2>2 DEF Ownership, WorkerOwns, RequireExecutionOwner
  <2>5. RunningIsAttended'
    BY <1>1, <2>1 DEF Ownership, RunningIsAttended, Serving
  <2>6. GenerationOrder'
    <3>1. \A t \in Tasks : rec[t].gen \in Nat
      BY <1>1, ConstantsAssumption DEF StoreTypeOK, TaskRecord
    <3> QED BY <1>1, <2>1, <3>1 DEF Ownership, GenerationOrder
  <2> QED BY <2>3, <2>4, <2>5, <2>6 DEF Ownership
<1>6. ASSUME NEW s \in Scopes, StartRecover(s) PROVE Ownership'
  <2>1. PICK t \in txn.todo :
           /\ t \in Tasks /\ rec[t].status = "running"
           /\ \A x \in Tasks : x # t => rec'[x] = rec[x]
           /\ \/ rec'[t] = rec[t] /\ LeaseHeld(rec[t].scope, rec[t].gen)
              \/ ~LeaseHeld(rec[t].scope, rec[t].gen) /\ rec'[t].status = "failed"
    BY <1>6, RecoverEffect
  <2>2. wk' = wk /\ manager' = manager /\ gen' = gen
    BY <1>6 DEF StartRecover
  <2>3. WorkerShape'
    BY <1>1, <2>2 DEF Ownership, WorkerShape, Serving
  <2>4. WorkerOwns'
    <3>1. SUFFICES ASSUME NEW u \in Scopes, NEW v \in Workers, wk[u][v].phase # "idle"
                   PROVE  RequireExecutionOwner(u, wk[u][v].task)'
      BY <2>2 DEF WorkerOwns, RequireExecutionOwner
    <3>2. /\ RequireExecutionOwner(u, wk[u][v].task) /\ Serving(u)
          /\ wk[u][v].task \in Tasks
      BY <1>1, <3>1, BusyHasTask DEF Ownership, WorkerOwns, WorkerShape
    <3>3. rec'[wk[u][v].task] = rec[wk[u][v].task]
      BY <2>1, <3>2 DEF RequireExecutionOwner, LeaseHeld, Serving
    <3> QED BY <2>2, <3>2, <3>3 DEF RequireExecutionOwner
  <2>5. \A x \in Tasks : rec'[x].status = "running" => rec'[x] = rec[x]
    BY <2>1
  <2>6. RunningIsAttended'
    BY <1>1, <2>2, <2>5 DEF Ownership, RunningIsAttended, Serving
  <2>7. GenerationOrder'
    BY <1>1, <2>2, <2>5 DEF Ownership, GenerationOrder
  <2> QED BY <2>3, <2>4, <2>6, <2>7 DEF Ownership
<1>7. ASSUME NEW s \in Scopes, StartReady(s) PROVE Ownership'
  <2>1. /\ manager[s] = "starting" /\ manager'[s] = "up"
        /\ \A u \in Scopes : u # s => manager'[u] = manager[u]
        /\ rec' = rec /\ wk' = wk /\ gen' = gen
    BY <1>1, <1>7 DEF StartReady, StoreTypeOK, LockHolder
  <2>2. \A t \in Tasks : rec[t].status = "running" => rec[t].scope # s
    BY <1>1, <1>7 DEF StartReady, LockHolder
  <2>3. WorkerShape'
    BY <1>1, <2>1 DEF Ownership, WorkerShape, Serving
  <2>4. WorkerOwns'
    BY <1>1, <2>1 DEF Ownership, WorkerOwns, RequireExecutionOwner
  <2>5. RunningIsAttended'
    BY <1>1, <2>1, <2>2 DEF Ownership, RunningIsAttended, Serving
  <2>6. GenerationOrder'
    BY <1>1, <2>1, <2>2 DEF Ownership, GenerationOrder
  <2> QED BY <2>3, <2>4, <2>5, <2>6 DEF Ownership
<1>8. ASSUME NEW s \in Scopes, StartFails(s) \/ Shutdown(s) \/ Exit(s)
      PROVE  Ownership'
  <2>1. /\ \A u \in Scopes : u # s => manager'[u] = manager[u]
        /\ rec' = rec /\ wk' = wk /\ gen' = gen
        /\ \/ manager[s] = "up" /\ manager'[s] = "stopping"
           \/ /\ manager'[s] = "down"
              /\ \A w \in Workers : wk[s][w].phase = "idle"
    BY <1>1, <1>8 DEF StartFails, Shutdown, Exit, StoreTypeOK, Ownership,
                      WorkerShape, Serving
  <2>2. WorkerShape'
    BY <1>1, <2>1 DEF Ownership, WorkerShape, Serving
  <2>3. WorkerOwns'
    BY <1>1, <2>1 DEF Ownership, WorkerOwns, RequireExecutionOwner
  <2>4. RunningIsAttended'
    BY <1>1, <2>1 DEF Ownership, RunningIsAttended, Serving
  <2>5. GenerationOrder'
    BY <1>1, <2>1 DEF Ownership, GenerationOrder
  <2> QED BY <2>2, <2>3, <2>4, <2>5 DEF Ownership
<1>9. ASSUME NEW s \in Scopes, Crash(s) PROVE Ownership'
  <2>1. /\ manager'[s] = "down"
        /\ \A u \in Scopes : u # s => manager'[u] = manager[u] /\ wk'[u] = wk[u]
        /\ rec' = rec /\ gen' = gen
        /\ \A w \in Workers : wk'[s][w].phase = "idle" /\ wk'[s][w].task = None
    BY <1>1, <1>9 DEF Crash, StoreTypeOK, IdleWorker
  <2>2. WorkerShape'
    BY <1>1, <2>1 DEF Ownership, WorkerShape, Serving
  <2>3. WorkerOwns'
    BY <1>1, <2>1 DEF Ownership, WorkerOwns, RequireExecutionOwner
  <2>4. RunningIsAttended'
    BY <1>1, <2>1 DEF Ownership, RunningIsAttended, Serving
  <2>5. GenerationOrder'
    BY <1>1, <2>1 DEF Ownership, GenerationOrder
  <2> QED BY <2>2, <2>3, <2>4, <2>5 DEF Ownership
<1>10. ASSUME NEW s \in Scopes, AdmitPromote(s) PROVE Ownership'
  <2>1. /\ txn.task \in Tasks /\ rec[txn.task].status = "none"
        /\ rec'[txn.task].status = "queued"
        /\ \A x \in Tasks : x # txn.task => rec'[x] = rec[x]
    BY <1>10, PromoteEffect
  <2>2. manager' = manager /\ gen' = gen /\ wk' = wk
    BY <1>10 DEF AdmitPromote
  <2>3. WorkerShape'
    BY <1>1, <2>2 DEF Ownership, WorkerShape, Serving
  <2>4. WorkerOwns'
    BY <1>1, <2>1, <2>2, BusyHasTask DEF Ownership, WorkerOwns, RequireExecutionOwner
  <2>5. RunningIsAttended'
    BY <1>1, <2>1, <2>2 DEF Ownership, RunningIsAttended, Serving
  <2>6. GenerationOrder'
    BY <1>1, <2>1, <2>2 DEF Ownership, GenerationOrder
  <2> QED BY <2>3, <2>4, <2>5, <2>6 DEF Ownership
<1>11. ASSUME NEW s \in Scopes, NEW w \in Workers, ClaimCommit(s, w)
       PROVE  Ownership'
  <2> DEFINE t == txn.task
  <2>1. /\ t \in Tasks /\ Serving(s)
        /\ rec[t].status = "queued" /\ rec[t].scope = s
        /\ wk[s][w].phase = "idle"
        /\ rec'[t].status = "running" /\ rec'[t].scope = s /\ rec'[t].gen = gen[s]
        /\ \A x \in Tasks : x # t => rec'[x] = rec[x]
        /\ wk'[s][w].task = t /\ wk'[s][w].phase = "claimed"
        /\ \A u \in Scopes, v \in Workers : u # s \/ v # w => wk'[u][v] = wk[u][v]
    BY <1>11, ClaimEffect
  <2>2. manager' = manager /\ gen' = gen /\ gen[s] \in Nat
    BY <1>1, <1>11, ConstantsAssumption DEF ClaimCommit, StoreTypeOK
  <2> HIDE DEF t
  <2>3. \A u \in Scopes, v \in Workers : wk[u][v].task # t
    BY <1>1, <2>1, ConstantsAssumption
       DEF Ownership, WorkerShape, WorkerOwns, RequireExecutionOwner
  <2>4. WorkerShape'
    BY <1>1, <2>1, <2>2, <2>3, ConstantsAssumption DEF Ownership, WorkerShape, Serving
  <2>5. WorkerOwns'
    BY <1>1, <2>1, <2>2, <2>3, BusyHasTask
       DEF Ownership, WorkerOwns, RequireExecutionOwner
  <2>6. RunningIsAttended'
    <3>1. SUFFICES ASSUME NEW u \in Scopes, NEW x \in Tasks, Serving(u),
                          rec'[x].status = "running", rec'[x].scope = u
                   PROVE  rec'[x].gen = gen[u] /\ \E v \in Workers : wk'[u][v].task = x
      BY <2>2 DEF RunningIsAttended, Serving
    <3>2. CASE x = t
      BY <2>1, <3>1, <3>2
    <3>3. CASE x # t
      <4>1. rec[x].gen = gen[u] /\ \E v \in Workers : wk[u][v].task = x
        BY <1>1, <2>1, <3>1, <3>3 DEF Ownership, RunningIsAttended
      <4>2. wk[s][w].task = None
        BY <1>1, <2>1 DEF Ownership, WorkerShape
      <4> QED BY <2>1, <3>3, <4>1, <4>2, ConstantsAssumption
    <3> QED BY <3>2, <3>3
  <2>7. GenerationOrder'
    BY <1>1, <2>1, <2>2 DEF Ownership, GenerationOrder, Serving
  <2> QED BY <2>4, <2>5, <2>6, <2>7 DEF Ownership
<1>12. ASSUME NEW s \in Scopes, NEW w \in Workers, RunBegin(s, w) \/ ExecEnd(s, w)
       PROVE  Ownership'
  <2>1. /\ wk[s][w].phase # "idle"
        /\ wk'[s][w].task = wk[s][w].task /\ wk'[s][w].phase # "idle"
        /\ wk'[s][w].phase = "ended" => wk'[s][w].result \in Reasons
        /\ \A u \in Scopes, v \in Workers : u # s \/ v # w => wk'[u][v] = wk[u][v]
    BY <1>12, RunBeginEffect, ExecEndEffect DEF Reasons
  <2>2. manager' = manager /\ gen' = gen /\ rec' = rec
    BY <1>12 DEF RunBegin, ExecEnd
  <2>3. \A u \in Scopes, v \in Workers :
           /\ wk'[u][v].task = wk[u][v].task
           /\ wk'[u][v].phase # "idle" <=> wk[u][v].phase # "idle"
           /\ wk'[u][v].phase = "ended" => wk'[u][v].result \in Reasons
    BY <1>1, <2>1 DEF Ownership, WorkerShape
  <2>4. WorkerShape'
    BY <1>1, <2>2, <2>3 DEF Ownership, WorkerShape, Serving
  <2>5. WorkerOwns'
    BY <1>1, <2>2, <2>3 DEF Ownership, WorkerOwns, RequireExecutionOwner
  <2>6. RunningIsAttended'
    BY <1>1, <2>2, <2>3 DEF Ownership, RunningIsAttended, Serving
  <2>7. GenerationOrder'
    BY <1>1, <2>2 DEF Ownership, GenerationOrder
  <2> QED BY <2>4, <2>5, <2>6, <2>7 DEF Ownership
<1>13. ASSUME NEW s \in Scopes, NEW w \in Workers, ExecutionEvent(s, w)
       PROVE  Ownership'
  <2>1. OwnersKept /\ WorkersKept
    BY <1>13, EventEffect
  <2> QED BY <1>1, <1>13, <2>1, OwnershipKept DEF ExecutionEvent
<1>14. ASSUME NEW s \in Scopes, NEW w \in Workers, FlushTask(s, w)
       PROVE  Ownership'
  <2>1. wk[s][w].task \in Tasks
    BY <1>1, <1>14, BusyHasTask DEF FlushTask, Ownership
  <2>2. OwnersKept
    BY <1>1, <1>14, <2>1, RewriteEffect DEF FlushTask
  <2> QED BY <1>1, <1>3, <1>14, <2>2, OwnershipKept DEF FlushTask
<1>15. ASSUME NEW s \in Scopes, NEW w \in Workers, FinishTask(s, w)
       PROVE  Ownership'
  <2> DEFINE t == wk[s][w].task
  <2>1. /\ t \in Tasks /\ wk[s][w].phase = "ended"
        /\ rec[t].status = "running"
        /\ rec'[t].status \in Terminal
        /\ \A x \in Tasks : x # t => rec'[x] = rec[x]
        /\ wk'[s][w].task = None /\ wk'[s][w].phase = "idle"
        /\ \A u \in Scopes, v \in Workers : u # s \/ v # w => wk'[u][v] = wk[u][v]
    BY <1>15, FinishEffect
  <2>2. manager' = manager /\ gen' = gen
    BY <1>15 DEF FinishTask
  <2>3. \A u \in Scopes, v \in Workers :
           (u # s \/ v # w) /\ wk[u][v].phase # "idle" => wk[u][v].task # t
    BY <1>1, <2>1 DEF Ownership, WorkerShape, WorkerOwns, RequireExecutionOwner
  <2> HIDE DEF t
  <2>4. WorkerShape'
    BY <1>1, <2>1, <2>2 DEF Ownership, WorkerShape, Serving
  <2>5. WorkerOwns'
    BY <1>1, <2>1, <2>2, <2>3, BusyHasTask
       DEF Ownership, WorkerOwns, RequireExecutionOwner
  <2>6. RunningIsAttended'
    <3>1. SUFFICES ASSUME NEW u \in Scopes, NEW x \in Tasks, Serving(u),
                          rec'[x].status = "running", rec'[x].scope = u
                   PROVE  rec'[x].gen = gen[u] /\ \E v \in Workers : wk'[u][v].task = x
      BY <2>2 DEF RunningIsAttended, Serving
    <3>2. x # t
      BY <2>1, <3>1 DEF Terminal
    <3>3. rec[x].gen = gen[u] /\ \E v \in Workers : wk[u][v].task = x
      BY <1>1, <2>1, <3>1, <3>2 DEF Ownership, RunningIsAttended
    <3> QED BY <2>1, <3>2, <3>3 DEF t
  <2>7. GenerationOrder'
    BY <1>1, <2>1, <2>2 DEF Ownership, GenerationOrder, Terminal
  <2> QED BY <2>4, <2>5, <2>6, <2>7 DEF Ownership
<1>16. ASSUME NEW s \in Scopes, NEW t \in Tasks, CancelTask(s, t)
       PROVE  Ownership'
  <2>1. /\ WorkersKept
        /\ \A x \in Tasks : x # t => rec'[x] = rec[x]
        /\ rec'[t].scope = rec[t].scope /\ rec'[t].gen = rec[t].gen
        /\ \/ rec'[t].status = rec[t].status
           \/ rec[t].status = "queued" /\ rec'[t].status = "canceled"
    BY <1>16, CancelEffect
  <2>2. manager' = manager /\ gen' = gen
    BY <1>16 DEF CancelTask
  <2>3. \A x \in Tasks :
           /\ rec'[x].scope = rec[x].scope /\ rec'[x].gen = rec[x].gen
           /\ rec'[x].status = "running" => rec[x].status = "running"
           /\ rec[x].status = "running" => rec'[x].status = "running"
    BY <2>1
  <2>4. WorkerShape'
    BY <1>1, <2>1, <2>2 DEF Ownership, WorkerShape, WorkersKept, Serving
  <2>5. WorkerOwns'
    <3>1. SUFFICES ASSUME NEW u \in Scopes, NEW v \in Workers, wk'[u][v].phase # "idle"
                   PROVE  RequireExecutionOwner(u, wk[u][v].task)'
      BY <2>1 DEF WorkersKept, WorkerOwns, RequireExecutionOwner
    <3>2. wk[u][v].phase # "idle" /\ wk[u][v].task \in Tasks
      BY <1>1, <2>1, <3>1, BusyHasTask DEF WorkersKept, Ownership
    <3>3. RequireExecutionOwner(u, wk[u][v].task)
      BY <1>1, <3>2 DEF Ownership, WorkerOwns
    <3> QED BY <2>1, <2>2, <2>3, <3>2, <3>3 DEF WorkersKept, RequireExecutionOwner
  <2>6. RunningIsAttended'
    <3>1. SUFFICES ASSUME NEW u \in Scopes, NEW x \in Tasks, Serving(u),
                          rec'[x].status = "running", rec'[x].scope = u
                   PROVE  rec'[x].gen = gen[u] /\ \E v \in Workers : wk'[u][v].task = x
      BY <2>2 DEF RunningIsAttended, Serving
    <3>2. rec[x].gen = gen[u] /\ \E v \in Workers : wk[u][v].task = x
      BY <1>1, <2>3, <3>1 DEF Ownership, RunningIsAttended
    <3> QED BY <2>1, <2>3, <3>2 DEF WorkersKept
  <2>7. GenerationOrder'
    BY <1>1, <2>2, <2>3 DEF Ownership, GenerationOrder
  <2> QED BY <2>4, <2>5, <2>6, <2>7 DEF Ownership
<1>17. ASSUME NEW s \in Scopes, NEW t \in Tasks, RecordMetadata(s, t)
       PROVE  Ownership'
  <2>1. OwnersKept
    BY <1>1, <1>17, RewriteEffect DEF RecordMetadata
  <2> QED BY <1>1, <1>3, <1>17, <2>1, OwnershipKept DEF RecordMetadata
<1> QED BY <1>4, <1>5, <1>6, <1>7, <1>8, <1>9, <1>10, <1>11, <1>12, <1>13, <1>14,
           <1>15, <1>16, <1>17, NextCases

-----------------------------------------------------------------------------
(* The store lock: what its holder loaded is still so at its next write. *)

\* Nobody else writes the records, the stage or the worker the holder of the
\* store lock relies on.
LEMMA LockStep ==
  ASSUME StoreInv, Next
  PROVE  LockHolder'
<1> USE ConstantsAssumption DEF durable, volatile, history
<1>1. StoreTypeOK /\ Ownership /\ LockHolder /\ EventBound
  BY DEF StoreInv, Ownership
<1>2. ASSUME txn' = NoTxn PROVE LockHolder'
  BY <1>2, NoHolder DEF LockHolder
<1>3. ASSUME NEW s \in Scopes, StartLoad(s) PROVE LockHolder'
  <2>1. /\ txn'.op = "start" /\ txn'.scope = s
        /\ txn'.todo = {t \in Tasks : rec[t].status = "running"}
    BY <1>3, Holders DEF StartLoad
  <2> QED BY <1>3, <2>1 DEF StartLoad, LockHolder
<1>4. ASSUME NEW s \in Scopes, StartRecover(s) PROVE LockHolder'
  <2>1. PICK t \in txn.todo :
           /\ t \in Tasks /\ rec[t].status = "running"
           /\ txn'.op = "start" /\ txn'.scope = s /\ txn'.todo = txn.todo \ {t}
           /\ \A x \in Tasks : x # t => rec'[x] = rec[x]
           /\ \/ rec'[t] = rec[t] /\ LeaseHeld(rec[t].scope, rec[t].gen)
              \/ rec'[t].status = "failed"
    BY <1>4, RecoverEffect
  <2>2. /\ manager' = manager /\ gen' = gen
        /\ manager[s] = "starting" /\ txn.todo \subseteq Tasks
        /\ \A x \in txn.todo : rec[x].status = "running"
        /\ \A x \in Tasks : rec[x].status = "running" /\ rec[x].scope = s
              => x \in txn.todo
    BY <1>1, <1>4 DEF StartRecover, LockHolder, StoreTypeOK, TxnType
  <2>3. rec'[t].status = "running" => rec'[t].scope # s
    \* a task of this very scope has an older generation, hence a free lease
    <3>1. rec[t].scope = s => ~LeaseHeld(rec[t].scope, rec[t].gen)
      <4>1. gen[s] \in Nat /\ rec[t].gen \in Nat
        BY <1>1, <2>1 DEF StoreTypeOK, TaskRecord
      <4> QED BY <1>1, <2>1, <2>2, <4>1 DEF Ownership, GenerationOrder, LeaseHeld
    <3> QED BY <2>1, <3>1
  <2> QED BY <2>1, <2>2, <2>3 DEF LockHolder
<1>5. ASSUME NEW s \in Scopes,
             \/ StartReady(s) \/ StartFails(s) \/ AdmitPromote(s)
             \/ AdmitQueueFails(s) \/ AdmitPromoteFails(s) \/ CancelQueue(s)
      PROVE  LockHolder'
  BY <1>2, <1>5 DEF StartReady, StartFails, AdmitPromote, AdmitQueueFails,
                    AdmitPromoteFails, CancelQueue
<1>6. ASSUME NEW s \in Scopes, NEW w \in Workers,
             ClaimCommit(s, w) \/ ClaimFails(s, w)
      PROVE  LockHolder'
  BY <1>2, <1>6 DEF ClaimCommit, ClaimFails
<1>7. ASSUME NEW s \in Scopes, NEW t \in Tasks, AdmitStage(s, t) \/ RecoverStage(s, t)
      PROVE  LockHolder'
  <2>1. /\ txn'.op \in {"admit", "recover"} /\ txn'.scope = s /\ txn'.task = t
        /\ rec' = rec /\ manager' = manager
        /\ manager[s] = "up" /\ rec[t].status = "none" /\ staged'[t] = s
    BY <1>1, <1>7, Holders DEF AdmitStage, RecoverStage, StoreTypeOK
  <2> QED BY <2>1 DEF LockHolder, Serving
<1>8. ASSUME NEW s \in Scopes, AdmitQueue(s) PROVE LockHolder'
  <2>1. /\ txn'.op = txn.op /\ txn'.scope = txn.scope /\ txn'.task = txn.task
        /\ txn.op \in {"admit", "recover"}
    BY <1>1, <1>8, HolderSteps DEF AdmitQueue, Admitting, StoreTypeOK
  <2>2. rec' = rec /\ staged' = staged /\ manager' = manager
    BY <1>8 DEF AdmitQueue
  <2> QED BY <1>1, <2>1, <2>2 DEF LockHolder, Serving
<1>9. ASSUME NEW s \in Scopes, NEW w \in Workers, Claim(s, w) PROVE LockHolder'
  <2>1. PICK x \in Tasks : /\ txn' = Holder("claim", s, x, w, {})
                          /\ rec[x].status = "queued" /\ rec[x].scope = s
    BY <1>9 DEF Claim, Claimable, Queued
  <2>2. txn'.op = "claim" /\ txn'.scope = s /\ txn'.task = x /\ txn'.worker = w
    BY <2>1, Holders
  <2>3. /\ rec' = rec /\ wk' = wk /\ manager' = manager /\ manager[s] = "up"
        /\ wk[s][w].phase = "idle"
    BY <1>9 DEF Claim
  <2> QED BY <2>1, <2>2, <2>3 DEF LockHolder, Serving
<1>10. ASSUME NEW s \in Scopes, NEW t \in Tasks, CancelTask(s, t) PROVE LockHolder'
  <2>1. CASE txn' = Holder("cancel", s, None, None, {})
    <3>1. txn'.op = "cancel" /\ txn'.scope = s
      BY <2>1, Holders
    <3> QED BY <1>10, <3>1 DEF CancelTask, LockHolder, Serving
  <2>2. CASE txn' = txn
    BY <1>2, <1>10, <2>2 DEF CancelTask
  <2> QED BY <1>10, <2>1, <2>2 DEF CancelTask
<1>11. ASSUME NEW s \in Scopes, NEW w \in Workers,
              \/ ExecutionEvent(s, w) \/ FlushTask(s, w)
              \/ FinishTask(s, w) \/ FinishFails(s, w)
       PROVE  LockHolder'
  BY <1>2, <1>11 DEF ExecutionEvent, FlushTask, FinishTask, FinishFails
<1>12. ASSUME NEW s \in Scopes, NEW t \in Tasks, RecordMetadata(s, t)
       PROVE  LockHolder'
  BY <1>2, <1>12 DEF RecordMetadata
<1>13. ASSUME NEW s \in Scopes, NEW w \in Workers,
              PollStore(s, w) \/ StorageTrouble(s, w) \/ SeeShutdown(s, w)
       PROVE  LockHolder'
  <2>1. /\ txn' = txn /\ rec' = rec /\ staged' = staged /\ manager' = manager
        /\ WorkersKept
    BY <1>1, <1>13, SignalKeeps DEF PollStore, StorageTrouble, SeeShutdown
  <2> QED BY <1>1, <2>1 DEF LockHolder, WorkersKept, Serving
<1>14. ASSUME NEW s \in Scopes, NEW w \in Workers, RunBegin(s, w) \/ ExecEnd(s, w)
       PROVE  LockHolder'
  <2>1. /\ txn' = txn /\ rec' = rec /\ staged' = staged /\ manager' = manager
        /\ wk[s][w].phase # "idle"
    BY <1>14 DEF RunBegin, ExecEnd
  <2>2. \A u \in Scopes, v \in Workers : u # s \/ v # w => wk'[u][v] = wk[u][v]
    BY <1>14, RunBeginEffect, ExecEndEffect
  <2> QED BY <1>1, <2>1, <2>2 DEF LockHolder, Serving
<1>15. ASSUME NEW s \in Scopes, Start(s) \/ Shutdown(s) \/ Exit(s) PROVE LockHolder'
  <2>1. /\ txn' = txn /\ rec' = rec /\ staged' = staged /\ wk' = wk
        /\ \A u \in Scopes : u # s => manager'[u] = manager[u]
        /\ \/ manager[s] = "down"
           \/ manager[s] = "up" /\ manager'[s] = "stopping"
           \/ txn.scope # s
    BY <1>1, <1>15 DEF Start, Shutdown, Exit, StoreTypeOK
  <2>2. txn.op # "none" /\ txn.scope = s
          => (manager[s] = "up" /\ manager'[s] = "stopping") \/ manager'[s] = manager[s]
    BY <1>1, <2>1 DEF LockHolder, Serving, StoreTypeOK, TxnType
  <2>3. txn.op \in {"none", "start", "admit", "recover", "claim", "cancel"}
    BY <1>1 DEF StoreTypeOK, TxnType
  <2> QED BY <1>1, <2>1, <2>2, <2>3 DEF LockHolder, Serving
<1>16. ASSUME NEW s \in Scopes, Crash(s) PROVE LockHolder'
  <2>1. CASE txn.scope = s
    BY <1>2, <1>16, <2>1 DEF Crash
  <2>2. CASE txn.scope # s
    <3>1. /\ txn' = txn /\ rec' = rec /\ staged' = staged
          /\ \A u \in Scopes : u # s => manager'[u] = manager[u] /\ wk'[u] = wk[u]
      BY <1>1, <1>16, <2>2 DEF Crash, StoreTypeOK
    <3> QED BY <1>1, <2>2, <3>1 DEF LockHolder, Serving
  <2> QED BY <2>1, <2>2
<1>17. PICK s \in Scopes : \/ ManagerStep(s)
                           \/ \E w \in Workers : WorkerStep(s, w)
                           \/ \E t \in Tasks : RequestStep(s, t)
  BY DEF Next
<1>18. CASE ManagerStep(s)
  BY <1>3, <1>4, <1>5, <1>8, <1>15, <1>16, <1>18 DEF ManagerStep
<1>19. CASE \E w \in Workers : WorkerStep(s, w)
  BY <1>6, <1>9, <1>11, <1>13, <1>14, <1>19 DEF WorkerStep
<1>20. CASE \E t \in Tasks : RequestStep(s, t)
  BY <1>7, <1>10, <1>12, <1>20 DEF RequestStep
<1> QED BY <1>17, <1>18, <1>19, <1>20

-----------------------------------------------------------------------------
(* Starts and cancellations. *)

StartAndCancel == StartOrder /\ CancelOrder /\ CanceledUnrun

\* Starts and cancellations depend on nothing else.
LEMMA StartAndCancelKept ==
  ASSUME StoreTypeOK, WorkerShape, StartAndCancel, WorkersKept, OwnersKept,
         \A t \in Tasks : /\ rec'[t].cancel = rec[t].cancel
                          /\ rec'[t].reason = rec[t].reason,
         starts' = starts
  PROVE  StartAndCancel'
<1>1. StartOrder'
  BY DEF StartAndCancel, StartOrder, WorkersKept, OwnersKept
<1>2. CancelOrder'
  BY DEF StartAndCancel, CancelOrder, OwnersKept
<1>3. CanceledUnrun'
  BY DEF StartAndCancel, CanceledUnrun, OwnersKept
<1> QED BY <1>1, <1>2, <1>3 DEF StartAndCancel

\* No step starts a task twice, starts one that is not claimed, or completes
\* one whose cancellation is recorded.
LEMMA StartAndCancelStep ==
  ASSUME StoreInv, Next
  PROVE  StartAndCancel'
<1> USE DEF durable, volatile, history
<1>1. /\ StoreTypeOK /\ WorkerShape /\ WorkerOwns /\ StartAndCancel /\ LockHolder
      /\ EventBound
  BY DEF StoreInv, StartAndCancel
<1>2. ASSUME rec' = rec
      PROVE  /\ OwnersKept
             /\ \A t \in Tasks : /\ rec'[t].cancel = rec[t].cancel
                                /\ rec'[t].reason = rec[t].reason
  BY <1>2 DEF OwnersKept
<1>3. ASSUME wk' = wk PROVE WorkersKept
  BY <1>3 DEF WorkersKept
<1>4. CASE Quiet
  BY <1>1, <1>2, <1>4, StartAndCancelKept DEF Quiet
<1>5. ASSUME NEW s \in Scopes,
             \/ Start(s) \/ StartReady(s) \/ StartFails(s)
             \/ Shutdown(s) \/ Exit(s)
      PROVE  StartAndCancel'
  <2>1. rec' = rec /\ wk' = wk /\ starts' = starts
    BY <1>5 DEF Start, StartReady, StartFails, Shutdown, Exit
  <2> QED BY <1>1, <1>2, <1>3, <2>1, StartAndCancelKept
<1>6. ASSUME NEW s \in Scopes, StartRecover(s) PROVE StartAndCancel'
  <2>1. PICK t \in txn.todo :
           /\ t \in Tasks /\ rec[t].status = "running"
           /\ \A x \in Tasks : x # t => rec'[x] = rec[x]
           /\ \/ rec'[t] = rec[t]
              \/ rec'[t].status = "failed" /\ rec'[t].cancel = rec[t].cancel
    BY <1>6, RecoverEffect
  <2>2. wk' = wk /\ starts' = starts
    BY <1>6 DEF StartRecover
  <2>3. StartOrder'
    BY <1>1, <2>1, <2>2 DEF StartAndCancel, StartOrder
  <2>4. CancelOrder'
    BY <1>1, <2>1 DEF StartAndCancel, CancelOrder
  <2>5. CanceledUnrun'
    BY <1>1, <2>1, <2>2 DEF StartAndCancel, CanceledUnrun
  <2> QED BY <2>3, <2>4, <2>5 DEF StartAndCancel
<1>7. ASSUME NEW s \in Scopes, AdmitPromote(s) PROVE StartAndCancel'
  <2>1. /\ txn.task \in Tasks /\ rec[txn.task].status = "none"
        /\ rec'[txn.task].status = "queued" /\ rec'[txn.task].cancel = FALSE
        /\ \A x \in Tasks : x # txn.task => rec'[x] = rec[x]
    BY <1>7, PromoteEffect
  <2>2. wk' = wk /\ starts' = starts
    BY <1>7 DEF AdmitPromote
  <2>3. StartOrder'
    BY <1>1, <2>1, <2>2 DEF StartAndCancel, StartOrder
  <2>4. CancelOrder'
    BY <1>1, <2>1 DEF StartAndCancel, CancelOrder
  <2>5. CanceledUnrun'
    BY <1>1, <2>1, <2>2 DEF StartAndCancel, CanceledUnrun
  <2> QED BY <2>3, <2>4, <2>5 DEF StartAndCancel
<1>8. ASSUME NEW s \in Scopes, Crash(s) PROVE StartAndCancel'
  <2>1. /\ rec' = rec /\ starts' = starts
        /\ \A u \in Scopes : u # s => wk'[u] = wk[u]
        /\ \A w \in Workers : wk'[s][w].phase = "idle"
    BY <1>1, <1>8 DEF Crash, StoreTypeOK, IdleWorker
  <2>2. StartOrder'
    BY <1>1, <2>1 DEF StartAndCancel, StartOrder
  <2> QED BY <1>1, <2>1, <2>2 DEF StartAndCancel, CancelOrder, CanceledUnrun
<1>9. ASSUME NEW s \in Scopes, NEW w \in Workers, ClaimCommit(s, w)
      PROVE  StartAndCancel'
  <2> DEFINE t == txn.task
  <2>1. /\ t \in Tasks
        /\ rec[t].status = "queued"
        /\ rec'[t].status = "running" /\ rec'[t].cancel = rec[t].cancel
        /\ \A x \in Tasks : x # t => rec'[x] = rec[x]
        /\ wk'[s][w].task = t /\ wk'[s][w].phase = "claimed"
        /\ \A u \in Scopes, v \in Workers : u # s \/ v # w => wk'[u][v] = wk[u][v]
    BY <1>9, ClaimEffect
  <2>2. starts' = starts
    BY <1>9 DEF ClaimCommit
  <2> HIDE DEF t
  <2>3. StartOrder'
    BY <1>1, <2>1, <2>2 DEF StartAndCancel, StartOrder
  <2>4. CancelOrder'
    BY <1>1, <2>1 DEF StartAndCancel, CancelOrder
  <2>5. CanceledUnrun'
    BY <1>1, <2>1, <2>2 DEF StartAndCancel, CanceledUnrun
  <2> QED BY <2>3, <2>4, <2>5 DEF StartAndCancel
<1>10. ASSUME NEW s \in Scopes, NEW w \in Workers, RunBegin(s, w)
       PROVE  StartAndCancel'
  <2> DEFINE t == wk[s][w].task
  <2>1. /\ t \in Tasks /\ wk[s][w].phase = "claimed"
        /\ wk'[s][w].task = t
        /\ \A u \in Scopes, v \in Workers : u # s \/ v # w => wk'[u][v] = wk[u][v]
        /\ \/ /\ wk'[s][w].phase = "executing"
              /\ starts'[t] = starts[t] + 1
              /\ \A x \in Tasks : x # t => starts'[x] = starts[x]
           \/ /\ wk'[s][w].phase = "ended"
              /\ wk'[s][w].result \in {"shutdown", "canceled"}
              /\ starts' = starts
    BY <1>10, RunBeginEffect
  <2>2. rec' = rec
    BY <1>10 DEF RunBegin
  <2>3. /\ starts[t] = 0 /\ rec[t].status = "running"
        /\ \A u \in Scopes, v \in Workers :
              (u # s \/ v # w) /\ wk[u][v].phase # "idle" => wk[u][v].task # t
    BY <1>1, <2>1 DEF StartAndCancel, StartOrder, WorkerOwns, WorkerShape,
                      RequireExecutionOwner
  <2> HIDE DEF t
  <2>4. StartOrder'
    <3>1. \A x \in Tasks :
             /\ starts'[x] \in {0, 1}
             /\ rec[x].status \in {"none", "queued"} => starts'[x] = 0
      BY <1>1, <2>1, <2>3 DEF StartAndCancel, StartOrder
    <3>2. \A u \in Scopes, v \in Workers :
             /\ wk'[u][v].phase = "claimed" => starts'[wk'[u][v].task] = 0
             /\ wk'[u][v].phase = "executing" => starts'[wk'[u][v].task] = 1
             /\ wk'[u][v].phase = "ended" /\ wk'[u][v].result = "completed"
                   => starts'[wk'[u][v].task] = 1
      <4>1. SUFFICES ASSUME NEW u \in Scopes, NEW v \in Workers
                     PROVE  /\ wk'[u][v].phase = "claimed" => starts'[wk'[u][v].task] = 0
                            /\ wk'[u][v].phase = "executing" => starts'[wk'[u][v].task] = 1
                            /\ wk'[u][v].phase = "ended" /\ wk'[u][v].result = "completed"
                                  => starts'[wk'[u][v].task] = 1
        OBVIOUS
      <4>2. CASE u = s /\ v = w
        BY <2>1, <2>3, <4>2
      <4>3. CASE (u # s \/ v # w) /\ wk[u][v].phase # "idle"
        <5>1. wk'[u][v] = wk[u][v] /\ wk[u][v].task # t /\ wk[u][v].task \in Tasks
          BY <1>1, <2>1, <2>3, <4>3, BusyHasTask
        <5>2. starts'[wk[u][v].task] = starts[wk[u][v].task]
          BY <2>1, <5>1
        <5> QED BY <1>1, <5>1, <5>2 DEF StartAndCancel, StartOrder
      <4>4. CASE (u # s \/ v # w) /\ wk[u][v].phase = "idle"
        <5>1. wk'[u][v].phase = "idle"
          BY <2>1, <4>4
        <5> QED BY <5>1
      <4> QED BY <4>2, <4>3, <4>4
    <3> QED BY <2>2, <3>1, <3>2 DEF StartOrder
  <2>5. CanceledUnrun'
    <3>1. \A x \in Tasks : rec[x].status = "canceled" => starts'[x] = starts[x]
      BY <2>1, <2>3
    <3> QED BY <1>1, <2>2, <3>1 DEF StartAndCancel, CanceledUnrun
  <2> QED BY <1>1, <2>2, <2>4, <2>5 DEF StartAndCancel, CancelOrder
<1>11. ASSUME NEW s \in Scopes, NEW w \in Workers, ExecEnd(s, w)
       PROVE  StartAndCancel'
  <2>1. /\ wk[s][w].phase = "executing"
        /\ wk'[s][w].task = wk[s][w].task /\ wk'[s][w].phase = "ended"
        /\ \A u \in Scopes, v \in Workers : u # s \/ v # w => wk'[u][v] = wk[u][v]
    BY <1>11, ExecEndEffect
  <2>2. rec' = rec /\ starts' = starts
    BY <1>11 DEF ExecEnd
  <2>3. StartOrder'
    BY <1>1, <2>1, <2>2 DEF StartAndCancel, StartOrder
  <2> QED BY <1>1, <2>2, <2>3 DEF StartAndCancel, CancelOrder, CanceledUnrun
<1>12. ASSUME NEW s \in Scopes, NEW w \in Workers, ExecutionEvent(s, w)
       PROVE  StartAndCancel'
  <2>1. /\ OwnersKept /\ WorkersKept
        /\ \A x \in Tasks : rec'[x].cancel = rec[x].cancel
                           /\ rec'[x].reason = rec[x].reason
    BY <1>12, EventEffect
  <2>2. starts' = starts
    BY <1>12 DEF ExecutionEvent
  <2> QED BY <1>1, <2>1, <2>2, StartAndCancelKept
<1>13. ASSUME NEW s \in Scopes, NEW w \in Workers, FlushTask(s, w)
       PROVE  StartAndCancel'
  <2>1. wk[s][w].task \in Tasks
    BY <1>1, <1>13, BusyHasTask DEF FlushTask
  <2>2. /\ OwnersKept
        /\ \A x \in Tasks : rec'[x].cancel = rec[x].cancel
                           /\ rec'[x].reason = rec[x].reason
    BY <1>1, <1>13, <2>1, RewriteEffect DEF FlushTask
  <2>3. wk' = wk /\ starts' = starts
    BY <1>13 DEF FlushTask
  <2> QED BY <1>1, <1>3, <2>2, <2>3, StartAndCancelKept
<1>14. ASSUME NEW s \in Scopes, NEW w \in Workers, FinishTask(s, w)
       PROVE  StartAndCancel'
  <2> DEFINE t == wk[s][w].task
  <2>1. /\ t \in Tasks
        /\ rec[t].status = "running" /\ rec'[t].status \in Terminal
        /\ rec'[t].status = "completed" => ~rec[t].cancel
        /\ rec'[t].cancel = rec[t].cancel /\ rec'[t].reason \in Reasons
        /\ \A x \in Tasks : x # t => rec'[x] = rec[x]
        /\ wk'[s][w].phase = "idle"
        /\ \A u \in Scopes, v \in Workers : u # s \/ v # w => wk'[u][v] = wk[u][v]
    BY <1>14, FinishEffect
  <2>2. starts' = starts
    BY <1>14 DEF FinishTask
  <2> HIDE DEF t
  <2>3. StartOrder'
    BY <1>1, <2>1, <2>2 DEF StartAndCancel, StartOrder, Terminal
  <2>4. CancelOrder'
    BY <1>1, <2>1 DEF StartAndCancel, CancelOrder, Terminal
  <2>5. CanceledUnrun'
    <3>1. rec'[t].reason # "none"
      BY <2>1 DEF Reasons
    <3> QED BY <1>1, <2>1, <2>2, <3>1 DEF StartAndCancel, CanceledUnrun
  <2> QED BY <2>3, <2>4, <2>5 DEF StartAndCancel
<1>15. ASSUME NEW s \in Scopes, NEW t \in Tasks, CancelTask(s, t)
       PROVE  StartAndCancel'
  <2>1. /\ WorkersKept
        /\ \A x \in Tasks : x # t => rec'[x] = rec[x]
        /\ rec'[t].reason = rec[t].reason
        /\ \/ rec'[t].status = rec[t].status /\ rec'[t].cancel = rec[t].cancel
           \/ /\ rec[t].status = "queued" /\ rec'[t].status = "canceled"
              /\ rec'[t].cancel = rec[t].cancel
           \/ /\ rec[t].status = "running" /\ rec'[t].status = "running"
              /\ rec'[t].cancel = TRUE
    BY <1>15, CancelEffect
  <2>2. starts' = starts
    BY <1>15 DEF CancelTask
  <2>3. StartOrder'
    BY <1>1, <2>1, <2>2 DEF StartAndCancel, StartOrder, WorkersKept
  <2>4. CancelOrder'
    BY <1>1, <2>1 DEF StartAndCancel, CancelOrder
  <2>5. CanceledUnrun'
    BY <1>1, <2>1, <2>2 DEF StartAndCancel, CanceledUnrun, StartOrder
  <2> QED BY <2>3, <2>4, <2>5 DEF StartAndCancel
<1>16. ASSUME NEW s \in Scopes, NEW t \in Tasks, RecordMetadata(s, t)
       PROVE  StartAndCancel'
  <2>1. /\ OwnersKept
        /\ \A x \in Tasks : rec'[x].cancel = rec[x].cancel
                           /\ rec'[x].reason = rec[x].reason
    BY <1>1, <1>16, RewriteEffect DEF RecordMetadata
  <2>2. wk' = wk /\ starts' = starts
    BY <1>16 DEF RecordMetadata
  <2> QED BY <1>1, <1>3, <2>1, <2>2, StartAndCancelKept
<1> QED BY <1>4, <1>5, <1>6, <1>7, <1>8, <1>9, <1>10, <1>11, <1>12, <1>13, <1>14,
           <1>15, <1>16, NextCases

-----------------------------------------------------------------------------
(* Events. *)

Accounting == PendingOwned /\ EventBound /\ EventsExactlyOnce

\* The counters are natural numbers.
LEMMA Counts ==
  ASSUME StoreTypeOK
  PROVE  \A s \in Scopes, t \in Tasks :
            /\ rec[t].events \in Nat
            /\ pendingEvents[s][t] \in Nat
            /\ accepted[t] \in Nat
BY ConstantsAssumption DEF StoreTypeOK, TaskRecord

\* At most one process has events of a task pending, and it is the one whose
\* worker runs the task.
LEMMA OnePending ==
  ASSUME StoreTypeOK, PendingOwned, WorkerOwns,
         NEW s \in Scopes, NEW t \in Tasks, pendingEvents[s][t] > 0
  PROVE  /\ rec[t].status = "running"
         /\ \A u \in Scopes : u # s => pendingEvents[u][t] = 0
         /\ \A u \in Scopes, w \in Workers :
               wk[u][w].phase # "idle" /\ wk[u][w].task = t => u = s
<1>1. RequireExecutionOwner(s, t)
  BY DEF PendingOwned
<1>2. \A u \in Scopes : RequireExecutionOwner(u, t) => u = s
  BY <1>1 DEF RequireExecutionOwner
<1>3. \A u \in Scopes : pendingEvents[u][t] > 0 => RequireExecutionOwner(u, t)
  BY DEF PendingOwned
<1>4. \A u \in Scopes : pendingEvents[u][t] \in Nat
  BY Counts
<1>5. \A u \in Scopes, w \in Workers :
         wk[u][w].phase # "idle" /\ wk[u][w].task = t => RequireExecutionOwner(u, t)
  BY DEF WorkerOwns
<1> QED BY <1>1, <1>2, <1>3, <1>4, <1>5 DEF RequireExecutionOwner

\* For each task the counts stay, or what one process had pending is on disk.
EventsKept ==
    \A t \in Tasks :
        \/ /\ rec'[t].events = rec[t].events
           /\ \A u \in Scopes : pendingEvents'[u][t] = pendingEvents[u][t]
        \/ \E s \in Scopes :
              /\ pendingEvents[s][t] > 0
              /\ rec'[t].events = rec[t].events + pendingEvents[s][t]
              /\ pendingEvents'[s][t] = 0
              /\ \A u \in Scopes : u # s => pendingEvents'[u][t] = pendingEvents[u][t]

\* Then every count that matters stays too.
LEMMA EventsKeptCounts ==
  ASSUME StoreTypeOK, Accounting, WorkerOwns, WorkerShape, EventsKept
  PROVE  /\ \A s \in Scopes, t \in Tasks :
               /\ pendingEvents'[s][t] > 0 => pendingEvents[s][t] > 0
               /\ rec'[t].events + pendingEvents'[s][t] <= accepted[t]
         /\ \A s \in Scopes, w \in Workers :
               wk[s][w].phase # "idle" =>
                  rec'[wk[s][w].task].events + pendingEvents'[s][wk[s][w].task]
                     = accepted[wk[s][w].task]
         /\ \A t \in Tasks :
               rec[t].status # "running" => rec'[t].events = rec[t].events
<1>1. \A s \in Scopes, t \in Tasks :
         /\ pendingEvents'[s][t] > 0 => pendingEvents[s][t] > 0
         /\ rec'[t].events + pendingEvents'[s][t] <= accepted[t]
  <2>1. SUFFICES ASSUME NEW s \in Scopes, NEW t \in Tasks
                 PROVE  /\ pendingEvents'[s][t] > 0 => pendingEvents[s][t] > 0
                        /\ rec'[t].events + pendingEvents'[s][t] <= accepted[t]
    OBVIOUS
  <2>2. \A u \in Scopes : rec[t].events + pendingEvents[u][t] <= accepted[t]
    BY DEF Accounting, EventBound
  <2>3. CASE /\ rec'[t].events = rec[t].events
             /\ \A u \in Scopes : pendingEvents'[u][t] = pendingEvents[u][t]
    BY <2>2, <2>3
  <2>4. CASE \E u \in Scopes :
                /\ pendingEvents[u][t] > 0
                /\ rec'[t].events = rec[t].events + pendingEvents[u][t]
                /\ pendingEvents'[u][t] = 0
                /\ \A v \in Scopes : v # u => pendingEvents'[v][t] = pendingEvents[v][t]
    <3>1. PICK u \in Scopes :
                /\ pendingEvents[u][t] > 0
                /\ rec'[t].events = rec[t].events + pendingEvents[u][t]
                /\ pendingEvents'[u][t] = 0
                /\ \A v \in Scopes : v # u => pendingEvents'[v][t] = pendingEvents[v][t]
      BY <2>4
    <3>2. \A v \in Scopes : v # u => pendingEvents[v][t] = 0
      BY <3>1, OnePending DEF Accounting
    <3>3. pendingEvents'[s][t] = 0
      BY <3>1, <3>2
    <3>4. rec[t].events \in Nat /\ pendingEvents[u][t] \in Nat /\ accepted[t] \in Nat
      BY Counts
    <3> QED BY <2>2, <3>1, <3>3, <3>4
  <2> QED BY <2>3, <2>4 DEF EventsKept
<1>2. ASSUME NEW s \in Scopes, NEW w \in Workers, wk[s][w].phase # "idle"
      PROVE  rec'[wk[s][w].task].events + pendingEvents'[s][wk[s][w].task]
                = accepted[wk[s][w].task]
  <2> DEFINE t == wk[s][w].task
  <2>1. t \in Tasks /\ rec[t].events + pendingEvents[s][t] = accepted[t]
    BY <1>2, BusyHasTask DEF Accounting, EventsExactlyOnce
  <2>2. \A u \in Scopes : pendingEvents[u][t] > 0 => u = s
    BY <1>2, <2>1, OnePending DEF Accounting
  <2>3. \A u \in Scopes : /\ rec[t].events \in Nat /\ pendingEvents[u][t] \in Nat
                          /\ accepted[t] \in Nat
    BY <2>1, Counts
  <2> HIDE DEF t
  <2>4. rec'[t].events + pendingEvents'[s][t] = accepted[t]
    BY <2>1, <2>2, <2>3 DEF EventsKept
  <2> QED BY <2>4 DEF t
<1>3. ASSUME NEW t \in Tasks, rec[t].status # "running"
      PROVE  rec'[t].events = rec[t].events
  <2>1. \A u \in Scopes : ~(pendingEvents[u][t] > 0)
    BY <1>3, OnePending DEF Accounting
  <2> QED BY <2>1 DEF EventsKept
<1> QED BY <1>1, <1>2, <1>3

\* The accounting depends on nothing else.
LEMMA AccountingKept ==
  ASSUME StoreTypeOK, Accounting, WorkerOwns, WorkerShape, EventsKept,
         OwnersKept, WorkersKept, gen' = gen, accepted' = accepted,
         \A s \in Scopes : Serving(s) => Serving(s)',
         \A t \in Tasks : rec'[t].reason = rec[t].reason
  PROVE  Accounting'
<1>1. /\ \A s \in Scopes, t \in Tasks :
            /\ pendingEvents'[s][t] > 0 => pendingEvents[s][t] > 0
            /\ rec'[t].events + pendingEvents'[s][t] <= accepted[t]
      /\ \A s \in Scopes, w \in Workers :
            wk[s][w].phase # "idle" =>
               rec'[wk[s][w].task].events + pendingEvents'[s][wk[s][w].task]
                  = accepted[wk[s][w].task]
      /\ \A t \in Tasks :
            rec[t].status # "running" => rec'[t].events = rec[t].events
  BY EventsKeptCounts
<1>2. PendingOwned'
  BY <1>1 DEF Accounting, PendingOwned, RequireExecutionOwner, OwnersKept
<1>3. EventBound'
  BY <1>1 DEF Accounting, EventBound, OwnersKept
<1>4. EventsExactlyOnce'
  <2>1. \A s \in Scopes, w \in Workers : wk'[s][w].phase # "idle" =>
           rec'[wk'[s][w].task].events + pendingEvents'[s][wk'[s][w].task]
              = accepted'[wk'[s][w].task]
    BY <1>1 DEF WorkersKept
  <2>2. \A t \in Tasks : rec'[t].status \in Terminal /\ rec'[t].reason # "failed"
           => rec'[t].events = accepted'[t]
    BY <1>1 DEF Accounting, EventsExactlyOnce, OwnersKept, Terminal
  <2> QED BY <2>1, <2>2 DEF EventsExactlyOnce
<1> QED BY <1>2, <1>3, <1>4 DEF Accounting

\* No step loses an accepted event of a task that runs on, counts one twice,
\* or leaves one pending where its owner is gone.
LEMMA EventStep ==
  ASSUME StoreInv, Next
  PROVE  Accounting'
<1> USE DEF durable, volatile, history
<1>1. /\ StoreTypeOK /\ WorkerShape /\ WorkerOwns /\ RunningIsAttended
      /\ Accounting /\ LockHolder /\ EventBound
  BY DEF StoreInv, Accounting
<1>2. ASSUME rec' = rec, pendingEvents' = pendingEvents
      PROVE  /\ OwnersKept /\ EventsKept
             /\ \A t \in Tasks : rec'[t].reason = rec[t].reason
  BY <1>2 DEF OwnersKept, EventsKept
<1>3. ASSUME wk' = wk PROVE WorkersKept
  BY <1>3 DEF WorkersKept
<1>4. ASSUME manager' = manager
      PROVE  \A s \in Scopes : Serving(s) => Serving(s)'
  BY <1>4 DEF Serving
<1>5. CASE Quiet
  BY <1>1, <1>2, <1>4, <1>5, AccountingKept DEF Quiet
<1>6. ASSUME NEW s \in Scopes, Start(s) PROVE Accounting'
  <2>1. /\ manager[s] = "down" /\ manager'[s] = "starting"
        /\ \A u \in Scopes : u # s => manager'[u] = manager[u] /\ gen'[u] = gen[u]
        /\ UNCHANGED <<rec, wk, pendingEvents, accepted>>
    BY <1>1, <1>6 DEF Start, StoreTypeOK
  <2>2. \A t \in Tasks : ~(pendingEvents[s][t] > 0)
    BY <1>1, <2>1 DEF EventBound, Serving
  <2>3. PendingOwned'
    BY <1>1, <2>1, <2>2 DEF Accounting, PendingOwned, RequireExecutionOwner
  <2>4. EventBound'
    BY <1>1, <2>1, <2>2 DEF EventBound, Serving
  <2>5. EventsExactlyOnce'
    BY <1>1, <2>1 DEF Accounting, EventsExactlyOnce
  <2> QED BY <2>3, <2>4, <2>5 DEF Accounting
<1>7. ASSUME NEW s \in Scopes, StartReady(s) \/ StartFails(s) \/ Shutdown(s)
      PROVE  Accounting'
  <2>1. UNCHANGED <<rec, wk, gen, pendingEvents, accepted>>
    BY <1>7 DEF StartReady, StartFails, Shutdown
  <2>2. \A u \in Scopes : u # s => manager'[u] = manager[u]
    BY <1>1, <1>7 DEF StartReady, StartFails, Shutdown, StoreTypeOK
  <2>3. Serving(s) => manager'[s] \in {"up", "stopping"}
    BY <1>1, <1>7 DEF StartReady, StartFails, Shutdown, Serving, StoreTypeOK
  <2>4. \A u \in Scopes : Serving(u) => Serving(u)'
    BY <2>2, <2>3 DEF Serving
  <2> QED BY <1>1, <1>2, <1>3, <2>1, <2>4, AccountingKept
<1>8. ASSUME NEW s \in Scopes, Exit(s) PROVE Accounting'
  <2>1. /\ manager[s] = "stopping"
        /\ \A u \in Scopes : u # s => manager'[u] = manager[u]
        /\ \A w \in Workers : wk[s][w].phase = "idle"
        /\ UNCHANGED <<rec, wk, gen, pendingEvents, accepted>>
    BY <1>1, <1>8 DEF Exit, StoreTypeOK
  <2>2. \A t \in Tasks : ~(pendingEvents[s][t] > 0)
    <3>1. SUFFICES ASSUME NEW t \in Tasks, pendingEvents[s][t] > 0 PROVE FALSE
      OBVIOUS
    <3>2. rec[t].status = "running" /\ rec[t].scope = s
      BY <1>1, <3>1 DEF Accounting, PendingOwned, RequireExecutionOwner
    <3>3. \E w \in Workers : wk[s][w].task = t
      BY <1>1, <2>1, <3>2 DEF RunningIsAttended, Serving
    <3>4. \A w \in Workers : wk[s][w].task = None
      BY <1>1, <2>1 DEF WorkerShape
    <3> QED BY <3>3, <3>4, ConstantsAssumption
  <2>3. PendingOwned'
    BY <1>1, <2>1 DEF Accounting, PendingOwned, RequireExecutionOwner
  <2>4. EventBound'
    BY <1>1, <2>1, <2>2 DEF EventBound, Serving
  <2>5. EventsExactlyOnce'
    BY <1>1, <2>1 DEF Accounting, EventsExactlyOnce
  <2> QED BY <2>3, <2>4, <2>5 DEF Accounting
<1>9. ASSUME NEW s \in Scopes, Crash(s) PROVE Accounting'
  <2>1. /\ \A u \in Scopes : u # s => /\ manager'[u] = manager[u] /\ wk'[u] = wk[u]
                                     /\ pendingEvents'[u] = pendingEvents[u]
        /\ \A t \in Tasks : pendingEvents'[s][t] = 0
        /\ \A w \in Workers : wk'[s][w] = IdleWorker
        /\ UNCHANGED <<rec, gen, accepted>>
    BY <1>1, <1>9 DEF Crash, StoreTypeOK
  <2>2. \A w \in Workers : wk'[s][w].phase = "idle"
    BY <2>1 DEF IdleWorker
  <2>3. PendingOwned'
    BY <1>1, <2>1 DEF Accounting, PendingOwned, RequireExecutionOwner
  <2>4. \A u \in Scopes, t \in Tasks :
           rec[t].events + pendingEvents'[u][t] <= accepted[t]
    BY <1>1, <2>1, Counts DEF EventBound
  <2>5. EventBound'
    BY <1>1, <2>1, <2>4 DEF EventBound, Serving
  <2>6. EventsExactlyOnce'
    BY <1>1, <2>1, <2>2 DEF Accounting, EventsExactlyOnce
  <2> QED BY <2>3, <2>5, <2>6 DEF Accounting
<1>10. ASSUME NEW s \in Scopes, StartRecover(s) PROVE Accounting'
  <2>1. PICK t \in txn.todo :
           /\ t \in Tasks /\ rec[t].status = "running"
           /\ \A x \in Tasks : x # t => rec'[x] = rec[x]
           /\ \/ rec'[t] = rec[t]
              \/ /\ ~LeaseHeld(rec[t].scope, rec[t].gen)
                 /\ rec'[t].status = "failed" /\ rec'[t].reason = "failed"
                 /\ rec'[t].events = rec[t].events
    BY <1>10, RecoverEffect
  <2>2. UNCHANGED <<wk, manager, gen, pendingEvents, accepted>>
    BY <1>10 DEF StartRecover
  <2>3. \A x \in Tasks : rec'[x].events = rec[x].events
    BY <2>1
  <2>4. \A u \in Scopes : pendingEvents[u][t] > 0 => LeaseHeld(rec[t].scope, rec[t].gen)
    <3>1. SUFFICES ASSUME NEW u \in Scopes, pendingEvents[u][t] > 0
                   PROVE  LeaseHeld(rec[t].scope, rec[t].gen)
      OBVIOUS
    <3>2. RequireExecutionOwner(u, t) /\ Serving(u)
      BY <1>1, <2>1, <3>1 DEF Accounting, PendingOwned, EventBound
    <3> QED BY <3>2 DEF RequireExecutionOwner, LeaseHeld, Serving
  <2>5. PendingOwned'
    BY <1>1, <2>1, <2>2, <2>4 DEF Accounting, PendingOwned, RequireExecutionOwner
  <2>6. EventBound'
    BY <1>1, <2>1, <2>2, <2>3 DEF EventBound, Serving
  <2>7. EventsExactlyOnce'
    <3>1. \A x \in Tasks :
             rec'[x].status \in Terminal /\ rec'[x].reason # "failed" => rec'[x] = rec[x]
      BY <2>1
    <3>2. \A u \in Scopes, w \in Workers :
             wk[u][w].phase # "idle" => wk[u][w].task \in Tasks
      BY <1>1, BusyHasTask
    <3> QED BY <1>1, <2>2, <2>3, <3>1, <3>2 DEF Accounting, EventsExactlyOnce
  <2> QED BY <2>5, <2>6, <2>7 DEF Accounting
<1>11. ASSUME NEW s \in Scopes, AdmitPromote(s) PROVE Accounting'
  <2> DEFINE t == txn.task
  <2>1. /\ t \in Tasks /\ rec[t].status = "none" /\ rec'[t].status = "queued"
        /\ rec'[t].events = 0
        /\ \A x \in Tasks : x # t => rec'[x] = rec[x]
    BY <1>11, PromoteEffect
  <2>2. UNCHANGED <<wk, manager, gen, pendingEvents, accepted>>
    BY <1>11 DEF AdmitPromote
  <2> HIDE DEF t
  <2>3. \A u \in Scopes : pendingEvents[u][t] = 0
    BY <1>1, <2>1, Counts DEF Accounting, PendingOwned, RequireExecutionOwner
  <2>4. accepted[t] = 0
    BY <1>1, <2>1 DEF EventBound
  <2>5. PendingOwned'
    BY <1>1, <2>1, <2>2, <2>3 DEF Accounting, PendingOwned, RequireExecutionOwner
  <2>6. EventBound'
    BY <1>1, <2>1, <2>2, <2>3, <2>4 DEF EventBound, Serving
  <2>7. EventsExactlyOnce'
    <3>1. \A u \in Scopes, w \in Workers : wk[u][w].phase # "idle" =>
             wk[u][w].task \in Tasks /\ wk[u][w].task # t
      BY <1>1, <2>1, BusyHasTask DEF WorkerOwns, RequireExecutionOwner
    <3>2. \A x \in Tasks : rec'[x].status \in Terminal => x # t
      BY <2>1 DEF Terminal
    <3> QED BY <1>1, <2>1, <2>2, <3>1, <3>2 DEF Accounting, EventsExactlyOnce
  <2> QED BY <2>5, <2>6, <2>7 DEF Accounting
<1>12. ASSUME NEW s \in Scopes, NEW w \in Workers, ClaimCommit(s, w)
       PROVE  Accounting'
  <2> DEFINE t == txn.task
  <2>1. /\ t \in Tasks
        /\ rec[t].status = "queued" /\ rec'[t].status = "running"
        /\ rec'[t].events = rec[t].events + pendingEvents[s][t]
        /\ \A x \in Tasks : x # t => rec'[x] = rec[x]
        /\ pendingEvents'[s][t] = 0
        /\ \A u \in Scopes, x \in Tasks :
              u # s \/ x # t => pendingEvents'[u][x] = pendingEvents[u][x]
        /\ wk'[s][w].task = t
        /\ \A u \in Scopes, v \in Workers : u # s \/ v # w => wk'[u][v] = wk[u][v]
    BY <1>12, ClaimEffect
  <2>2. UNCHANGED <<manager, gen, accepted>>
    BY <1>12 DEF ClaimCommit
  <2> HIDE DEF t
  <2>3. \A u \in Scopes : pendingEvents[u][t] = 0 /\ pendingEvents'[u][t] = 0
    BY <1>1, <2>1, Counts DEF Accounting, PendingOwned, RequireExecutionOwner
  <2>4. accepted[t] = 0 /\ rec[t].events = 0 /\ rec'[t].events = 0
    <3>1. accepted[t] = 0
      BY <1>1, <2>1 DEF EventBound
    <3>2. rec[t].events + pendingEvents[s][t] <= accepted[t]
      BY <1>1, <2>1 DEF EventBound
    <3>3. rec[t].events \in Nat
      BY <1>1, <2>1, Counts
    <3> QED BY <2>1, <2>3, <3>1, <3>2, <3>3
  <2>5. PendingOwned'
    BY <1>1, <2>1, <2>2, <2>3 DEF Accounting, PendingOwned, RequireExecutionOwner
  <2>6. EventBound'
    BY <1>1, <2>1, <2>2, <2>3, <2>4 DEF EventBound, Serving
  <2>7. EventsExactlyOnce'
    <3>1. ASSUME NEW u \in Scopes, NEW v \in Workers, wk'[u][v].phase # "idle"
          PROVE  rec'[wk'[u][v].task].events + pendingEvents'[u][wk'[u][v].task]
                    = accepted[wk'[u][v].task]
      <4>1. CASE u = s /\ v = w
        BY <2>1, <2>3, <2>4, <4>1
      <4>2. CASE u # s \/ v # w
        <5>1. wk'[u][v] = wk[u][v] /\ wk[u][v].phase # "idle"
          BY <2>1, <3>1, <4>2
        <5>2. wk[u][v].task \in Tasks /\ wk[u][v].task # t
          BY <1>1, <2>1, <5>1, BusyHasTask DEF WorkerOwns, RequireExecutionOwner
        <5>3. rec[wk[u][v].task].events + pendingEvents[u][wk[u][v].task]
                = accepted[wk[u][v].task]
          BY <1>1, <5>1 DEF Accounting, EventsExactlyOnce
        <5> QED BY <2>1, <5>1, <5>2, <5>3
      <4> QED BY <4>1, <4>2
    <3>2. \A x \in Tasks : rec'[x].status \in Terminal => x # t
      BY <2>1 DEF Terminal
    <3> QED BY <1>1, <2>1, <2>2, <3>1, <3>2 DEF Accounting, EventsExactlyOnce
  <2> QED BY <2>5, <2>6, <2>7 DEF Accounting
<1>13. ASSUME NEW s \in Scopes, NEW w \in Workers, RunBegin(s, w) \/ ExecEnd(s, w)
       PROVE  Accounting'
  <2>1. /\ wk[s][w].phase # "idle" /\ wk'[s][w].task = wk[s][w].task
        /\ \A u \in Scopes, v \in Workers : u # s \/ v # w => wk'[u][v] = wk[u][v]
    BY <1>13, RunBeginEffect, ExecEndEffect
  <2>2. UNCHANGED <<rec, manager, gen, pendingEvents, accepted>>
    BY <1>13 DEF RunBegin, ExecEnd
  <2>3. PendingOwned' /\ EventBound'
    BY <1>1, <2>2 DEF Accounting, PendingOwned, RequireExecutionOwner, EventBound, Serving
  <2>4. EventsExactlyOnce'
    BY <1>1, <2>1, <2>2 DEF Accounting, EventsExactlyOnce
  <2> QED BY <2>3, <2>4 DEF Accounting
<1>14. ASSUME NEW s \in Scopes, NEW w \in Workers, ExecutionEvent(s, w)
       PROVE  Accounting'
  <2> DEFINE t == wk[s][w].task
  <2>1. /\ t \in Tasks /\ OwnersKept /\ WorkersKept
        /\ \A x \in Tasks : rec'[x].reason = rec[x].reason
        /\ \A u \in Scopes, x \in Tasks :
              u # s \/ x # t => pendingEvents'[u][x] = pendingEvents[u][x]
        /\ \A x \in Tasks : x # t => /\ rec'[x].events = rec[x].events
                                    /\ accepted'[x] = accepted[x]
        /\ accepted'[t] = accepted[t] + 1
        /\ rec'[t].events \in Nat /\ pendingEvents'[s][t] \in Nat
        /\ rec'[t].events + pendingEvents'[s][t]
              = rec[t].events + pendingEvents[s][t] + 1
    BY <1>14, EventEffect
  <2>2. /\ wk[s][w].phase # "idle" /\ RequireExecutionOwner(s, t)
        /\ UNCHANGED <<manager, gen>>
    BY <1>14 DEF ExecutionEvent
  <2>3. Serving(s) /\ rec[t].events + pendingEvents[s][t] = accepted[t]
    BY <1>1, <2>2 DEF WorkerShape, Accounting, EventsExactlyOnce
  <2> HIDE DEF t
  <2>4. \A u \in Scopes : u # s => pendingEvents[u][t] = 0
    BY <1>1, <2>1, <2>2, Counts DEF Accounting, PendingOwned, RequireExecutionOwner
  <2>5. rec'[t].events + pendingEvents'[s][t] = accepted'[t]
    BY <2>1, <2>3
  <2>6. PendingOwned'
    BY <1>1, <2>1, <2>2 DEF Accounting, PendingOwned, RequireExecutionOwner, OwnersKept
  <2>7. EventBound'
    <3>1. ASSUME NEW u \in Scopes, NEW x \in Tasks
          PROVE  /\ rec'[x].events + pendingEvents'[u][x] <= accepted'[x]
                 /\ pendingEvents'[u][x] > 0 => Serving(u)
      <4>1. CASE x # t
        BY <1>1, <2>1, <4>1 DEF EventBound
      <4>2. CASE x = t /\ u = s
        BY <1>1, <2>1, <2>3, <2>5, <4>2, Counts
      <4>3. CASE x = t /\ u # s
        <5>1. pendingEvents'[u][x] = 0
          BY <2>1, <2>4, <4>3
        <5> QED BY <1>1, <2>1, <2>5, <4>3, <5>1, Counts
      <4> QED BY <4>1, <4>2, <4>3
    <3>2. \A x \in Tasks : rec[x].status \in {"none", "queued"} => x # t
      BY <2>2 DEF RequireExecutionOwner
    <3> QED BY <1>1, <2>1, <2>2, <3>1, <3>2 DEF EventBound, OwnersKept, Serving
  <2>8. EventsExactlyOnce'
    <3>1. ASSUME NEW u \in Scopes, NEW v \in Workers, wk'[u][v].phase # "idle"
          PROVE  rec'[wk'[u][v].task].events + pendingEvents'[u][wk'[u][v].task]
                    = accepted'[wk'[u][v].task]
      <4>1. /\ wk'[u][v].task = wk[u][v].task /\ wk[u][v].phase # "idle"
            /\ wk[u][v].task \in Tasks /\ RequireExecutionOwner(u, wk[u][v].task)
        BY <1>1, <2>1, <3>1, BusyHasTask DEF WorkersKept, WorkerOwns
      <4>2. CASE wk[u][v].task = t
        <5>1. u = s
          BY <2>2, <4>1, <4>2 DEF RequireExecutionOwner
        <5> QED BY <2>5, <4>1, <4>2, <5>1
      <4>3. CASE wk[u][v].task # t
        <5>1. rec[wk[u][v].task].events + pendingEvents[u][wk[u][v].task]
                = accepted[wk[u][v].task]
          BY <1>1, <4>1 DEF Accounting, EventsExactlyOnce
        <5> QED BY <2>1, <4>1, <4>3, <5>1
      <4> QED BY <4>2, <4>3
    <3>2. \A x \in Tasks : rec[x].status \in Terminal => x # t
      BY <2>2 DEF RequireExecutionOwner, Terminal
    <3> QED BY <1>1, <2>1, <3>1, <3>2 DEF Accounting, EventsExactlyOnce, OwnersKept
  <2> QED BY <2>6, <2>7, <2>8 DEF Accounting
<1>15. ASSUME NEW s \in Scopes, NEW t \in Tasks, Persist(s, t, Loaded(s, t)),
              UNCHANGED <<wk, manager, gen, accepted>>
       PROVE  Accounting'
  <2>1. /\ OwnersKept
        /\ \A x \in Tasks : rec'[x].reason = rec[x].reason
        /\ rec'[t].events = rec[t].events + pendingEvents[s][t]
        /\ pendingEvents'[s][t] = 0
        /\ \A x \in Tasks : x # t => rec'[x].events = rec[x].events
        /\ \A u \in Scopes, x \in Tasks :
              u # s \/ x # t => pendingEvents'[u][x] = pendingEvents[u][x]
    BY <1>1, <1>15, RewriteEffect
  <2>2. pendingEvents[s][t] \in Nat /\ rec[t].events \in Nat
    BY <1>1, Counts
  <2>3. EventsKept
    BY <2>1, <2>2 DEF EventsKept
  <2> QED BY <1>1, <1>3, <1>4, <1>15, <2>1, <2>3, AccountingKept
<1>16. ASSUME NEW s \in Scopes, NEW w \in Workers, FlushTask(s, w)
       PROVE  Accounting'
  <2>1. wk[s][w].task \in Tasks
    BY <1>1, <1>16, BusyHasTask DEF FlushTask
  <2> QED BY <1>15, <1>16, <2>1 DEF FlushTask
<1>17. ASSUME NEW s \in Scopes, NEW t \in Tasks, RecordMetadata(s, t)
       PROVE  Accounting'
  BY <1>15, <1>17 DEF RecordMetadata
<1>18. ASSUME NEW s \in Scopes, NEW w \in Workers, FinishTask(s, w)
       PROVE  Accounting'
  <2> DEFINE t == wk[s][w].task
  <2>1. /\ t \in Tasks /\ wk[s][w].phase = "ended"
        /\ rec'[t].status \in Terminal
        /\ rec'[t].events = rec[t].events + pendingEvents[s][t]
        /\ \A x \in Tasks : x # t => rec'[x] = rec[x]
        /\ pendingEvents'[s][t] = 0
        /\ \A u \in Scopes, x \in Tasks :
              u # s \/ x # t => pendingEvents'[u][x] = pendingEvents[u][x]
        /\ wk'[s][w].phase = "idle"
        /\ \A u \in Scopes, v \in Workers : u # s \/ v # w => wk'[u][v] = wk[u][v]
    BY <1>18, FinishEffect
  <2>2. /\ RequireExecutionOwner(s, t) /\ UNCHANGED <<manager, gen, accepted>>
    BY <1>18 DEF FinishTask
  <2>3. rec'[t].events = accepted[t]
    BY <1>1, <2>1 DEF Accounting, EventsExactlyOnce
  <2>4. \A u \in Scopes, v \in Workers :
           (u # s \/ v # w) /\ wk[u][v].phase # "idle" => wk[u][v].task # t
    BY <1>1, <2>1 DEF WorkerShape, WorkerOwns, RequireExecutionOwner
  <2> HIDE DEF t
  <2>5. \A u \in Scopes : pendingEvents'[u][t] = 0
    BY <1>1, <2>1, <2>2, Counts DEF Accounting, PendingOwned, RequireExecutionOwner
  <2>6. PendingOwned'
    BY <1>1, <2>1, <2>2, <2>5 DEF Accounting, PendingOwned, RequireExecutionOwner
  <2>7. EventBound'
    <3>1. rec'[t].events + 0 <= accepted[t]
      BY <1>1, <2>1, <2>3, Counts
    <3> QED BY <1>1, <2>1, <2>2, <2>5, <3>1 DEF EventBound, Serving, Terminal
  <2>8. EventsExactlyOnce'
    <3>1. ASSUME NEW u \in Scopes, NEW v \in Workers, wk'[u][v].phase # "idle"
          PROVE  rec'[wk'[u][v].task].events + pendingEvents'[u][wk'[u][v].task]
                    = accepted[wk'[u][v].task]
      <4>1. /\ wk'[u][v] = wk[u][v] /\ wk[u][v].phase # "idle"
            /\ wk[u][v].task \in Tasks /\ wk[u][v].task # t
        BY <1>1, <2>1, <2>4, <3>1, BusyHasTask
      <4>2. rec[wk[u][v].task].events + pendingEvents[u][wk[u][v].task]
              = accepted[wk[u][v].task]
        BY <1>1, <4>1 DEF Accounting, EventsExactlyOnce
      <4> QED BY <2>1, <4>1, <4>2
    <3>2. \A x \in Tasks : rec'[x].status \in Terminal /\ rec'[x].reason # "failed"
             => rec'[x].events = accepted[x]
      BY <1>1, <2>1, <2>3 DEF Accounting, EventsExactlyOnce
    <3> QED BY <2>2, <3>1, <3>2 DEF EventsExactlyOnce
  <2> QED BY <2>6, <2>7, <2>8 DEF Accounting
<1>19. ASSUME NEW s \in Scopes, NEW t \in Tasks, CancelTask(s, t)
       PROVE  Accounting'
  <2>1. /\ WorkersKept
        /\ \A x \in Tasks : x # t => rec'[x] = rec[x]
        /\ rec'[t].scope = rec[t].scope /\ rec'[t].gen = rec[t].gen
        /\ rec'[t].reason = rec[t].reason
        /\ \A u \in Scopes, x \in Tasks :
              u # s \/ x # t => pendingEvents'[u][x] = pendingEvents[u][x]
        /\ pendingEvents'[s][t] \in {0, pendingEvents[s][t]}
        /\ rec'[t].events + pendingEvents'[s][t]
              = rec[t].events + pendingEvents[s][t]
        /\ \/ rec'[t].status = rec[t].status
           \/ rec[t].status = "queued" /\ rec'[t].status = "canceled"
    BY <1>19, CancelEffect
  <2>2. UNCHANGED <<manager, gen, accepted>>
    BY <1>19 DEF CancelTask
  <2>3. /\ rec[t].events \in Nat /\ pendingEvents[s][t] \in Nat
        /\ rec'[t].events \in Nat
    <3>1. rec' \in [Tasks -> TaskRecord]
      BY TypeStep DEF StoreTypeOK
    <3>2. rec'[t].events \in Nat
      BY <3>1, ConstantsAssumption DEF TaskRecord
    <3> QED BY <1>1, <3>2, Counts
  <2>4. EventsKept
    BY <2>1, <2>3 DEF EventsKept
  <2>5. CASE rec'[t].status = rec[t].status
    <3>1. OwnersKept /\ \A x \in Tasks : rec'[x].reason = rec[x].reason
      BY <2>1, <2>5 DEF OwnersKept
    <3> QED BY <1>1, <1>4, <2>1, <2>2, <2>4, <3>1, AccountingKept
  <2>6. CASE rec[t].status = "queued" /\ rec'[t].status = "canceled"
    <3>1. \A u \in Scopes : pendingEvents[u][t] = 0 /\ pendingEvents'[u][t] = 0
      BY <1>1, <2>1, <2>6, Counts DEF Accounting, PendingOwned, RequireExecutionOwner
    <3>2. accepted[t] = 0 /\ rec'[t].events = 0
      <4>1. accepted[t] = 0
        BY <1>1, <2>6 DEF EventBound
      <4>2. rec[t].events + pendingEvents[s][t] <= accepted[t]
        BY <1>1 DEF EventBound
      <4> QED BY <2>1, <2>3, <3>1, <4>1, <4>2
    <3>3. PendingOwned'
      BY <1>1, <2>1, <2>2, <3>1 DEF Accounting, PendingOwned, RequireExecutionOwner
    <3>4. EventBound'
      BY <1>1, <2>1, <2>2, <2>6, <3>1, <3>2 DEF EventBound, Serving
    <3>5. EventsExactlyOnce'
      <4>1. ASSUME NEW u \in Scopes, NEW v \in Workers, wk'[u][v].phase # "idle"
            PROVE  rec'[wk'[u][v].task].events + pendingEvents'[u][wk'[u][v].task]
                      = accepted[wk'[u][v].task]
        <5>1. /\ wk'[u][v].task = wk[u][v].task /\ wk[u][v].phase # "idle"
              /\ wk[u][v].task \in Tasks /\ wk[u][v].task # t
          BY <1>1, <2>1, <2>6, <4>1, BusyHasTask
             DEF WorkersKept, WorkerOwns, RequireExecutionOwner
        <5>2. rec[wk[u][v].task].events + pendingEvents[u][wk[u][v].task]
                = accepted[wk[u][v].task]
          BY <1>1, <5>1 DEF Accounting, EventsExactlyOnce
        <5> QED BY <2>1, <5>1, <5>2
      <4>2. \A x \in Tasks : rec'[x].status \in Terminal /\ rec'[x].reason # "failed"
               => rec'[x].events = accepted[x]
        BY <1>1, <2>1, <3>2 DEF Accounting, EventsExactlyOnce
      <4> QED BY <2>2, <4>1, <4>2 DEF EventsExactlyOnce
    <3> QED BY <3>3, <3>4, <3>5 DEF Accounting
  <2> QED BY <2>1, <2>5, <2>6
<1> QED BY <1>5, <1>6, <1>7, <1>8, <1>9, <1>10, <1>11, <1>12, <1>13, <1>14, <1>16,
           <1>17, <1>18, <1>19, NextCases

-----------------------------------------------------------------------------
(* The invariant and what follows from it. *)

\* An empty data directory satisfies the invariant.
LEMMA InitInv ==
  ASSUME Init
  PROVE  StoreInv
<1>1. NoRecord \in TaskRecord /\ NoRecord.status = "none" /\ NoRecord.cancel = FALSE
      /\ NoRecord.events = 0
  BY ConstantsAssumption DEF NoRecord, TaskRecord, Statuses
<1>2. IdleWorker \in Worker /\ IdleWorker.phase = "idle" /\ IdleWorker.task = None
  BY DEF IdleWorker, Worker
<1>3. /\ \A t \in Tasks : rec[t] = NoRecord /\ starts[t] = 0 /\ accepted[t] = 0
      /\ \A s \in Scopes : manager[s] = "down"
      /\ \A s \in Scopes, w \in Workers : wk[s][w] = IdleWorker
      /\ \A s \in Scopes, t \in Tasks : pendingEvents[s][t] = 0
      /\ txn = NoTxn
  BY DEF Init
<1>4. txn \in TxnType /\ txn.op = "none"
  BY <1>3, NoHolder
<1>5. StoreTypeOK
  BY <1>1, <1>2, <1>4, ConstantsAssumption DEF Init, StoreTypeOK
<1>6. WorkerShape /\ WorkerOwns /\ RunningIsAttended /\ GenerationOrder
  BY <1>1, <1>2, <1>3
     DEF WorkerShape, WorkerOwns, RunningIsAttended, GenerationOrder, Serving
<1>7. LockHolder
  BY <1>3, <1>4 DEF LockHolder
<1>8. StartOrder /\ CancelOrder /\ CanceledUnrun
  BY <1>1, <1>2, <1>3 DEF StartOrder, CancelOrder, CanceledUnrun
<1>9. PendingOwned /\ EventBound
  BY <1>1, <1>3 DEF PendingOwned, EventBound
<1>10. EventsExactlyOnce
  BY <1>1, <1>2, <1>3 DEF EventsExactlyOnce, Terminal
<1> QED BY <1>5, <1>6, <1>7, <1>8, <1>9, <1>10 DEF StoreInv

\* Every step of every process keeps the invariant.
LEMMA StepInv ==
  ASSUME StoreInv, [Next]_vars
  PROVE  StoreInv'
<1>1. CASE Next
  <2>1. StoreTypeOK'
    BY <1>1, TypeStep
  <2>2. Ownership'
    BY <1>1, OwnershipStep
  <2>3. LockHolder'
    BY <1>1, LockStep
  <2>4. StartAndCancel'
    BY <1>1, StartAndCancelStep
  <2>5. Accounting'
    BY <1>1, EventStep
  <2> QED BY <2>1, <2>2, <2>3, <2>4, <2>5
          DEF StoreInv, Ownership, StartAndCancel, Accounting
<1>2. CASE UNCHANGED vars
  BY <1>2 DEF vars, StoreInv, StoreTypeOK, WorkerShape, WorkerOwns, RunningIsAttended,
              GenerationOrder, LockHolder, StartOrder, CancelOrder, CanceledUnrun,
              PendingOwned, EventBound, EventsExactlyOnce, Serving,
              RequireExecutionOwner
<1> QED BY <1>1, <1>2

\* StoreInv holds in every reachable state of any number of processes,
\* workers and tasks, with any number of crashes and storage failures.
THEOREM StoreInvariant == Spec => []StoreInv
<1>1. Init => StoreInv
  BY InitInv
<1>2. StoreInv /\ [Next]_vars => StoreInv'
  BY StepInv
<1> QED BY <1>1, <1>2, PTL DEF Spec

\* Records, workers, pending counts and the lock holder keep their types.
THEOREM TypeCorrect == Spec => []StoreTypeOK
<1>1. StoreInv => StoreTypeOK
  BY DEF StoreInv
<1> QED BY <1>1, StoreInvariant, PTL

\* No executor is polled for the first time twice for one task.
THEOREM ExecutedAtMostOnce == Spec => []AtMostOnce
<1>1. StoreInv => AtMostOnce
  BY DEF StoreInv, StartOrder, AtMostOnce
<1> QED BY <1>1, StoreInvariant, PTL

\* A worker in run_task owns the record it is executing.
THEOREM WorkersOwn == Spec => []WorkerOwns
<1>1. StoreInv => WorkerOwns
  BY DEF StoreInv
<1> QED BY <1>1, StoreInvariant, PTL

\* A running record of a serving scope is in the hands of one of its workers.
THEOREM RunningAttended == Spec => []RunningIsAttended
<1>1. StoreInv => RunningIsAttended
  BY DEF StoreInv
<1> QED BY <1>1, StoreInvariant, PTL

\* A recorded cancellation is never answered with completion.
THEOREM CancellationWins == Spec => []CancelWins
<1>1. StoreInv => CancelWins
  BY DEF StoreInv, CancelOrder, CancelWins
<1> QED BY <1>1, StoreInvariant, PTL

\* A task closed while it was queued was never started.
THEOREM CanceledBeforeRun == Spec => []CanceledUnrun
<1>1. StoreInv => CanceledUnrun
  BY DEF StoreInv
<1> QED BY <1>1, StoreInvariant, PTL

\* Every accepted event is on disk or pending, exactly once.
THEOREM EventsAccounted == Spec => []EventsExactlyOnce
<1>1. StoreInv => EventsExactlyOnce
  BY DEF StoreInv
<1> QED BY <1>1, StoreInvariant, PTL

\* Events are pending only with the owner of the record they belong to.
THEOREM PendingWithOwner == Spec => []PendingOwned
<1>1. StoreInv => PendingOwned
  BY DEF StoreInv
<1> QED BY <1>1, StoreInvariant, PTL
-----------------------------------------------------------------------------
(* The queue file. *)

\* A queue of tasks that lists none twice.
QueueOf(q) ==
    q \in Seq(Tasks) /\ \A i, j \in 1..Len(q) : q[i] = q[j] => i = j

\* One queue after another lists no task twice if they share none.
LEMMA QueuesJoined ==
  ASSUME NEW p, NEW q, QueueOf(p), QueueOf(q),
         \A i \in 1..Len(p), j \in 1..Len(q) : p[i] # q[j]
  PROVE  QueueOf(p \o q)
<1>1. /\ p \in Seq(Tasks) /\ q \in Seq(Tasks) /\ Len(p) \in Nat /\ Len(q) \in Nat
      /\ \A i, j \in 1..Len(p) : p[i] = p[j] => i = j
      /\ \A i, j \in 1..Len(q) : q[i] = q[j] => i = j
  BY DEF QueueOf
<1>2. PICK r : r = p \o q
  OBVIOUS
<1>3. r \in Seq(Tasks) /\ Len(r) = Len(p) + Len(q)
  BY <1>1, <1>2
<1>4. \A i \in 1..Len(r) : r[i] = IF i <= Len(p) THEN p[i] ELSE q[i - Len(p)]
  BY <1>1, <1>2, <1>3
<1>5. ASSUME NEW i \in 1..Len(r), NEW j \in 1..Len(r), r[i] = r[j]
      PROVE  i = j
  <2>1. CASE i <= Len(p) /\ j <= Len(p)
    <3>1. i \in 1..Len(p) /\ j \in 1..Len(p) /\ p[i] = p[j]
      BY <1>1, <1>4, <1>5, <2>1
    <3> QED
      BY <1>1, <3>1
  <2>2. CASE i <= Len(p) /\ ~(j <= Len(p))
    <3>1. i \in 1..Len(p) /\ j - Len(p) \in 1..Len(q) /\ p[i] = q[j - Len(p)]
      BY <1>1, <1>3, <1>4, <1>5, <2>2
    <3> QED
      BY <3>1
  <2>3. CASE ~(i <= Len(p)) /\ j <= Len(p)
    <3>1. j \in 1..Len(p) /\ i - Len(p) \in 1..Len(q) /\ p[j] = q[i - Len(p)]
      BY <1>1, <1>3, <1>4, <1>5, <2>3
    <3> QED
      BY <3>1
  <2>4. CASE ~(i <= Len(p)) /\ ~(j <= Len(p))
    <3>1. /\ i - Len(p) \in 1..Len(q) /\ j - Len(p) \in 1..Len(q)
          /\ q[i - Len(p)] = q[j - Len(p)]
      BY <1>1, <1>3, <1>4, <1>5, <2>4
    <3>2. i - Len(p) = j - Len(p)
      BY <1>1, <3>1
    <3> QED
      BY <1>1, <1>3, <3>2
  <2> QED
    BY <2>1, <2>2, <2>3, <2>4
<1> QED
  BY <1>2, <1>3, <1>5 DEF QueueOf

\* Retaining entries of a queue leaves a queue.
LEMMA QueueRetained ==
  ASSUME NEW q, QueueOf(q), NEW keep
  PROVE  QueueOf(Retained(q, keep))
BY RetainedOnce DEF QueueOf

\* load_state repairs the queue without listing a task twice.
LEMMA LoadedQueue ==
  ASSUME QueueOf(queueFile), NEW q \in LoadedQueues
  PROVE  QueueOf(q)
<1>1. PICK known : known = Retained(queueFile, QueuedTasks)
  OBVIOUS
<1>2. PICK missing : missing = QueuedTasks \ ToSet(known)
  OBVIOUS
<1>3. PICK order \in SetToSeqs(missing) : q = known \o order
  BY <1>1, <1>2 DEF LoadedQueues
<1>4. QueueOf(known)
  BY <1>1, QueueRetained
<1>5. missing \subseteq Tasks
  BY <1>2 DEF QueuedTasks
<1>6. PICK n : n = Cardinality(missing)
  OBVIOUS
<1>7. n \in Nat
  BY <1>5, <1>6, FiniteTasksAssumption, FS_Subset, FS_CardinalityType
<1>8. order \in [1..n -> missing] /\ \A i, j \in 1..n : i # j => order[i] # order[j]
  BY <1>3, <1>6 DEF SetToSeqs
<1>9. order \in Seq(missing) /\ Len(order) = n
  BY <1>7, <1>8
<1>10. QueueOf(order)
  BY <1>5, <1>8, <1>9 DEF QueueOf
<1>11. \A i \in 1..Len(known), j \in 1..Len(order) : known[i] # order[j]
  <2>1. DOMAIN known = 1..Len(known)
    BY <1>4 DEF QueueOf
  <2>2. \A j \in 1..Len(order) : order[j] \in missing
    BY <1>8, <1>9
  <2> QED
    BY <1>2, <2>1, <2>2 DEF ToSet
<1> QED
  BY <1>3, <1>4, <1>10, <1>11, QueuesJoined

\* Admission adds a task that the queue does not list.
LEMMA QueueAppended ==
  ASSUME NEW q, QueueOf(q), NEW t \in Tasks
  PROVE  QueueOf(IF t \in ToSet(q) THEN q ELSE Append(q, t))
<1>1. CASE t \notin ToSet(q)
  <2>1. q \in Seq(Tasks) /\ Len(q) \in Nat /\ DOMAIN q = 1..Len(q)
        /\ \A i, j \in 1..Len(q) : q[i] = q[j] => i = j
    BY DEF QueueOf
  <2>2. \A i \in 1..Len(q) : q[i] # t
    BY <1>1, <2>1 DEF ToSet
  <2>3. PICK r : r = Append(q, t)
    OBVIOUS
  <2>4. /\ r \in Seq(Tasks) /\ Len(r) = Len(q) + 1 /\ r[Len(q) + 1] = t
        /\ \A i \in 1..Len(q) : r[i] = q[i]
    BY <2>1, <2>3
  <2>5. ASSUME NEW i \in 1..Len(r), NEW j \in 1..Len(r), r[i] = r[j]
        PROVE  i = j
    <3>1. i \in 1..Len(q) \/ i = Len(q) + 1
      BY <2>1, <2>4
    <3>2. j \in 1..Len(q) \/ j = Len(q) + 1
      BY <2>1, <2>4
    <3> QED
      BY <2>1, <2>2, <2>4, <2>5, <3>1, <3>2
  <2>6. QueueOf(r)
    BY <2>4, <2>5 DEF QueueOf
  <2> QED
    BY <1>1, <2>3, <2>6
<1> QED
  BY <1>1

\* Every step writes a queue or leaves the file alone.
LEMMA QueueStep ==
  ASSUME StoreInv, QueueOf(queueFile), [Next]_vars
  PROVE  QueueOf(queueFile')
<1> USE DEF durable, volatile, history
<1>1. ASSUME queueFile' = queueFile PROVE QueueOf(queueFile')
  BY <1>1
<1>2. ASSUME queueFile' \in LoadedQueues PROVE QueueOf(queueFile')
  BY <1>2, LoadedQueue
<1>3. ASSUME NEW s \in Scopes, ManagerStep(s) PROVE QueueOf(queueFile')
  <2>1. CASE StartReady(s)
    BY <1>2, <2>1 DEF StartReady
  <2>2. CASE AdmitQueue(s)
    <3>1. txn.task \in Tasks
      BY <2>2 DEF AdmitQueue, Admitting, StoreInv, LockHolder
    <3>2. PICK q \in LoadedQueues :
             queueFile' = IF txn.task \in ToSet(q) THEN q ELSE Append(q, txn.task)
      BY <2>2 DEF AdmitQueue
    <3>3. QueueOf(q)
      BY LoadedQueue
    <3> QED
      BY <3>1, <3>2, <3>3, QueueAppended
  <2>3. CASE AdmitPromoteFails(s)
    BY <1>1, <2>3, QueueRetained DEF AdmitPromoteFails
  <2>4. CASE CancelQueue(s)
    BY <1>1, <1>2, <2>4 DEF CancelQueue
  <2>5. CASE \/ Start(s) \/ StartLoad(s) \/ StartRecover(s) \/ StartFails(s)
             \/ AdmitPromote(s) \/ AdmitQueueFails(s)
             \/ Shutdown(s) \/ Exit(s) \/ Crash(s)
    BY <1>1, <2>5 DEF Start, StartLoad, StartRecover, StartFails, AdmitPromote,
                      AdmitQueueFails, Shutdown, Exit, Crash
  <2> QED
    BY <1>3, <2>1, <2>2, <2>3, <2>4, <2>5 DEF ManagerStep
<1>4. ASSUME NEW s \in Scopes, NEW w \in Workers, WorkerStep(s, w)
      PROVE  QueueOf(queueFile')
  <2>1. CASE Claim(s, w)
    <3>1. PICK q \in LoadedQueues : \E i \in DOMAIN q :
             queueFile' = Retained(q, Tasks \ {q[i]})
      BY <2>1 DEF Claim
    <3>2. QueueOf(q)
      BY LoadedQueue
    <3> QED
      BY <3>1, <3>2, QueueRetained
  <2>2. CASE \/ ClaimCommit(s, w) \/ ClaimFails(s, w) \/ RunBegin(s, w)
             \/ PollStore(s, w) \/ StorageTrouble(s, w) \/ SeeShutdown(s, w)
    BY <1>1, <2>2 DEF ClaimCommit, ClaimFails, RunBegin, PollStore,
                      StorageTrouble, SeeShutdown
  <2>3. CASE \/ ExecutionEvent(s, w) \/ FlushTask(s, w) \/ ExecEnd(s, w)
             \/ FinishTask(s, w) \/ FinishFails(s, w)
    BY <1>1, <2>3 DEF ExecutionEvent, FlushTask, ExecEnd, FinishTask, FinishFails
  <2> QED
    BY <1>4, <2>1, <2>2, <2>3 DEF WorkerStep
<1>5. ASSUME NEW s \in Scopes, NEW t \in Tasks, RequestStep(s, t)
      PROVE  QueueOf(queueFile')
  BY <1>1, <1>5 DEF RequestStep, AdmitStage, RecoverStage, CancelTask, RecordMetadata
<1>6. CASE UNCHANGED vars
  BY <1>1, <1>6 DEF vars
<1> QED
  BY <1>3, <1>4, <1>5, <1>6 DEF Next

\* Records, workers and the lock holder keep their types, and queue.json
\* never lists a task twice, whichever of its writes failed or was cut off.
THEOREM QueueListsOnce == Spec => []TypeOK
<1>1. Init => StoreInv /\ QueueOf(queueFile)
  <2>1. Init => QueueOf(queueFile)
    BY DEF Init, QueueOf
  <2> QED
    BY <2>1, InitInv
<1>2. StoreInv /\ QueueOf(queueFile) /\ [Next]_vars => StoreInv' /\ QueueOf(queueFile')
  BY StepInv, QueueStep
<1>3. StoreInv /\ QueueOf(queueFile) => TypeOK
  BY DEF StoreInv, TypeOK, QueueOf, IsInjective
<1>4. QueueOf(queueFile') <=> QueueOf(queueFile)'
  BY DEF QueueOf
<1> QED
  BY <1>1, <1>2, <1>3, <1>4, PTL DEF Spec
=============================================================================
