------------------------ MODULE TaskLifecycleProofs ------------------------
(***************************************************************************)
(* The task store implements TaskLifecycle, and terminal records stay as   *)
(* they are.  Both rest on one observation: whatever a step does to files, *)
(* locks and workers, it changes the lifecycle of at most one task, in one *)
(* of the ways LifeCases lists.                                            *)
(***************************************************************************)
EXTENDS TaskStoreProofs

\* The step shows nothing: statuses, requests, reasons and starts stay.
LifeKept ==
    /\ starts' = starts
    /\ \A x \in Tasks : /\ rec'[x].status = rec[x].status
                        /\ rec'[x].cancel = rec[x].cancel
                        /\ rec'[x].reason = rec[x].reason

\* The record of task t alone moves along the lifecycle.
LifeMoves(t) ==
    /\ starts' = starts
    /\ \A x \in Tasks : x # t => rec'[x] = rec[x]
    /\ \/ /\ rec[t].status = "none" /\ rec'[t].status = "queued"
          /\ rec'[t].cancel = rec[t].cancel
       \/ /\ rec[t].status = "queued" /\ rec'[t].status \in {"running", "canceled"}
          /\ rec'[t].cancel = rec[t].cancel
       \/ /\ rec[t].status = "running" /\ rec'[t].status = "running"
          /\ rec'[t].cancel = TRUE
       \/ /\ rec[t].status = "running" /\ rec'[t].status \in Terminal
          /\ rec'[t].cancel = rec[t].cancel
          /\ rec'[t].status = "completed" => starts[t] = 1 /\ ~rec[t].cancel

\* The executor of task t is polled for the first time.
LifeBegins(t) ==
    /\ rec' = rec
    /\ rec[t].status = "running"
    /\ starts[t] = 0
    /\ starts' = [starts EXCEPT ![t] = 1]

\* Every step of every process is one of the three.
LEMMA LifeCases ==
  ASSUME StoreInv, Next
  PROVE  LifeKept \/ \E t \in Tasks : LifeMoves(t) \/ LifeBegins(t)
<1> USE DEF durable, volatile, history
<1>1. /\ StoreTypeOK /\ WorkerShape /\ WorkerOwns /\ LockHolder /\ StartOrder
      /\ CancelOrder /\ EventBound
  BY DEF StoreInv
<1>2. ASSUME rec' = rec, starts' = starts PROVE LifeKept
  BY <1>2 DEF LifeKept
<1>3. CASE Quiet
  BY <1>2, <1>3 DEF Quiet
<1>4. ASSUME NEW s \in Scopes,
             \/ Start(s) \/ StartReady(s) \/ StartFails(s)
             \/ Shutdown(s) \/ Exit(s) \/ Crash(s)
      PROVE  LifeKept
  BY <1>2, <1>4 DEF Start, StartReady, StartFails, Shutdown, Exit, Crash
<1>5. ASSUME NEW s \in Scopes, StartRecover(s)
      PROVE  LifeKept \/ \E t \in Tasks : LifeMoves(t)
  <2>1. PICK t \in txn.todo :
           /\ t \in Tasks /\ rec[t].status = "running"
           /\ \A x \in Tasks : x # t => rec'[x] = rec[x]
           /\ \/ rec'[t] = rec[t]
              \/ rec'[t].status = "failed" /\ rec'[t].cancel = rec[t].cancel
    BY <1>5, RecoverEffect
  <2>2. starts' = starts
    BY <1>5 DEF StartRecover
  <2>3. CASE rec'[t] = rec[t]
    BY <2>1, <2>2, <2>3 DEF LifeKept
  <2>4. CASE rec'[t].status = "failed" /\ rec'[t].cancel = rec[t].cancel
    BY <2>1, <2>2, <2>4 DEF LifeMoves, Terminal
  <2> QED BY <2>1, <2>3, <2>4
<1>6. ASSUME NEW s \in Scopes, AdmitPromote(s)
      PROVE  \E t \in Tasks : LifeMoves(t)
  <2>1. /\ txn.task \in Tasks /\ rec[txn.task].status = "none"
        /\ rec'[txn.task].status = "queued" /\ rec'[txn.task].cancel = FALSE
        /\ \A x \in Tasks : x # txn.task => rec'[x] = rec[x]
    BY <1>6, PromoteEffect
  <2>2. starts' = starts
    BY <1>6 DEF AdmitPromote
  <2>3. rec[txn.task].cancel = FALSE
    BY <1>1, <2>1, ZenonT(30) DEF CancelOrder, StoreTypeOK, TaskRecord
  <2> QED BY <2>1, <2>2, <2>3 DEF LifeMoves
<1>7. ASSUME NEW s \in Scopes, NEW w \in Workers, ClaimCommit(s, w)
      PROVE  \E t \in Tasks : LifeMoves(t)
  <2>1. /\ txn.task \in Tasks
        /\ rec[txn.task].status = "queued" /\ rec'[txn.task].status = "running"
        /\ rec'[txn.task].cancel = rec[txn.task].cancel
        /\ \A x \in Tasks : x # txn.task => rec'[x] = rec[x]
    BY <1>7, ClaimEffect
  <2>2. starts' = starts
    BY <1>7 DEF ClaimCommit
  <2> QED BY <2>1, <2>2 DEF LifeMoves
<1>8. ASSUME NEW s \in Scopes, NEW w \in Workers, RunBegin(s, w)
      PROVE  LifeKept \/ \E t \in Tasks : LifeBegins(t)
  <2> DEFINE t == wk[s][w].task
  <2>1. /\ t \in Tasks /\ wk[s][w].phase = "claimed"
        /\ \/ /\ starts'[t] = starts[t] + 1
              /\ \A x \in Tasks : x # t => starts'[x] = starts[x]
           \/ starts' = starts
    BY <1>8, RunBeginEffect
  <2>2. rec' = rec
    BY <1>8 DEF RunBegin
  <2>3. starts[t] = 0 /\ rec[t].status = "running"
    BY <1>1, <2>1 DEF StartOrder, WorkerOwns, RequireExecutionOwner
  <2> HIDE DEF t
  <2>4. CASE starts' = starts
    BY <1>2, <2>2, <2>4
  <2>5. CASE /\ starts'[t] = starts[t] + 1
             /\ \A x \in Tasks : x # t => starts'[x] = starts[x]
    <3>1. starts \in [Tasks -> Nat] /\ starts' \in [Tasks -> Nat]
      BY <1>1, TypeStep DEF StoreTypeOK
    <3>2. starts' = [starts EXCEPT ![t] = 1]
      BY <2>1, <2>3, <2>5, <3>1
    <3> QED BY <2>1, <2>2, <2>3, <3>2 DEF LifeBegins
  <2> QED BY <2>1, <2>4, <2>5
<1>9. ASSUME NEW s \in Scopes, NEW w \in Workers, ExecEnd(s, w)
      PROVE  LifeKept
  BY <1>2, <1>9 DEF ExecEnd
<1>10. ASSUME NEW s \in Scopes, NEW w \in Workers, ExecutionEvent(s, w)
       PROVE  LifeKept
  <2>1. /\ OwnersKept
        /\ \A x \in Tasks : rec'[x].cancel = rec[x].cancel
                           /\ rec'[x].reason = rec[x].reason
    BY <1>10, EventEffect
  <2>2. starts' = starts
    BY <1>10 DEF ExecutionEvent
  <2> QED BY <2>1, <2>2 DEF LifeKept, OwnersKept
<1>11. ASSUME NEW s \in Scopes, NEW t \in Tasks, Persist(s, t, Loaded(s, t)),
              starts' = starts
       PROVE  LifeKept
  <2>1. /\ OwnersKept
        /\ \A x \in Tasks : /\ rec'[x].cancel = rec[x].cancel
                           /\ rec'[x].reason = rec[x].reason
    BY <1>1, <1>11, RewriteEffect
  <2> QED BY <1>11, <2>1 DEF LifeKept, OwnersKept
<1>12. ASSUME NEW s \in Scopes, NEW w \in Workers, FlushTask(s, w)
       PROVE  LifeKept
  <2>1. wk[s][w].task \in Tasks
    BY <1>1, <1>12, BusyHasTask DEF FlushTask
  <2> QED BY <1>11, <1>12, <2>1 DEF FlushTask
<1>13. ASSUME NEW s \in Scopes, NEW w \in Workers, FinishTask(s, w)
       PROVE  \E t \in Tasks : LifeMoves(t)
  <2> DEFINE t == wk[s][w].task
  <2>1. /\ t \in Tasks /\ wk[s][w].phase = "ended"
        /\ rec[t].status = "running" /\ rec'[t].status \in Terminal
        /\ rec'[t].status = "completed" => wk[s][w].result = "completed" /\ ~rec[t].cancel
        /\ rec'[t].cancel = rec[t].cancel
        /\ \A x \in Tasks : x # t => rec'[x] = rec[x]
    BY <1>13, FinishEffect
  <2>2. starts' = starts
    BY <1>13 DEF FinishTask
  <2>3. wk[s][w].result = "completed" => starts[t] = 1
    BY <1>1, <2>1 DEF StartOrder
  <2> HIDE DEF t
  <2> QED BY <2>1, <2>2, <2>3 DEF LifeMoves
<1>14. ASSUME NEW s \in Scopes, NEW t \in Tasks, CancelTask(s, t)
       PROVE  LifeKept \/ \E x \in Tasks : LifeMoves(x)
  <2>1. /\ \A x \in Tasks : x # t => rec'[x] = rec[x]
        /\ rec'[t].reason = rec[t].reason
        /\ \/ rec'[t].status = rec[t].status /\ rec'[t].cancel = rec[t].cancel
           \/ /\ rec[t].status = "queued" /\ rec'[t].status = "canceled"
              /\ rec'[t].cancel = rec[t].cancel
           \/ /\ rec[t].status = "running" /\ rec'[t].status = "running"
              /\ rec'[t].cancel = TRUE
    BY <1>14, CancelEffect
  <2>2. starts' = starts
    BY <1>14 DEF CancelTask
  <2>3. CASE rec'[t].status = rec[t].status /\ rec'[t].cancel = rec[t].cancel
    BY <2>1, <2>2, <2>3 DEF LifeKept
  <2>4. CASE \/ /\ rec[t].status = "queued" /\ rec'[t].status = "canceled"
                /\ rec'[t].cancel = rec[t].cancel
             \/ /\ rec[t].status = "running" /\ rec'[t].status = "running"
                /\ rec'[t].cancel = TRUE
    BY <2>1, <2>2, <2>4 DEF LifeMoves
  <2> QED BY <2>1, <2>3, <2>4
<1>15. ASSUME NEW s \in Scopes, NEW t \in Tasks, RecordMetadata(s, t)
       PROVE  LifeKept
  BY <1>11, <1>15 DEF RecordMetadata
<1> QED BY <1>3, <1>4, <1>5, <1>6, <1>7, <1>8, <1>9, <1>10, <1>12, <1>13, <1>14,
           <1>15, NextCases

\* A terminal record keeps its status and its reason for ever.
THEOREM OutcomesFinal == Spec => TerminalFinal
<1> DEFINE Kept == \A t \in Tasks : rec[t].status \in Terminal
                     => rec'[t].status = rec[t].status /\ rec'[t].reason = rec[t].reason
<1>1. ASSUME StoreInv, [Next]_vars
      PROVE  Kept
  <2>1. CASE Next
    <3>1. CASE LifeKept
      BY <3>1 DEF LifeKept
    <3>2. CASE \E t \in Tasks : LifeMoves(t) \/ LifeBegins(t)
      BY <3>2 DEF LifeMoves, LifeBegins, Terminal
    <3> QED BY <1>1, <2>1, <3>1, <3>2, LifeCases
  <2>2. CASE UNCHANGED vars
    BY <2>2 DEF vars
  <2> QED BY <1>1, <2>1, <2>2
<1>2. StoreInv /\ [Next]_vars => [Kept]_vars
  BY <1>1
<1> QED BY <1>2, StoreInvariant, PTL DEF Spec, TerminalFinal

\* Each step of the store is a step of the lifecycle or changes nothing that
\* the lifecycle shows.
LEMMA LifecycleStep ==
  ASSUME StoreInv, [Next]_vars
  PROVE  [Lifecycle!LifecycleNext]_(Lifecycle!lifecycleVars)
<1> DEFINE life == [t \in Tasks |-> rec[t].status]
           asked == [t \in Tasks |-> rec[t].cancel]
<1>1. StoreTypeOK
  BY DEF StoreInv
<1>2. CASE LifeKept \/ UNCHANGED vars
  <2>1. life' = life /\ asked' = asked /\ starts' = starts
    BY <1>2 DEF LifeKept, vars
  <2> QED BY <2>1 DEF Lifecycle!lifecycleVars
<1>3. ASSUME NEW t \in Tasks, LifeMoves(t)
      PROVE  Lifecycle!LifecycleNext
  <2>1. /\ life' = [life EXCEPT ![t] = rec'[t].status]
        /\ asked' = [asked EXCEPT ![t] = rec'[t].cancel]
        /\ starts' = starts
    BY <1>3 DEF LifeMoves
  <2>2. rec'[t].cancel = rec[t].cancel => asked' = asked
    BY <2>1
  <2>3. rec'[t].status = rec[t].status => life' = life
    BY <2>1
  <2>4. CASE /\ rec[t].status = "none" /\ rec'[t].status = "queued"
             /\ rec'[t].cancel = rec[t].cancel
    <3>1. Lifecycle!Accept(t)
      BY <2>1, <2>2, <2>4 DEF Lifecycle!Accept
    <3> QED BY <3>1 DEF Lifecycle!LifecycleNext
  <2>5. CASE /\ rec[t].status = "queued" /\ rec'[t].status = "running"
             /\ rec'[t].cancel = rec[t].cancel
    <3>1. Lifecycle!Take(t)
      BY <2>1, <2>2, <2>5 DEF Lifecycle!Take
    <3> QED BY <3>1 DEF Lifecycle!LifecycleNext
  <2>6. CASE /\ rec[t].status = "queued" /\ rec'[t].status = "canceled"
             /\ rec'[t].cancel = rec[t].cancel
    <3>1. Lifecycle!Cancel(t)
      BY <2>1, <2>2, <2>6 DEF Lifecycle!Cancel
    <3> QED BY <3>1 DEF Lifecycle!LifecycleNext
  <2>7. CASE /\ rec[t].status = "running" /\ rec'[t].status = "running"
             /\ rec'[t].cancel = TRUE
    <3>1. Lifecycle!Cancel(t)
      BY <2>1, <2>3, <2>7 DEF Lifecycle!Cancel
    <3> QED BY <3>1 DEF Lifecycle!LifecycleNext
  <2>8. CASE /\ rec[t].status = "running" /\ rec'[t].status \in Terminal
             /\ rec'[t].cancel = rec[t].cancel
             /\ rec'[t].status = "completed" => starts[t] = 1 /\ ~rec[t].cancel
    <3>1. PICK how \in Lifecycle!Ends : how = rec'[t].status
      BY <2>8 DEF Terminal, Lifecycle!Ends
    <3>2. Lifecycle!End(t, how)
      BY <2>1, <2>2, <2>8, <3>1 DEF Lifecycle!End
    <3> QED BY <3>1, <3>2 DEF Lifecycle!LifecycleNext
  <2> QED BY <1>3, <2>4, <2>5, <2>6, <2>7, <2>8 DEF LifeMoves
<1>4. ASSUME NEW t \in Tasks, LifeBegins(t)
      PROVE  Lifecycle!LifecycleNext
  <2>1. Lifecycle!Execute(t)
    BY <1>4 DEF LifeBegins, Lifecycle!Execute
  <2> QED BY <2>1 DEF Lifecycle!LifecycleNext
<1> QED BY <1>2, <1>3, <1>4, LifeCases

\* The store, read through record status, recorded cancellation and starts,
\* implements TaskLifecycle.
THEOREM StoreImplementsLifecycle == Spec => ImplementsLifecycle
<1>1. Init => Lifecycle!LifecycleInit
  BY DEF Init, Lifecycle!LifecycleInit, NoRecord
<1>2. StoreInv /\ [Next]_vars => [Lifecycle!LifecycleNext]_(Lifecycle!lifecycleVars)
  BY LifecycleStep
<1> QED BY <1>1, <1>2, StoreInvariant, PTL
        DEF Spec, ImplementsLifecycle, Lifecycle!LifecycleSpec
=============================================================================
