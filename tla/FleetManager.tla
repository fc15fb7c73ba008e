---------------------------- MODULE FleetManager ----------------------------
(***************************************************************************)
(* A Fleet run: the ledger (engine/src/fleet/ledger.rs), the driver that   *)
(* leases its tasks, starts worker processes and records their outcomes    *)
(* (manager.rs run_to_completion, with executor.rs), the coordination      *)
(* records of WorkerRecords, and operators who restart, interrupt, stop    *)
(* and resume from processes of their own (manager.rs, scheduler.rs).      *)
(*                                                                         *)
(* The ledger file is rewritten under a lock: each of its compare-and-set  *)
(* calls is one step.  A call acts on what it read before, so the driver   *)
(* and the operators carry snapshots.  The records are on disk and, as     *)
(* they were when it last looked, in the driver's memory.                  *)
(*                                                                         *)
(* Each task has a worker of its own.  A batch of events of one append     *)
(* counts as one in seq.                                                   *)
(***************************************************************************)
EXTENDS WorkerRecords, FiniteSets

CONSTANTS
    Tasks, Operators, NoTask,
    MaxWorkers,    \* workers the run may use at once
    MaxAttempts,   \* retry_policy.max_attempts
    StaleAfter,    \* stale_after
    MaxTime,       \* bound: the last instant
    MaxCalls,      \* bound: operator calls
    MaxSeq,        \* bound: events after which a worker reports none
    MaxFaults      \* bound: failed appends and launches, processes that die

ASSUME FleetAssumption ==
    /\ {MaxWorkers, MaxAttempts, StaleAfter, MaxTime, MaxCalls, MaxSeq, MaxFaults}
          \subseteq Nat
    /\ MaxWorkers > 0
    /\ IsFiniteSet(Operators)
    /\ NoTask \notin Tasks

VARIABLES
    task,    \* the ledger: per task status, attempts, latest seq, heartbeat, receipt
    alerts,  \* the ledger: alerts sent, by task and attempt
    disk,    \* per task: the coordination record in the store
    rec,     \* per task: the record in the driver's memory
    stream,  \* per task: what the executor tracks
    proc,    \* per task and attempt: the worker process
    drv,     \* the driver: where it is in its tick
    op,      \* per operator: the call it is in
    clock, calls, faults

ledgerVars == <<task, alerts>>
recordVars == <<disk, rec>>
hostVars == <<stream, proc>>
bounds == <<clock, calls, faults>>
fleetVars == <<ledgerVars, recordVars, hostVars, drv, op, bounds>>

Attempts == 1..(MaxCalls + 1)

NewTask == [status |-> "enqueued", attempts |-> 0, seq |-> 0, hb |-> 0, receipt |-> 0]

\* pending is the retained terminal outcome: what was observed but not
\* recorded, or the status that was prepared for the ledger.
NoStream == [attempt |-> 0, stopped |-> FALSE, pending |-> "none"]

NoSnap == [t \in Tasks |-> NewTask]
Down == [pc |-> "down", todo |-> {}, cur |-> NoTask, snap |-> NoSnap,
         err |-> FALSE, ready |-> FALSE]
NoCall == [call |-> "none", todo |-> {}, cur |-> NoTask, snap |-> NoSnap, now |-> 0]

Init ==
    /\ task = [t \in Tasks |-> NewTask] /\ alerts = {}
    /\ disk = [t \in Tasks |-> NoRec] /\ rec = [t \in Tasks |-> NoRec]
    /\ stream = [t \in Tasks |-> NoStream]
    /\ proc = [t \in Tasks |-> [n \in Attempts |-> "none"]]
    /\ drv = [Down EXCEPT !.pc = "idle"]
    /\ op = [o \in Operators |-> NoCall]
    /\ clock = 0 /\ calls = 0 /\ faults = 0

-----------------------------------------------------------------------------
(* The ledger.                                                              *)

Leased(s) == s.status = "leased"
Active(s) == s.status \in {"enqueued", "leased"}

LeasedFor(t, n) == Leased(task[t]) /\ task[t].attempts = n

\* Mutant: any attempt of the task may be finalized.
Finalized_AnyAttempt(t, n, status) ==
    IF Leased(task[t])
    THEN [task EXCEPT ![t].status = status, ![t].seq = @ + 1, ![t].receipt = n]
    ELSE task

\* finalize_task_attempt_with_tail_if_leased.
Finalized(t, n, status) ==
    IF LeasedFor(t, n)
    THEN [task EXCEPT ![t].status = status, ![t].seq = @ + 1, ![t].receipt = n]
    ELSE task

\* TaskLeased with its events and its heartbeat.
Leasing(t, now) ==
    [task EXCEPT ![t].status = "leased", ![t].attempts = @ + 1,
                 ![t].seq = @ + 1, ![t].hb = now]

Canceling(t) ==
    IF Active(task[t])
    THEN [task EXCEPT ![t].status = "cancelled", ![t].seq = @ + 1]
    ELSE task

Tracked == {t \in Tasks : stream[t].attempt > 0}
Open == {t \in Tasks : Active(task[t])}

-----------------------------------------------------------------------------
(* The driver.  Its tick: reconcile, heartbeat, lease; reconcile with what  *)
(* the executor saw stop, start what is leased, attend to every process;    *)
(* reconcile again.                                                         *)

At(pc) == drv.pc = pc
Goto(pc, todo, snap) == drv' = [drv EXCEPT !.pc = pc, !.todo = todo, !.snap = snap]

\* A call of the tick returned an error.
Abort == drv' = [drv EXCEPT !.pc = "end", !.todo = {}, !.snap = NoSnap, !.err = TRUE]

Fault == faults < MaxFaults /\ faults' = faults + 1

Refreshed(t) == IF disk[t].gen > rec[t].gen THEN disk[t] ELSE rec[t]

NoEvidence == [t \in Tasks |-> 0]
Evidence == [t \in Tasks |-> IF stream[t].stopped THEN stream[t].attempt ELSE 0]

\* The tasks whose records reconciliation looks at.
Recorded(snap) == {t \in Tasks : Refreshed(t).gen > 0 /\ snap[t].attempts > 0}

RefusedIn(snap, ev) == {t \in Recorded(snap) : Refused(Refreshed(t), snap[t], ev[t])}

Verdict(snap, ev) ==
    IF RefusedIn(snap, ev) # {} THEN "error"
    ELSE IF \E t \in Recorded(snap) : Waiting(Refreshed(t), snap[t], ev[t]) THEN "wait"
    ELSE "ready"

\* reconcile_coordination_worker_statuses in one store transaction.  When it
\* fails, records before the one that was refused have been written, and the
\* memory is read again from the store.
Reconcile(snap, ev) ==
    LET new(t) == IF t \in Recorded(snap) THEN Projected(Refreshed(t), snap[t], ev[t])
                  ELSE Refreshed(t)
    IN  IF RefusedIn(snap, ev) = {}
        THEN /\ rec' = [t \in Tasks |-> new(t)]
             /\ disk' = [t \in Tasks |-> Merged(disk[t], new(t))]
        ELSE \E written \in SUBSET (Recorded(snap) \ RefusedIn(snap, ev)) :
                /\ disk' = [t \in Tasks |->
                              IF t \in written THEN Merged(disk[t], new(t)) ELSE disk[t]]
                /\ rec' = disk'

\* What the driver uses of a ledger it read.
View == [t \in Tasks |-> [task[t] EXCEPT !.seq = 0, !.hb = 0]]

\* The loop of run_to_completion goes on while a worker is tracked, or work is
\* open and the tick did not fail.
BeginTick ==
    /\ \/ At("idle")
       \/ At("end") /\ (Tracked # {} \/ (~drv.err /\ Open # {}))
    /\ drv' = [Down EXCEPT !.pc = "schedule", !.snap = View]
    /\ UNCHANGED <<ledgerVars, recordVars, hostVars, op, bounds>>

\* schedule_run_excluding: the reconciliation before it schedules.
Schedule ==
    /\ At("schedule")
    /\ Reconcile(drv.snap, NoEvidence)
    /\ LET v == Verdict(drv.snap, NoEvidence)
       IN  drv' = [drv EXCEPT !.pc = IF v = "ready" THEN "beat" ELSE "drive",
                              !.snap = NoSnap, !.err = v = "error"]
    /\ UNCHANGED <<ledgerVars, hostVars, op, bounds>>

\* The leased workers without a heartbeat of this instant get one, which the
\* snapshot carries, whatever becomes of their leases meanwhile.
ReadLeases ==
    /\ At("beat")
    /\ Goto("beating", {t \in Tasks : Leased(task[t]) /\ task[t].hb # clock},
            [t \in Tasks |-> [NewTask EXCEPT !.hb = clock]])
    /\ UNCHANGED <<ledgerVars, recordVars, hostVars, op, bounds>>

Beat(t) ==
    /\ At("beating") /\ t \in drv.todo
    /\ task' = [task EXCEPT ![t].hb = drv.snap[t].hb]
    /\ Goto("beating", drv.todo \ {t}, drv.snap)
    /\ UNCHANGED <<alerts, recordVars, hostVars, op, bounds>>

EndBeat ==
    /\ At("beating") /\ drv.todo = {}
    /\ Goto("lease", {}, NoSnap)
    /\ UNCHANGED <<ledgerVars, recordVars, hostVars, op, bounds>>

Admissible ==
    LET busy == {t \in Tasks : Leased(task[t])} \cup Tracked
    IN  IF Cardinality(busy) >= MaxWorkers THEN {}
        ELSE {t \in Tasks \ busy : task[t].status = "enqueued"}

\* start_worker_task: the record is persisted before the lease is visible.
Lease(t) ==
    /\ At("lease") /\ t \in Admissible
    /\ rec' = [rec EXCEPT ![t] = Registered]
    /\ disk' = [disk EXCEPT ![t] = Merged(@, Registered)]
    /\ task' = Leasing(t, clock)
    /\ UNCHANGED <<alerts, hostVars, drv, op, bounds>>

\* An append fails: a registration is rolled back and scheduling ends.
LeaseFails ==
    /\ (At("lease") /\ Admissible # {}) \/ (At("beating") /\ drv.todo # {})
    /\ Fault
    /\ drv' = [Down EXCEPT !.pc = "drive", !.err = TRUE]
    /\ UNCHANGED <<ledgerVars, recordVars, hostVars, op, clock, calls>>

\* drive_executor_tick.
Drive ==
    /\ At("drive") \/ (At("lease") /\ Admissible = {})
    /\ Goto("reconcile", {}, View)
    /\ UNCHANGED <<ledgerVars, recordVars, hostVars, op, bounds>>

DriveReconcile ==
    /\ At("reconcile")
    /\ Reconcile(drv.snap, Evidence)
    /\ LET v == Verdict(drv.snap, Evidence)
       IN  drv' = [drv EXCEPT !.pc = "check", !.snap = NoSnap,
                              !.ready = v = "ready", !.err = @ \/ v = "error"]
    /\ UNCHANGED <<ledgerVars, hostVars, op, bounds>>

\* A worker whose attempt before has no tracked process any more.
Unacknowledged(t) == rec[t].unsettled /\ stream[t].attempt + 1 # rec[t].gen

Check ==
    /\ At("check")
    /\ IF \E t \in Tasks : Unacknowledged(t) THEN Abort
       ELSE IF drv.ready
            THEN Goto("start", {t \in Tasks \ Tracked : Leased(task[t])}, View)
            ELSE Goto("work", Tracked, NoSnap)
    /\ UNCHANGED <<ledgerVars, recordVars, hostVars, op, bounds>>

-----------------------------------------------------------------------------
(* start_leased_workers, one task of the snapshot at a time.  A task stays  *)
(* the one being started through its launch.                                *)

\* The record in memory is not of the attempt: the attempt fails unstarted.
RejectLaunch(t) ==
    /\ At("start") /\ t \in drv.todo
    /\ ~rec[t].unsettled /\ rec[t].gen # drv.snap[t].attempts
    /\ task' = Finalized(t, drv.snap[t].attempts, "failed")
    /\ Goto("start", drv.todo \ {t}, drv.snap)
    /\ UNCHANGED <<alerts, recordVars, hostVars, op, bounds>>

\* activate_registered_worker_attempt, on the record as the store has it.
Activate(t) ==
    /\ At("start") /\ t \in drv.todo
    /\ ~rec[t].unsettled /\ rec[t].gen = drv.snap[t].attempts
    /\ Launchable(Refreshed(t), drv.snap[t].attempts)
    /\ rec' = [rec EXCEPT ![t] = Activated(Refreshed(t))]
    /\ disk' = [disk EXCEPT ![t] = Merged(@, Activated(Refreshed(t)))]
    /\ drv' = [drv EXCEPT !.pc = "launch", !.cur = t]
    /\ UNCHANGED <<ledgerVars, hostVars, op, bounds>>

\* The tick ends; a failed store transaction reads the memory again.
RefuseLaunch(t) ==
    /\ At("start") /\ t \in drv.todo
    /\ \/ rec[t].unsettled
       \/ /\ rec[t].gen = drv.snap[t].attempts
          /\ ~Launchable(Refreshed(t), drv.snap[t].attempts)
    /\ rec' = IF rec[t].unsettled THEN rec ELSE disk
    /\ Abort
    /\ UNCHANGED <<ledgerVars, disk, hostVars, op, bounds>>

\* start_worker_attempt_on_host.
Launch ==
    /\ At("launch")
    /\ LET t == drv.cur
           n == drv.snap[t].attempts
       IN  /\ proc' = [proc EXCEPT ![t][n] = "alive"]
           /\ stream' = [stream EXCEPT ![t] = [NoStream EXCEPT !.attempt = n]]
    /\ drv' = [drv EXCEPT !.pc = "artifact"]
    /\ UNCHANGED <<ledgerVars, recordVars, op, bounds>>

LaunchFails ==
    /\ At("launch")
    /\ Fault
    /\ task' = Finalized(drv.cur, drv.snap[drv.cur].attempts, "failed")
    /\ drv' = [drv EXCEPT !.pc = "start", !.todo = @ \ {drv.cur}, !.cur = NoTask]
    /\ UNCHANGED <<alerts, recordVars, hostVars, op, clock, calls>>

Killed(t) == [proc EXCEPT ![t][stream[t].attempt] = IF @ = "alive" THEN "bad" ELSE @]

\* append_event_if_leased for the log artifact; a lease lost meanwhile stops
\* the process and forgets it.
Artifact ==
    /\ At("artifact")
    /\ LET t == drv.cur
       IN  IF LeasedFor(t, stream[t].attempt)
           THEN /\ task' = [task EXCEPT ![t].seq = @ + 1]
                /\ UNCHANGED hostVars
           ELSE /\ proc' = Killed(t)
                /\ stream' = [stream EXCEPT ![t] = NoStream]
                /\ UNCHANGED task
    /\ drv' = [drv EXCEPT !.pc = "start", !.todo = @ \ {drv.cur}, !.cur = NoTask]
    /\ UNCHANGED <<alerts, recordVars, op, bounds>>

EndStarting ==
    /\ At("start") /\ drv.todo = {}
    /\ Goto("work", Tracked, NoSnap)
    /\ UNCHANGED <<ledgerVars, recordVars, hostVars, op, bounds>>

-----------------------------------------------------------------------------
(* The loop over the tracked workers.                                       *)

Attended == drv' = [drv EXCEPT !.pc = "work", !.todo = @ \ {drv.cur}, !.cur = NoTask]

\* The lease of the tracked attempt is lost: its process is stopped.
Fence(t) ==
    /\ At("work") /\ t \in drv.todo
    /\ stream[t].pending \in {"none", "observed"} /\ ~LeasedFor(t, stream[t].attempt)
    /\ proc' = Killed(t)
    /\ stream' = [stream EXCEPT ![t].stopped = TRUE]
    /\ Goto("work", drv.todo \ {t}, NoSnap)
    /\ UNCHANGED <<ledgerVars, recordVars, op, bounds>>

Attend(t) ==
    /\ At("work") /\ t \in drv.todo
    /\ \/ stream[t].pending \in {"none", "observed"} /\ LeasedFor(t, stream[t].attempt)
          /\ drv' = [drv EXCEPT !.pc = "poll", !.cur = t]
       \/ stream[t].pending \in {"completed", "failed"}
          /\ drv' = [drv EXCEPT !.pc = "publish", !.cur = t]
    /\ UNCHANGED <<ledgerVars, recordVars, hostVars, op, bounds>>

ExitOf(t) == proc[t][stream[t].attempt]

\* poll_terminal_for_commit saw the exit; prepare_task_outcome needs the lease.
Observe ==
    /\ At("poll")
    /\ LET t == drv.cur
           held == LeasedFor(t, stream[t].attempt)
       IN  /\ ExitOf(t) # "alive"
           /\ stream' = [stream EXCEPT ![t].stopped = TRUE,
                           ![t].pending = IF ~held THEN "observed"
                                          ELSE IF ExitOf(t) = "ok" THEN "completed"
                                          ELSE "failed"]
           /\ IF held THEN drv' = [drv EXCEPT !.pc = "publish"] ELSE Attended
    /\ UNCHANGED <<ledgerVars, recordVars, proc, op, bounds>>

\* An event of the running process, for a lease that is still held.
Report ==
    /\ At("poll") /\ ExitOf(drv.cur) = "alive"
    /\ LeasedFor(drv.cur, stream[drv.cur].attempt) /\ task[drv.cur].seq < MaxSeq
    /\ task' = [task EXCEPT ![drv.cur].seq = @ + 1]
    /\ drv' = [drv EXCEPT !.pc = "stamp"]
    /\ UNCHANGED <<alerts, recordVars, hostVars, op, bounds>>

\* Its heartbeat, which is the worker's and asks for no lease.
Stamp ==
    /\ At("stamp")
    /\ task' = [task EXCEPT ![drv.cur].hb = clock]
    /\ drv' = [drv EXCEPT !.pc = "poll"]
    /\ UNCHANGED <<alerts, recordVars, hostVars, op, bounds>>

\* The process was not seen to end.
Running ==
    /\ At("poll") /\ ExitOf(drv.cur) = "alive"
    /\ drv' = [drv EXCEPT !.pc = "limit"]
    /\ UNCHANGED <<ledgerVars, recordVars, hostVars, op, bounds>>

WithinLimit ==
    /\ At("limit")
    /\ Attended
    /\ UNCHANGED <<ledgerVars, recordVars, hostVars, op, bounds>>

\* The wall clock limit passed: stop_worker, then prepare_task_timeout, also
\* when the process has ended since it was polled.
Timeout ==
    /\ At("limit")
    /\ LET t == drv.cur
           held == LeasedFor(t, stream[t].attempt)
       IN  /\ proc' = Killed(t)
           /\ stream' = [stream EXCEPT ![t].stopped = TRUE,
                                       ![t].pending = IF held THEN "failed" ELSE @]
           /\ IF held THEN drv' = [drv EXCEPT !.pc = "publish"] ELSE Attended
    /\ UNCHANGED <<ledgerVars, recordVars, op, bounds>>

\* publish_task_outcome.
Publish ==
    /\ At("publish")
    /\ task' = Finalized(drv.cur, stream[drv.cur].attempt, stream[drv.cur].pending)
    /\ Attended
    /\ UNCHANGED <<alerts, recordVars, hostVars, op, bounds>>

\* An append fails and ends the tick: an outcome is retained for the next.
AppendFails ==
    /\ drv.pc \in {"poll", "stamp", "publish"}
    /\ Fault
    /\ drv' = [Down EXCEPT !.pc = "end", !.err = TRUE]
    /\ UNCHANGED <<ledgerVars, recordVars, hostVars, op, clock, calls>>

EndWork ==
    /\ At("work") /\ drv.todo = {}
    /\ Goto("settle", {}, View)
    /\ UNCHANGED <<ledgerVars, recordVars, hostVars, op, bounds>>

\* Mutant: a stopped worker stays tracked.
Settle_Keeps ==
    /\ At("settle")
    /\ Reconcile(drv.snap, Evidence)
    /\ drv' = [Down EXCEPT !.pc = "end",
                           !.err = drv.err \/ Verdict(drv.snap, Evidence) = "error"]
    /\ UNCHANGED <<ledgerVars, hostVars, op, bounds>>

\* Stopped workers are forgotten once reconciliation has used the evidence.
Settle ==
    /\ At("settle")
    /\ Reconcile(drv.snap, Evidence)
    /\ stream' = [t \in Tasks |->
                    IF stream[t].stopped /\ Verdict(drv.snap, Evidence) = "ready"
                    THEN NoStream ELSE stream[t]]
    /\ drv' = [Down EXCEPT !.pc = "end",
                           !.err = drv.err \/ Verdict(drv.snap, Evidence) = "error"]
    /\ UNCHANGED <<ledgerVars, proc, op, bounds>>

\* The loop gives up when the tick failed and no worker is tracked, and
\* returns when nothing is left.
GiveUp ==
    /\ At("end")
    /\ Tracked = {} /\ drv.err
    /\ drv' = Down
    /\ UNCHANGED <<ledgerVars, recordVars, hostVars, op, bounds>>

Finish ==
    /\ At("end")
    /\ Tracked = {} /\ ~drv.err /\ Open = {}
    /\ Reconcile(task, NoEvidence)
    /\ drv' = IF Verdict(task, NoEvidence) = "wait" THEN [Down EXCEPT !.pc = "idle"] ELSE Down
    /\ UNCHANGED <<ledgerVars, hostVars, op, bounds>>

-----------------------------------------------------------------------------
(* Operators.                                                               *)

Idle(o) == op[o].call = "none"
Call(o, c) ==
    /\ Idle(o) /\ calls < MaxCalls
    /\ calls' = calls + 1
    /\ op' = [op EXCEPT ![o] = c]
Hang(o) == op' = [op EXCEPT ![o] = NoCall]

\* A call that has no task left returns.
GoOn(o, c) == op' = [op EXCEPT ![o] = IF c.todo = {} THEN NoCall ELSE c]

\* interrupt_worker: the cancellation asks only that the worker has a lease.
Interrupt(t) ==
    /\ calls < MaxCalls /\ calls' = calls + 1
    /\ Leased(task[t])
    /\ task' = Canceling(t)
    /\ UNCHANGED <<alerts, recordVars, hostVars, drv, op, clock, faults>>

\* stop_run cancels what was active when it looked.
StopRun(o) ==
    /\ Open # {}
    /\ Call(o, [NoCall EXCEPT !.call = "stop", !.todo = Open])
    /\ UNCHANGED <<ledgerVars, recordVars, hostVars, drv, clock, faults>>

StopTask(o, t) ==
    /\ op[o].call = "stop" /\ t \in op[o].todo
    /\ task' = Canceling(t)
    /\ GoOn(o, [op[o] EXCEPT !.todo = @ \ {t}])
    /\ UNCHANGED <<alerts, recordVars, hostVars, drv, bounds>>

\* restart_worker reads the ledger.
RestartWorker(o, t) ==
    /\ task[t].attempts > 0
    /\ Call(o, [NoCall EXCEPT !.call = "restart", !.todo = {t}, !.snap = task])
    /\ UNCHANGED <<ledgerVars, recordVars, hostVars, drv, clock, faults>>

\* The record as an operator's process finds it: the first to look after the
\* driver's process is gone recovers it.
Found(t) == IF At("down") THEN Recovered(disk[t]) ELSE disk[t]

\* Mutant: the attempt number alone is compared.
Unchanged_AttemptOnly(t, s) == task[t].attempts = s.attempts

\* The version of the lease that was read is still current.
Unchanged(t, s) ==
    /\ task[t].status = s.status /\ task[t].attempts = s.attempts
    /\ task[t].seq = s.seq /\ task[t].hb = s.hb

\* Mutant: the lease is published without its launch record.
Restarted_NoRecord(t, s, now) ==
    /\ task' = Leasing(t, now)
    /\ UNCHANGED disk

\* restart_task_if_unchanged_with_callback: the next generation is prepared
\* before the new lease is visible.
Restarted(t, s, now) ==
    /\ Unchanged(t, s) /\ Preparable(Found(t), s.attempts)
    /\ disk' = [disk EXCEPT ![t] = PreparedFor(Found(t), s.attempts)]
    /\ task' = Leasing(t, now)

RestartCommit(o) ==
    /\ op[o].call = "restart"
    /\ \E t \in op[o].todo :
          IF Unchanged(t, op[o].snap[t]) /\ Preparable(Found(t), op[o].snap[t].attempts)
          THEN Restarted(t, op[o].snap[t], clock)
          ELSE UNCHANGED <<task, disk>>
    /\ Hang(o)
    /\ UNCHANGED <<alerts, rec, hostVars, drv, bounds>>

\* The append after the preparation fails, or the process dies between them.
RestartTorn(o) ==
    /\ op[o].call = "restart"
    /\ Fault
    /\ \E t \in op[o].todo :
          /\ Unchanged(t, op[o].snap[t]) /\ Preparable(Found(t), op[o].snap[t].attempts)
          /\ disk' = [disk EXCEPT ![t] = PreparedFor(Found(t), op[o].snap[t].attempts)]
    /\ Hang(o)
    /\ UNCHANGED <<ledgerVars, rec, hostVars, drv, clock, calls>>

\* resume_run fixes its instant before it reads the ledger.
ResumeRun(o) ==
    /\ Call(o, [NoCall EXCEPT !.call = "resume", !.now = clock])
    /\ UNCHANGED <<ledgerVars, recordVars, hostVars, drv, clock, faults>>

\* task_is_stale: a heartbeat from after that instant has no age and counts.
Stale(s, now) == s.hb > now \/ now - s.hb > StaleAfter

ResumeRead(o) ==
    /\ op[o].call = "resume"
    /\ GoOn(o, [op[o] EXCEPT !.call = "mark", !.snap = task,
                  !.todo = {t \in Tasks : Leased(task[t]) /\ Stale(task[t], op[o].now)}])
    /\ UNCHANGED <<ledgerVars, recordVars, hostVars, drv, bounds>>

\* The Stale event, if the lease is as it was read.
ResumeMark(o, t) ==
    /\ op[o].call = "mark" /\ t \in op[o].todo
    /\ IF Unchanged(t, op[o].snap[t])
       THEN /\ task' = [task EXCEPT ![t].seq = @ + 1]
            /\ op' = [op EXCEPT ![o].call = "retry", ![o].snap[t].seq = @ + 1, ![o].cur = t]
       ELSE /\ GoOn(o, [op[o] EXCEPT !.todo = @ \ {t}])
            /\ UNCHANGED task
    /\ UNCHANGED <<alerts, recordVars, hostVars, drv, bounds>>

\* retry_or_fail.  A record that cannot be prepared ends the whole resume.
ResumeRetry(o) ==
    /\ op[o].call = "retry"
    /\ LET t == op[o].cur
           s == op[o].snap[t]
           next(c) == [op[o] EXCEPT !.call = c, !.todo = @ \ {t}]
       IN  \/ /\ s.attempts < MaxAttempts /\ Unchanged(t, s)
              /\ IF Preparable(Found(t), s.attempts)
                 THEN Restarted(t, s, op[o].now) /\ GoOn(o, next("mark"))
                 ELSE Hang(o) /\ UNCHANGED <<task, disk>>
           \/ /\ s.attempts >= MaxAttempts /\ Unchanged(t, s)
              /\ task' = [task EXCEPT ![t].status = "failed", ![t].seq = @ + 1]
              /\ op' = [op EXCEPT ![o] = next("alert")] /\ UNCHANGED disk
           \/ ~Unchanged(t, s) /\ GoOn(o, next("mark")) /\ UNCHANGED <<task, disk>>
    /\ UNCHANGED <<alerts, rec, hostVars, drv, bounds>>

\* record_failed_attempt_alert_once.
ResumeAlert(o) ==
    /\ op[o].call = "alert"
    /\ LET t == op[o].cur
           n == op[o].snap[t].attempts
           send == /\ task[t].status = "failed" /\ task[t].attempts = n
                   /\ <<t, n>> \notin alerts
       IN  /\ alerts' = IF send THEN alerts \cup {<<t, n>>} ELSE alerts
           /\ task' = IF send THEN [task EXCEPT ![t].seq = @ + 1] ELSE task
    /\ GoOn(o, [op[o] EXCEPT !.call = "mark"])
    /\ UNCHANGED <<recordVars, hostVars, drv, bounds>>

-----------------------------------------------------------------------------
(* Processes, crashes, time.                                                *)

Exit(t) ==
    /\ \E n \in Attempts, how \in {"ok", "bad"} :
          proc[t][n] = "alive" /\ proc' = [proc EXCEPT ![t][n] = how]
    /\ UNCHANGED <<ledgerVars, recordVars, stream, drv, op, bounds>>

\* A worker started with --parent-death-watch ends when its driver is gone.
OrphanDies(t) ==
    /\ \E n \in Attempts \ {stream[t].attempt} :
          proc[t][n] = "alive" /\ proc' = [proc EXCEPT ![t][n] = "bad"]
    /\ UNCHANGED <<ledgerVars, recordVars, stream, drv, op, bounds>>

\* The driver's process dies; in the middle of a lease, the record may be in
\* the store already.
Crash ==
    /\ ~At("down") /\ Fault
    /\ \/ UNCHANGED disk
       \/ \E t \in Admissible :
             At("lease") /\ disk' = [disk EXCEPT ![t] = Merged(@, Registered)]
    /\ drv' = Down
    /\ stream' = [t \in Tasks |-> NoStream]
    /\ rec' = [t \in Tasks |-> NoRec]
    /\ UNCHANGED <<ledgerVars, proc, op, clock, calls>>

OperatorDies(o) ==
    /\ ~Idle(o) /\ Fault
    /\ Hang(o)
    /\ UNCHANGED <<ledgerVars, recordVars, hostVars, drv, clock, calls>>

\* A driver for a run with open work; it adopts and recovers the records.
StartDriver ==
    /\ At("down") /\ Open # {}
    /\ disk' = [t \in Tasks |-> Recovered(disk[t])]
    /\ rec' = disk'
    /\ drv' = [Down EXCEPT !.pc = "idle"]
    /\ UNCHANGED <<ledgerVars, hostVars, op, bounds>>

Clock ==
    /\ clock < MaxTime /\ clock' = clock + 1
    /\ UNCHANGED <<ledgerVars, recordVars, hostVars, drv, op, calls, faults>>

-----------------------------------------------------------------------------
Driver ==
    \/ BeginTick \/ Schedule \/ ReadLeases \/ EndBeat \/ LeaseFails \/ Drive
    \/ DriveReconcile \/ Check \/ Launch \/ LaunchFails \/ Artifact \/ EndStarting
    \/ Observe \/ Report \/ Stamp \/ Running \/ WithinLimit \/ Timeout
    \/ Publish \/ AppendFails \/ EndWork \/ Settle \/ GiveUp \/ Finish
    \/ \E t \in Tasks : Beat(t) \/ Lease(t) \/ RejectLaunch(t) \/ Activate(t)
                        \/ RefuseLaunch(t) \/ Fence(t) \/ Attend(t)

Operator(o) ==
    \/ RestartCommit(o) \/ RestartTorn(o) \/ ResumeRead(o) \/ ResumeRetry(o)
    \/ ResumeAlert(o)
    \/ \E t \in Tasks : StopTask(o, t) \/ ResumeMark(o, t)

Request ==
    \/ \E t \in Tasks : Interrupt(t)
    \/ \E o \in Operators : StopRun(o) \/ ResumeRun(o)
                            \/ \E t \in Tasks : RestartWorker(o, t)

Environment ==
    \/ Crash \/ StartDriver \/ Clock
    \/ \E o \in Operators : OperatorDies(o)
    \/ \E t \in Tasks : Exit(t) \/ OrphanDies(t)

Next == Driver \/ Request \/ Environment \/ \E o \in Operators : Operator(o)

Spec == Init /\ [][Next]_fleetVars

\* The driver and the operators' processes run; a worker that is polled again
\* and again reaches its wall clock limit; orphans end; someone starts a
\* driver again.
FairSpec ==
    /\ Spec
    /\ WF_fleetVars(Driver) /\ SF_fleetVars(Timeout) /\ WF_fleetVars(StartDriver)
    /\ \A o \in Operators : WF_fleetVars(Operator(o))
    /\ \A t \in Tasks : WF_fleetVars(OrphanDies(t))

-----------------------------------------------------------------------------
(* Properties.                                                              *)

RecordType ==
    [gen : 0..(MaxCalls + 1), status : RecordStatus, prepared : BOOLEAN,
     unsettled : BOOLEAN, recint : BOOLEAN, started : BOOLEAN]

TaskType ==
    [status : {"enqueued", "leased", "completed", "failed", "cancelled"},
     attempts : 0..(MaxCalls + 1), seq : Nat, hb : 0..MaxTime, receipt : 0..(MaxCalls + 1)]

StreamType ==
    [attempt : 0..(MaxCalls + 1), stopped : BOOLEAN,
     pending : {"none", "observed", "completed", "failed"}]

DriverType ==
    [pc : {"down", "idle", "schedule", "beat", "beating", "lease", "drive", "reconcile",
           "check", "start", "launch", "artifact", "work", "poll", "stamp", "limit",
           "publish", "settle", "end"},
     todo : SUBSET Tasks, cur : Tasks \cup {NoTask}, snap : [Tasks -> TaskType],
     err : BOOLEAN, ready : BOOLEAN]

CallType ==
    [call : {"none", "stop", "restart", "resume", "mark", "retry", "alert"},
     todo : SUBSET Tasks, cur : Tasks \cup {NoTask}, snap : [Tasks -> TaskType],
     now : 0..MaxTime]

LedgerOK ==
    /\ task \in [Tasks -> TaskType] /\ alerts \subseteq Tasks \X Attempts
    /\ \A t \in Tasks :
          /\ task[t].status = "enqueued" => task[t].attempts = 0
          /\ task[t].attempts = 0 => task[t].status \in {"enqueued", "cancelled"}

RecordsOK ==
    /\ disk \in [Tasks -> RecordType] /\ rec \in [Tasks -> RecordType]
    /\ \A t \in Tasks : \A r \in {disk[t], rec[t]} : r.unsettled => r.prepared

HostOK ==
    /\ stream \in [Tasks -> StreamType]
    /\ proc \in [Tasks -> [Attempts -> {"none", "alive", "ok", "bad"}]]

\* A snapshot is never ahead of the ledger.
Behind(snap) == \A t \in Tasks : snap[t].attempts <= task[t].attempts

\* What the driver starts has an attempt, what it attends to is tracked.
DriverOK ==
    /\ drv \in DriverType /\ Behind(drv.snap)
    /\ drv.pc \in {"start", "launch", "artifact"} =>
          \A t \in drv.todo : drv.snap[t].attempts > 0
    /\ drv.pc \in {"work", "poll", "stamp", "limit", "publish"} => drv.todo \subseteq Tracked
    /\ drv.pc \in {"launch", "artifact", "poll", "stamp", "limit", "publish"} =>
          drv.cur \in drv.todo
    /\ drv.pc = "artifact" => drv.cur \in Tracked
    /\ drv.pc = "publish" => stream[drv.cur].pending \in {"completed", "failed"}

CallOK(c) ==
    /\ c.call # "stop" => \A t \in c.todo : c.snap[t].attempts > 0
    /\ c.call \in {"mark", "retry", "alert"} => \A t \in c.todo : Leased(c.snap[t])
    /\ c.call = "retry" => c.cur \in c.todo
    /\ c.call = "alert" => c.cur \in Tasks /\ c.snap[c.cur].attempts > 0

OperatorsOK ==
    /\ op \in [Operators -> CallType]
    /\ \A o \in Operators : CallOK(op[o]) /\ Behind(op[o].snap)

\* The operators that may still start an attempt of a task.
Restarting(t) ==
    {o \in Operators : op[o].call = "resume" \/ (op[o].call # "stop" /\ t \in op[o].todo)}

\* Every generation after the first, begun or only prepared, is a call's.
Accounted ==
    \A t \in Tasks :
        Cardinality(Restarting(t))
            + (IF task[t].attempts = 0 THEN 1 ELSE disk[t].gen) <= calls + 1

\* Ledger, records, streams, processes and calls keep their shape, a snapshot
\* that someone acts on is not ahead of the ledger, and a call starts or
\* prepares one attempt of a task at most (restart_worker, retry_or_fail,
\* prepare_registered_restart_generation).
FleetTypeOK ==
    /\ LedgerOK /\ RecordsOK /\ HostOK /\ DriverOK /\ OperatorsOK /\ Accounted
    /\ clock \in 0..MaxTime /\ calls \in 0..MaxCalls

\* A task never has two live worker processes, and a receipt, which
\* reconciliation takes as proof of teardown, is never of a process that still
\* lives, in a run with at most one fault, whatever restarts and recoveries go
\* with it: start_leased_workers launches or rejects an attempt only when the
\* process before it is known to be gone.  A second fault can defeat it.
OneProcess ==
    \A t \in Tasks :
        /\ Cardinality({n \in Attempts : proc[t][n] = "alive"}) <= 1
        /\ task[t].receipt > 0 => proc[t][task[t].receipt] # "alive"

\* A record of the generation after the ledger's attempt is a prepared one.
PreparedAhead(t, r) ==
    task[t].attempts > 0 /\ r.gen > task[t].attempts => r.prepared

\* A lease's attempt has a generation in the store, and one ahead of it was
\* prepared by a restart; a driver's memory is of no later generation.
Numbered(t) ==
    /\ disk[t].gen \in {task[t].attempts, task[t].attempts + 1}
    /\ PreparedAhead(t, disk[t]) /\ PreparedAhead(t, rec[t])
    /\ rec[t].gen <= disk[t].gen

LeaseNumbered == \A t \in Tasks : Numbered(t)

\* A record that a recovery closed between its registration and its lease: the
\* registration that goes with the lease does not reopen it in the store.
ClosedAtLease(r) == r.recint /\ r.gen = 1 /\ ~r.started

\* Whatever crashes and recoveries happen, a lease is visible only when the
\* store has its attempt's generation, or the one a restart prepared after it;
\* the lease's own record is not that of a finished worker; and within one
\* generation a driver's memory holds what the store holds, except where the
\* store kept a record that a recovery had closed before the lease: such a lease
\* is visible over a record it cannot launch from (start_worker_task,
\* restart_task_if_unchanged_with_callback, merge_publish; LaunchPersisted).
LeaseHasRecord ==
    \A t \in Tasks :
        /\ Numbered(t)
        /\ Leased(task[t]) /\ disk[t].gen = task[t].attempts => disk[t].status # "done"
        /\ rec[t].gen = disk[t].gen => rec[t] = disk[t] \/ ClosedAtLease(disk[t])

\* "Persist the exact launch/coordination projection before making the lease
\* visible.  A failed callback leaves the task Enqueued with attempt 0 rather
\* than a Running lease that cannot launch" (ledger.rs,
\* lease_task_if_enqueued_with_events): a first lease is made visible with a
\* record in the store that its attempt can be launched from.
LaunchPersisted ==
    [][\A t \in Tasks :
          task[t].status = "enqueued" /\ task'[t].status = "leased" =>
              Launchable(disk'[t], task'[t].attempts)]_fleetVars

\* A record does not offer attempt n for launch.
Consumed(r, n) == r.gen = n => r.status # "starting" \/ r.started

\* No record offers an attempt for launch that has been launched.
Spent(t, r) == \A n \in Attempts : proc[t][n] # "none" => Consumed(r, n)

\* The attempt that the driver is about to launch has had no process, and no
\* record offers it again.
Launching(t) ==
    drv.pc = "launch" /\ drv.cur = t =>
        /\ proc[t][drv.snap[t].attempts] = "none"
        /\ Consumed(disk[t], drv.snap[t].attempts)
        /\ Consumed(rec[t], drv.snap[t].attempts)

\* An attempt is launched after its lease and only once, also when records were
\* lost, recovered and prepared again (activate_registered_worker_attempt).
LaunchedOnce(t) ==
    /\ \A n \in Attempts : proc[t][n] # "none" => n <= task[t].attempts
    /\ Spent(t, disk[t]) /\ Spent(t, rec[t]) /\ Launching(t)

CompletedTrue(t) ==
    task[t].status = "completed" =>
        task[t].receipt = task[t].attempts /\ proc[t][task[t].attempts] = "ok"

\* What the executor keeps of a worker agrees with its process.
StreamTrue(t) ==
    stream[t].attempt > 0 =>
        /\ ExitOf(t) # "none"
        /\ stream[t].stopped => ExitOf(t) # "alive"
        /\ stream[t].pending = "completed" => ExitOf(t) = "ok"

\* A task is Completed only by the exit of its current attempt's own process,
\* and a retained outcome and the evidence that a process has stopped are true,
\* whenever they come to be used (prepare_task_outcome, publish_task_outcome).
OutcomeTrue == \A t \in Tasks : CompletedTrue(t) /\ LaunchedOnce(t) /\ StreamTrue(t)

\* What a step may do to a closed task.
KeepsOutcome ==
    \A t \in Tasks : Closed(task[t]) /\ task'[t].status # task[t].status =>
        Leased(task'[t]) /\ task'[t].attempts = task[t].attempts + 1

\* A terminal outcome is final: only a restart, with a new attempt, leaves it.
OutcomeFinal == [][KeepsOutcome]_fleetVars

\* A record that nobody but an operator can move: the process of the attempt
\* before has no witness left, or a crash cut its own attempt short.
Uncertain(t) ==
    \/ disk[t].recint
    \/ /\ disk[t].unsettled
       /\ disk[t].gen \notin {stream[t].attempt + 1, task[t].receipt + 1}

Held == \E t \in Tasks : Uncertain(t)

Superseded(t) == \E n \in Attempts : proc[t][n] = "alive" /\ ~LeasedFor(t, n)

Unfinished(t) == Leased(task[t]) \/ Superseded(t)

\* The fleet comes to rest: leased work ends, and no process whose attempt was
\* superseded or closed lives on (the driver fences it, or its parent-death
\* watch ends it), unless a record waits for proof that the driver lost in a
\* crash or dropped with a worker it forgot.
FleetSettles == (\E t \in Tasks : Unfinished(t)) ~> (\A t \in Tasks : ~Unfinished(t)) \/ Held
=============================================================================
