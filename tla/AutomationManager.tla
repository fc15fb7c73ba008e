------------------------- MODULE AutomationManager -------------------------
(***************************************************************************)
(* engine/src/automation_manager.rs: scheduled automations, run-now        *)
(* requests and delayed triggers, which become tasks of the durable store. *)
(*                                                                         *)
(* Definitions, run receipts and triggers are files that the processes of  *)
(* all execution scopes share.  A change of a file is a transaction under  *)
(* state.lock and one step here.  Whatever dispatches (a scheduler's tick, *)
(* its reconciliation and trigger passes, a run-now request) holds         *)
(* dispatch.lock from its first scan to its last receipt, over every wait; *)
(* `disp' is what the holder keeps in memory meanwhile.  Operators edit,   *)
(* pause and delete without that lock.                                     *)
(*                                                                         *)
(* The task store is its abstract specification, TaskLifecycle: admitting  *)
(* a bound id is Accept, and a task proceeds on its own.  A run and its    *)
(* task have one id here, as the binding never changes.  Prompts, models,  *)
(* last_run_at and texts are left out; the slots of a recurring rule are   *)
(* the instants of the clock.                                              *)
(***************************************************************************)
EXTENDS TaskLifecycle, FiniteSets

CONSTANTS
    Scopes,        \* execution scopes, one process each
    Automations,
    Triggers,
    None,
    OnceAt,        \* the instant a rule "once" names
    ArchiveCap,    \* ARCHIVE_RETAINED_TERMINAL_RUNS
    MaxTime,
    MaxEdits,      \* bound: operator requests
    MaxFaults      \* bound: failed writes, lost answers and crashes

ASSUME AutomationAssumption ==
    /\ None \notin Scopes \cup Automations \cup Triggers \cup Tasks
    /\ {OnceAt, ArchiveCap, MaxTime, MaxEdits, MaxFaults} \subseteq Nat

VARIABLES
    auto,      \* automations/<id>.json
    run,       \* runs/<automation>/<id>.json, by task id
    trig,      \* triggers/<id>.json
    archive,   \* archive/<automation>: the runs kept after a deletion
    up,        \* scopes whose process runs
    disp,      \* memory of the holder of dispatch.lock
    turn,      \* per scope: the scheduler's next pass
    now,
    edits, faults

files == <<auto, run, trig, archive>>
counters == <<edits, faults>>
automationVars == <<lifecycleVars, files, up, disp, turn, now, counters>>

-----------------------------------------------------------------------------
Rules == {"hourly", "once"}
Active == {"queued", "running"}

\* next = 0 when no occurrence is due; stamp stands for updated_at.
NoAutomation == [status |-> "none", scope |-> None, rule |-> "once",
                 next |-> 0, stamp |-> 0]

\* A run that is gone keeps auto and slot here, so that its id is not used
\* again.  slot = 0 and stamp = 0 for run_now.
NoRun == [status |-> "none", auto |-> None, slot |-> 0, stamp |-> 0,
          scope |-> None, accepted |-> FALSE]

NoTrigger == [status |-> "none", scope |-> None, at |-> 0, owned |-> FALSE,
              task |-> None]

NoDispatch == [proc |-> None, op |-> "none", pc |-> "next", runs |-> {},
               due |-> {}, trigs |-> {}, id |-> None, saw |-> "none"]

Exists(a) == auto[a].status # "none"

RunsOf(a) == {t \in Tasks : run[t].status # "none" /\ run[t].auto = a}

\* new_task_id: ids are fresh for ever.
Unbound(t) ==
    /\ run[t].auto = None
    /\ \A g \in Triggers : trig[g].task # t

CanBind == \E t \in Tasks : Unbound(t)
NewTaskId == CHOOSE t \in Tasks : Unbound(t)

Fault == faults < MaxFaults /\ faults' = faults + 1

-----------------------------------------------------------------------------
(* Schedules.                                                               *)

\* next_after_with_anchor; 0 is the error of a "once" that has passed.
NextAfter(rule, t) ==
    IF rule = "hourly" THEN t + 1 ELSE IF OnceAt > t THEN OnceAt ELSE 0

\* Slots that have passed are coalesced into the one just claimed.
NextUnskippedSlot(rule, slot) ==
    IF rule = "once" THEN 0
    ELSE NextAfter(rule, IF slot > now THEN slot ELSE now)

\* A definition without a next slot is paused.
Reslotted(d, next) ==
    [d EXCEPT !.next = next, !.stamp = @ + 1,
              !.status = IF next = 0 THEN "paused" ELSE @]

\* An active definition whose slot is computed anew.
Rescheduled(d) == Reslotted(d, NextAfter(d.rule, now))

\* advance_automation_after_slot.
Advanced(d, slot) == Reslotted(d, NextUnskippedSlot(d.rule, slot))

-----------------------------------------------------------------------------
\* A definition or a trigger of an earlier session may be on disk, the
\* definition without a scope if an earlier version wrote it.
Init ==
    /\ LifecycleInit
    /\ auto \in [Automations ->
          {NoAutomation} \cup
          {[NoAutomation EXCEPT !.status = "active", !.scope = s,
                                !.rule = "hourly"] : s \in Scopes \cup {None}}]
    /\ run = [t \in Tasks |-> NoRun]
    /\ trig \in [Triggers ->
          {NoTrigger} \cup
          {[NoTrigger EXCEPT !.status = "pending", !.scope = s, !.at = 1,
                             !.owned = TRUE] : s \in Scopes}]
    /\ (\A a \in Automations : ~Exists(a)) \/ (\A g \in Triggers : trig[g] = NoTrigger)
    /\ archive = {}
    /\ up = Scopes
    /\ disp = NoDispatch
    /\ turn = [p \in Scopes |-> "recover"]
    /\ now = 0
    /\ edits = 0 /\ faults = 0

-----------------------------------------------------------------------------
(* Operators: short transactions at any time, also while someone else       *)
(* dispatches.                                                              *)

Editing == edits < MaxEdits /\ edits' = edits + 1

CreateAutomation(p, a, rule, status) ==
    /\ p \in up
    /\ auto[a] = NoAutomation
    /\ Editing
    /\ status = "active" => NextAfter(rule, now) # 0
    /\ auto' = [auto EXCEPT ![a] =
                  [status |-> status, scope |-> p, rule |-> rule, stamp |-> 1,
                   next |-> IF status = "active" THEN NextAfter(rule, now) ELSE 0]]
    /\ UNCHANGED <<lifecycleVars, run, trig, archive, up, disp, turn, now, faults>>

\* update_automation, pause and resume; Keep stands for an absent field.  An
\* unbound definition is adopted unless the request pauses it.
Keep == "keep"

Updated(p, d, status, rule) ==
    LET adopting == d.scope = None /\ status # "paused"
        edited == [d EXCEPT !.scope = IF adopting THEN p ELSE @,
                            !.rule = IF rule = Keep THEN @ ELSE rule,
                            !.status = IF status = Keep THEN @ ELSE status,
                            !.stamp = @ + 1]
        changed == adopting \/ status # Keep \/ rule # Keep
        next == IF edited.status = "paused" THEN 0 ELSE NextAfter(edited.rule, now)
    IN  IF changed THEN [edited EXCEPT !.next = next] ELSE edited

UpdateAutomation(p, a, status, rule) ==
    LET d == Updated(p, auto[a], status, rule)
    IN  /\ p \in up
        /\ Exists(a)
        /\ Editing
        /\ (status # Keep \/ rule # Keep) /\ d.status = "active" => d.next # 0
        /\ auto' = [auto EXCEPT ![a] = d]
        /\ UNCHANGED <<lifecycleVars, run, trig, archive, up, disp, turn, now, faults>>

\* Mutant: a running occurrence does not keep its definition.
Deletable_Running(a) == Exists(a) /\ \A t \in RunsOf(a) : run[t].status # "queued"

Deletable(a) == Exists(a) /\ \A t \in RunsOf(a) : run[t].status \notin Active

Forget(ts) == [t \in Tasks |-> IF t \in ts THEN [run[t] EXCEPT !.status = "none"]
                               ELSE run[t]]

\* enforce_archive_retention: what it drops is a matter of end times.
Retained(ts) ==
    {kept \in SUBSET ts :
        Cardinality(kept) = IF Cardinality(ts) > ArchiveCap THEN ArchiveCap
                            ELSE Cardinality(ts)}

\* delete_automation: terminal runs are archived, then removed, then the
\* definition is removed; it may stop in between.
DeleteAutomation(p, a) ==
    /\ p \in up
    /\ Deletable(a)
    /\ Editing
    /\ \/ /\ archive' \in Retained(archive \cup RunsOf(a))
          /\ run' = Forget(RunsOf(a))
          /\ auto' = [auto EXCEPT ![a].status = "none"]
          /\ UNCHANGED faults
       \/ /\ Fault
          /\ archive' \in Retained(archive \cup RunsOf(a))
          /\ \E gone \in SUBSET RunsOf(a) : run' = Forget(gone)
          /\ UNCHANGED auto
    /\ UNCHANGED <<lifecycleVars, trig, up, disp, turn, now>>

CreateTrigger(p, g, at, owned) ==
    /\ p \in up
    /\ trig[g] = NoTrigger
    /\ Editing
    /\ at > now
    /\ trig' = [trig EXCEPT ![g] = [status |-> "pending", scope |-> p, at |-> at,
                                    owned |-> owned, task |-> None]]
    /\ UNCHANGED <<lifecycleVars, auto, run, archive, up, disp, turn, now, faults>>

\* Mutant: a trigger that is being dispatched can be canceled as well.
Cancelable_Dispatching(g) == trig[g].status \in {"pending", "dispatching"}

Cancelable(g) == trig[g].status = "pending" /\ trig[g].task = None

CancelTrigger(g) ==
    /\ Cancelable(g)
    /\ Editing
    /\ trig' = [trig EXCEPT ![g].status = "canceled"]
    /\ UNCHANGED <<lifecycleVars, auto, run, archive, up, disp, turn, now, faults>>

-----------------------------------------------------------------------------
(* Dispatchers.  op is the loop of the holder of dispatch.lock, id the      *)
(* admission in hand, saw what the task store answered about it.            *)

Holds(p, op, pc) == disp.proc = p /\ disp.op = op /\ disp.pc = pc

\* Mutant: a trigger claimed before a crash is not listed again.
DueTrigger_Pending(p, g) ==
    /\ trig[g].scope = p
    /\ trig[g].status = "pending" /\ trig[g].owned /\ trig[g].at <= now

\* collect_due_triggers: due ones with an owner, and those left unfinished.
DueTrigger(p, g) ==
    /\ trig[g].scope = p
    /\ \/ trig[g].status = "dispatching"
       \/ trig[g].status = "pending" /\ trig[g].owned /\ trig[g].at <= now

Following == [recover |-> "reconcile", reconcile |-> "triggers", triggers |-> "recover"]

\* spawn_scheduler: tick, reconciliation, triggers, and round again.  A pass
\* begins by listing what is unfinished.
BeginPass(p) ==
    LET op == turn[p]
    IN  /\ p \in up
        /\ disp = NoDispatch
        /\ disp' = [NoDispatch EXCEPT
              !.proc = p, !.op = op,
              !.runs = {t \in Tasks : /\ op # "triggers"
                                      /\ run[t].status \in Active
                                      /\ run[t].scope = p
                                      /\ op = "recover" => ~run[t].accepted},
              !.trigs = {g \in Triggers : op = "triggers" /\ DueTrigger(p, g)}]
        /\ turn' = [turn EXCEPT ![p] = Following[op]]
        /\ UNCHANGED <<lifecycleVars, files, up, now, counters>>

\* dispatch_lock_busy: the pass is skipped.
SkipPass(p) ==
    /\ p \in up
    /\ disp.proc # None
    /\ disp.proc = p => disp.op = "run_now"
    /\ turn' = [turn EXCEPT ![p] = Following[@]]
    /\ UNCHANGED <<lifecycleVars, files, up, disp, now, counters>>

\* recover_schedule_advance: the claim was cut between its two writes and
\* nobody has edited the definition since.
TornAdvance(t) ==
    LET d == auto[run[t].auto]
    IN  /\ run[t].slot # 0
        /\ d.status = "active"
        /\ d.stamp = run[t].stamp
        /\ d.next = run[t].slot

Recover(p) ==
    /\ Holds(p, "recover", "next")
    /\ \E t \in disp.runs :
          \/ /\ auto' = IF TornAdvance(t)
                        THEN [auto EXCEPT ![run[t].auto] = Advanced(@, run[t].slot)]
                        ELSE auto
             /\ disp' = [disp EXCEPT !.runs = @ \ {t}, !.id = t, !.pc = "admit"]
             /\ UNCHANGED faults
          \/ /\ Fault
             /\ disp' = [disp EXCEPT !.runs = @ \ {t}]
             /\ UNCHANGED auto
    /\ UNCHANGED <<lifecycleVars, run, trig, archive, up, turn, now, edits>>

\* collect_due_runs: a definition without a slot gets one, the due ones are
\* remembered as they are now.
Collect(p) ==
    /\ Holds(p, "recover", "next")
    /\ disp.runs = {}
    /\ LET own == {a \in Automations : auto[a].status = "active" /\ auto[a].scope = p}
       IN  \/ /\ auto' = [a \in Automations |->
                            IF a \in own /\ auto[a].next = 0
                            THEN Rescheduled(auto[a]) ELSE auto[a]]
              /\ disp' = [disp EXCEPT !.op = "claim",
                            !.due = {[auto |-> a, seen |-> auto[a]] :
                                      a \in {b \in own : auto[b].next \in 1..now}}]
              /\ UNCHANGED faults
           \/ /\ Fault
              /\ disp' = NoDispatch
              /\ UNCHANGED auto
    /\ UNCHANGED <<lifecycleVars, run, trig, archive, up, turn, now, edits>>

\* bind_run_dispatch
BoundRun(p, a, slot) ==
    [status |-> "queued", auto |-> a, slot |-> slot, stamp |-> auto[a].stamp,
     scope |-> p, accepted |-> FALSE]

\* Mutant: unsettled runs do not keep a slot back.
Occupied_Never(a) == FALSE

Occupied(a) == \E t \in RunsOf(a) : run[t].status \in Active

\* Mutants: the history is not consulted; a slot met while an earlier run is
\* unsettled is passed over.
SlotTaken_Never(a, slot) == FALSE
SlotTaken_Skips(a, slot) == \E t \in RunsOf(a) : run[t].slot = slot \/ Occupied(a)

SlotTaken(a, slot) == \E t \in RunsOf(a) : run[t].slot = slot

\* claim_scheduled_run: the definition must be the one collected.
Claim(p) ==
    /\ Holds(p, "claim", "next")
    /\ \E d \in disp.due :
          LET a == d.auto
              slot == d.seen.next
              advanced == [auto EXCEPT ![a] = Advanced(@, slot)]
              rest == [disp EXCEPT !.due = @ \ {d}]
              bound == [run EXCEPT ![NewTaskId] = BoundRun(p, a, slot)]
              claimable == /\ auto[a] = d.seen
                           /\ ~SlotTaken(a, slot)
                           /\ ~Occupied(a)
                           /\ CanBind
          IN  \/ /\ auto[a] # d.seen
                 /\ disp' = rest
                 /\ UNCHANGED <<auto, run, faults>>
              \/ /\ auto[a] = d.seen
                 /\ SlotTaken(a, slot)
                 /\ auto' = advanced
                 /\ disp' = rest
                 /\ UNCHANGED <<run, faults>>
              \/ /\ auto[a] = d.seen
                 /\ ~SlotTaken(a, slot)
                 /\ Occupied(a)
                 /\ disp' = rest
                 /\ UNCHANGED <<auto, run, faults>>
              \/ /\ claimable
                 /\ run' = bound
                 /\ auto' = advanced
                 /\ disp' = [rest EXCEPT !.id = NewTaskId, !.pc = "admit"]
                 /\ UNCHANGED faults
              \/ /\ claimable             \* the claim is cut between its writes
                 /\ Fault
                 /\ run' \in {run, bound}
                 /\ disp' = rest
                 /\ UNCHANGED auto
    /\ UNCHANGED <<lifecycleVars, trig, archive, up, turn, now, edits>>

\* adopt_for_run
Adopted(p, d) ==
    IF d.scope = p THEN d
    ELSE [(IF d.status = "active" THEN Rescheduled(d) ELSE [d EXCEPT !.stamp = @ + 1])
             EXCEPT !.scope = p]

\* run_now_inner: operator intent, so no slot and no gate.  The adoption is
\* saved before the run is.
RunNow(p, a) ==
    /\ p \in up
    /\ disp = NoDispatch
    /\ Exists(a)
    /\ auto[a].scope \in {None, p}
    /\ CanBind
    /\ Editing
    /\ auto' = [auto EXCEPT ![a] = Adopted(p, @)]
    /\ \/ /\ run' = [run EXCEPT ![NewTaskId] =
                       [BoundRun(p, a, 0) EXCEPT !.stamp = 0]]
          /\ disp' = [NoDispatch EXCEPT !.proc = p, !.op = "run_now",
                                        !.pc = "admit", !.id = NewTaskId]
          /\ UNCHANGED faults
       \/ /\ Fault
          /\ UNCHANGED <<run, disp>>
    /\ UNCHANGED <<lifecycleVars, trig, archive, up, turn, now>>

\* The claim of a due trigger re-reads it; one already claimed keeps its id.
TrigClaim(p) ==
    /\ Holds(p, "triggers", "next")
    /\ \E g \in disp.trigs :
          LET rest == [disp EXCEPT !.trigs = @ \ {g}]
          IN  \/ /\ trig[g].status \notin {"pending", "dispatching"}
                 /\ disp' = rest
                 /\ UNCHANGED <<trig, faults>>
              \/ /\ trig[g].status = "dispatching"
                 /\ disp' = [rest EXCEPT !.id = trig[g].task, !.pc = "admit"]
                 /\ UNCHANGED <<trig, faults>>
              \/ /\ trig[g].status = "pending"
                 /\ CanBind
                 /\ trig' = [trig EXCEPT ![g].status = "dispatching",
                                         ![g].task = NewTaskId]
                 /\ disp' = [rest EXCEPT !.id = NewTaskId, !.pc = "admit"]
                 /\ UNCHANGED faults
              \/ /\ Fault
                 /\ disp' = rest
                 /\ UNCHANGED trig
    /\ UNCHANGED <<lifecycleVars, auto, run, archive, up, turn, now, edits>>

\* dispatch_bound_task: the task that already has the id, or a new one.  After
\* an error the caller cannot tell whether there is one.
Admit(p) ==
    LET t == disp.id
    IN  /\ disp.proc = p
        /\ disp.pc = "admit"
        /\ \/ /\ Accept(t) \/ (life[t] # "none" /\ UNCHANGED lifecycleVars)
              /\ disp' = [disp EXCEPT !.saw = life'[t], !.pc = "save"]
              /\ UNCHANGED faults
           \/ /\ Accept(t) \/ UNCHANGED lifecycleVars
              /\ disp' = [disp EXCEPT !.saw = "error", !.pc = "save"]
              /\ Fault
        /\ UNCHANGED <<files, up, turn, now, edits>>

ReconcileRead(p) ==
    /\ Holds(p, "reconcile", "next")
    /\ \E t \in disp.runs :
          /\ disp' = [disp EXCEPT !.runs = @ \ {t}, !.id = t, !.saw = life[t],
                                  !.pc = "save"]
          /\ UNCHANGED <<lifecycleVars, files, up, turn, now, counters>>

\* Mutants: an admission without an answer has failed; a lost task keeps its
\* run open.
Receipt_Trusting(r, saw) ==
    [r EXCEPT !.accepted = TRUE,
              !.status = IF saw \in {"error", "none", "lost"} THEN "failed" ELSE saw]
Receipt_KeepsLost(r, saw) ==
    IF saw \in {"error", "none", "lost"} \/ (disp.op = "reconcile" /\ saw = r.status)
    THEN r ELSE [r EXCEPT !.status = saw, !.accepted = TRUE]

\* apply_task_status, and the two missing-task cases of reconciliation: what is
\* lost after acceptance has failed, before it the next tick decides.
Receipt(r, saw) ==
    IF saw \in {"error", "none"} THEN r
    ELSE IF saw = "lost" THEN [r EXCEPT !.status = "failed"]
    ELSE IF disp.op = "reconcile" /\ saw = r.status THEN r
    ELSE [r EXCEPT !.status = saw, !.accepted = TRUE]

\* finish_scheduled_run and save_trigger; a receipt that cannot be written is
\* only logged.
Save(p) ==
    /\ disp.proc = p
    /\ disp.pc = "save"
    /\ disp' = IF disp.op = "run_now" THEN NoDispatch
               ELSE [disp EXCEPT !.id = None, !.saw = "none", !.pc = "next"]
    /\ \/ /\ disp.op # "triggers"
          /\ run' = [run EXCEPT ![disp.id] = Receipt(@, disp.saw)]
          /\ UNCHANGED <<trig, faults>>
       \/ /\ disp.op = "triggers"
          /\ trig' = [g \in Triggers |->
                        IF trig[g].task = disp.id /\ disp.saw # "error"
                        THEN [trig[g] EXCEPT !.status = "fired"] ELSE trig[g]]
          /\ UNCHANGED <<run, faults>>
       \/ /\ Fault
          /\ UNCHANGED <<run, trig>>
    /\ UNCHANGED <<lifecycleVars, auto, archive, up, turn, now, edits>>

\* The end of a pass; a tick that has recovered goes on to Collect.
Release(p) ==
    /\ disp.proc = p /\ disp.pc = "next" /\ disp.op # "recover"
    /\ disp.runs = {} /\ disp.due = {} /\ disp.trigs = {}
    /\ disp' = NoDispatch
    /\ UNCHANGED <<lifecycleVars, files, up, turn, now, counters>>

-----------------------------------------------------------------------------
(* The environment.                                                         *)

Crash(p) ==
    /\ p \in up
    /\ Fault
    /\ up' = up \ {p}
    /\ disp' = IF disp.proc = p THEN NoDispatch ELSE disp
    /\ turn' = [turn EXCEPT ![p] = "recover"]
    /\ UNCHANGED <<lifecycleVars, files, now, edits>>

Restart(p) ==
    /\ p \notin up
    /\ up' = up \cup {p}
    /\ UNCHANGED <<lifecycleVars, files, disp, turn, now, counters>>

Clock ==
    /\ now < MaxTime
    /\ now' = now + 1
    /\ UNCHANGED <<lifecycleVars, files, up, disp, turn, counters>>

\* The task store works by itself.  How a running task ends shows in its
\* receipt only, so two ends are enough.
Proceed(t) ==
    /\ Take(t) \/ Execute(t) \/ End(t, "completed") \/ End(t, "failed")
    /\ UNCHANGED <<files, up, disp, turn, now, counters>>

\* The cancellation of a running task leaves open how it ends, as it is anyway.
CancelTask(t) ==
    /\ life[t] = "queued"
    /\ Cancel(t)
    /\ UNCHANGED <<files, up, disp, turn, now, counters>>

\* The record of an accepted task is removed by hand.
Lose(t) ==
    /\ run[t].accepted
    /\ life[t] # "lost"
    /\ Fault
    /\ life' = [life EXCEPT ![t] = "lost"]
    /\ UNCHANGED <<asked, started, files, up, disp, turn, now, edits>>

Pass(p) ==
    \/ Recover(p) \/ Collect(p) \/ Claim(p) \/ TrigClaim(p) \/ Admit(p)
    \/ ReconcileRead(p) \/ Save(p) \/ Release(p)

Operator(p) ==
    \/ \E a \in Automations :
          \/ \E rule \in Rules, status \in {"active", "paused"} :
                CreateAutomation(p, a, rule, status)
          \/ \E rule \in Rules \cup {Keep}, status \in {"active", "paused", Keep} :
                UpdateAutomation(p, a, status, rule)
          \/ DeleteAutomation(p, a)
          \/ RunNow(p, a)
    \/ \E g \in Triggers :
          \/ \E at \in 1..MaxTime, owned \in BOOLEAN : CreateTrigger(p, g, at, owned)
          \/ CancelTrigger(g)

Next ==
    \/ \E p \in Scopes :
          \/ BeginPass(p) \/ SkipPass(p) \/ Pass(p) \/ Operator(p)
          \/ Crash(p) \/ Restart(p)
    \/ \E t \in Tasks : Proceed(t) \/ CancelTask(t) \/ Lose(t)
    \/ Clock

Spec == Init /\ [][Next]_automationVars

\* A scheduler goes its rounds and finishes a pass it has begun, a stopped
\* process is started again, and a task ends.
FairSpec ==
    /\ Spec
    /\ \A p \in Scopes :
          /\ WF_automationVars(BeginPass(p) \/ SkipPass(p))
          /\ WF_automationVars(Pass(p))
          /\ WF_automationVars(Restart(p))
    /\ \A t \in Tasks : WF_automationVars(Proceed(t))

-----------------------------------------------------------------------------
Definition == [status : {"none", "active", "paused"}, scope : Scopes \cup {None},
               rule : Rules, next : Nat, stamp : Nat]

RunRecord == [status : {"none"} \cup Active \cup Ends,
              auto : Automations \cup {None}, slot : Nat, stamp : Nat,
              scope : Scopes \cup {None}, accepted : BOOLEAN]

Trigger == [status : {"none", "pending", "dispatching", "fired", "canceled"},
            scope : Scopes \cup {None}, at : Nat, owned : BOOLEAN,
            task : Tasks \cup {None}]

Dispatch == [proc : Scopes \cup {None},
             op : {"none", "recover", "reconcile", "triggers", "claim", "run_now"},
             pc : {"next", "admit", "save"}, runs : SUBSET Tasks,
             due : SUBSET [auto : Automations, seen : Definition],
             trigs : SUBSET Triggers, id : Tasks \cup {None},
             saw : {"none", "error", "lost"} \cup Active \cup Ends]

FilesOK ==
    /\ life \in [Tasks -> {"none", "lost"} \cup Active \cup Ends]
    /\ auto \in [Automations -> Definition]
    /\ run \in [Tasks -> RunRecord]
    /\ trig \in [Triggers -> Trigger]
    /\ archive \subseteq Tasks
    /\ up \subseteq Scopes
    /\ turn \in [Scopes -> {"recover", "reconcile", "triggers"}]
    /\ now \in Nat

\* A run that is unsettled has its definition, and an id that no automation
\* has bound has no run.
RunsOK ==
    \A t \in Tasks :
        /\ run[t].auto = None => run[t] = NoRun
        /\ run[t].status \in Active => Exists(run[t].auto)

\* A trigger has a task from its claim on.
TriggersOK ==
    \A g \in Triggers :
        trig[g].task \in Tasks <=> trig[g].status \in {"dispatching", "fired"}

\* What the holder lists is unsettled, and what it has in hand is on disk.
DispatchOK ==
    /\ disp \in Dispatch
    /\ disp.proc \in up \cup {None}
    /\ \A d \in disp.due : d.seen.status = "active" /\ d.seen.next # 0
    /\ \A t \in disp.runs : run[t].status \in Active
    /\ disp.pc # "next" =>
          /\ disp.id \in Tasks
          /\ IF disp.op = "triggers"
             THEN \E g \in Triggers : /\ trig[g].status = "dispatching"
                                      /\ trig[g].task = disp.id
             ELSE disp.id \notin disp.runs /\ run[disp.id].status \in Active

\* The files keep their types, the dispatch lock is held by a live process, and
\* nothing is lost under a pass while operators edit and delete at any point of
\* it: an unsettled run has its definition, and the task that the holder admits
\* or reports is that of an unsettled run or of a claimed trigger
\* (apply_task_status, delete_automation, dispatch_bound_task).
AutomationTypeOK == FilesOK /\ RunsOK /\ TriggersOK /\ DispatchOK

Recorded(t) == run[t].status # "none"

\* A schedule never goes back before a slot it has claimed, be its run removed
\* or not, and no slot has two runs on record, whatever edits, failed writes
\* and crashes come between its claim and its end (claim_scheduled_run,
\* recover_schedule_advance).  A deletion that is cut forgets runs and with
\* them that their slots are taken.
SlotOnce ==
    /\ \A t \in Tasks : run[t].slot # 0 =>
          /\ run[t].slot <= now
          /\ auto[run[t].auto].next = 0 \/ auto[run[t].auto].next >= run[t].slot
    /\ \A t, u \in Tasks :
          /\ Recorded(t) /\ Recorded(u)
          /\ run[t].slot # 0 /\ run[t].slot = run[u].slot
          /\ run[t].auto = run[u].auto
          => t = u

Live(t) == life[t] \in Active

Unsettled(t) == run[t].status \in Active

\* Two occurrences of one schedule never run side by side, and never both lack
\* their receipt (claim_scheduled_run).
NoOverlap ==
    \A t, u \in Tasks :
        /\ (Live(t) /\ Live(u)) \/ (Unsettled(t) /\ Unsettled(u))
        /\ run[t].slot # 0 /\ run[u].slot # 0
        /\ run[t].auto = run[u].auto
        => t = u

\* A task that has ended stays so until its record is lost.
EndedAs(t, how) == life[t] \in {how, "lost"}

\* What the task store answered is not refuted before the receipt is written.
AnswerTrue ==
    disp.pc = "save" =>
        /\ disp.saw \in Ends \cup {"lost"} => EndedAs(disp.id, disp.saw)
        /\ disp.saw \in Active => life[disp.id] # "none"

HonestRun(t) ==
    /\ run[t].status \in Ends => EndedAs(t, run[t].status)
    /\ run[t].accepted => life[t] # "none"
    /\ t \in archive \/ (run[t].status = "none" /\ run[t].auto # None)
          => life[t] \in Ends \cup {"lost"}

\* A settled receipt, archived ones included, tells how its task ended, what
\* counts as accepted has reached the task store, and no run is removed before
\* its task is over (enqueue_run_task, reconcile_run_statuses_shared,
\* delete_automation).
ReceiptTrue == (\A t \in Tasks : HonestRun(t)) /\ AnswerTrue

\* A trigger that was reported canceled never becomes a task (cancel_trigger,
\* fire_due_triggers_with).
CanceledNeverFires ==
    \A g \in Triggers :
        trig[g].status = "canceled" => trig[g].task = None \/ life[trig[g].task] = "none"

TakenWithRun(a) ==
    /\ auto'[a].next = 0 \/ auto'[a].next > now
    /\ /\ disp.op \in {"recover", "claim"} /\ disp' # disp
       /\ auto[a].status = "active" /\ auto[a].next # 0
       => \E t \in Tasks : run'[t].auto = a /\ run'[t].slot = auto[a].next

KeepsOwed == \A a \in Automations : auto'[a].next # auto[a].next => TakenWithRun(a)

\* A scheduler takes an owed slot off a definition only when that slot has its
\* run, and after any downtime the schedule goes on from now: the slot put in
\* its place is one that has not passed (claim_scheduled_run,
\* recover_schedule_advance, next_unskipped_slot).
OwedSlotKept == [][KeepsOwed]_automationVars

Owed(a) ==
    auto[a].status = "active" /\ auto[a].scope # None /\ auto[a].next \in 1..now

\* No due slot waits for ever, and an automation has no unsettled run again and
\* again, so that it can be claimed and deleted: a run whose task was lost or
\* whose receipt was not written is settled by a later round
\* (scheduler_tick_with, reconcile_run_statuses_shared).
SchedulesServed ==
    \A a \in Automations :
        /\ []<>~Owed(a)
        /\ []<>(\A t \in Tasks : run[t].status \in Active => run[t].auto # a)

\* A due trigger with an owner fires unless it is canceled
\* (fire_due_triggers_with).
TriggersFire ==
    \A g \in Triggers :
        /\ trig[g].status = "pending" /\ trig[g].owned /\ trig[g].at <= now
        ~> trig[g].status \in {"fired", "canceled"}
=============================================================================
