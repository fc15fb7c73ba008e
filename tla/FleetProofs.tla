----------------------------- MODULE FleetProofs -----------------------------
(***************************************************************************)
(* Proofs about FleetManager for any tasks, operators, calls and numbers   *)
(* of faults.                                                              *)
(*                                                                         *)
(* FleetInv is inductive.  A record on disk is of the ledger's attempt or  *)
(* prepared for the one after it, and no copy in memory or in a snapshot   *)
(* is ahead of that: so what is stale by the time it is used can be        *)
(* behind, and is then refused or projected, but it cannot offer an        *)
(* attempt for launch a second time.                                       *)
(*                                                                         *)
(* SoleInv is inductive beside it and says what holds until a second fault:*)
(* at first every live process is tracked by the driver; a crash leaves one*)
(* orphan per task at most, and the store's record tells of it (Guards)    *)
(* until it is proved gone, so that nothing is launched beside it.         *)
(*                                                                         *)
(* RecordInv says what the records of a lease may be and when memory and   *)
(* store agree; it holds for any number of faults.                         *)
(***************************************************************************)
EXTENDS FleetManager, FiniteSetTheorems, TLAPS

FleetInv == FleetTypeOK /\ LeaseNumbered /\ OutcomeTrue

\* No attempt of a task is taken back.
Grows == \A t \in Tasks : task[t].attempts <= task'[t].attempts

StepOK == FleetInv' /\ KeepsOutcome /\ Grows

-----------------------------------------------------------------------------
(* Records. *)

Good(r) == r \in RecordType /\ (r.unsettled => r.prepared)

\* What happens to a record that keeps its generation: it is not offered for
\* launch again.
Succeeds(r, s) ==
    /\ Good(s) /\ s.gen = r.gen
    /\ \A n \in Attempts : Consumed(r, n) => Consumed(s, n)

LEMMA RecordFields ==
  ASSUME NEW r \in RecordType
  PROVE  /\ r = [gen |-> r.gen, status |-> r.status, prepared |-> r.prepared,
                 unsettled |-> r.unsettled, recint |-> r.recint, started |-> r.started]
         /\ r.gen \in 0..(MaxCalls + 1) /\ r.status \in RecordStatus
         /\ r.prepared \in BOOLEAN /\ r.unsettled \in BOOLEAN
         /\ r.recint \in BOOLEAN /\ r.started \in BOOLEAN
BY DEF RecordType

LEMMA NoRecOK == Good(NoRec) /\ NoRec.gen = 0 /\ Good(Registered) /\ Registered.gen = 1
<1>1. Registered = [gen |-> 1, status |-> "starting", prepared |-> FALSE,
                    unsettled |-> FALSE, recint |-> FALSE, started |-> FALSE]
  <2>1. NoRec \in [gen : {0}, status : {"done"}, prepared : {FALSE}, unsettled : {FALSE},
                   recint : {FALSE}, started : {FALSE}]
    BY DEF NoRec
  <2>2. ASSUME NEW s, s = [NoRec EXCEPT !.gen = 1, !.status = "starting"]
        PROVE  s = [gen |-> 1, status |-> "starting", prepared |-> FALSE,
                    unsettled |-> FALSE, recint |-> FALSE, started |-> FALSE]
    BY <2>1, <2>2
  <2> QED
    BY <2>2 DEF Registered
<1> QED
  BY <1>1, FleetAssumption DEF Good, RecordType, RecordStatus, NoRec

LEMMA RecoveredOK ==
  ASSUME NEW r, Good(r)
  PROVE  Succeeds(r, Recovered(r)) /\ (Recovered(r).prepared <=> r.prepared)
<1> USE DEF Good, Succeeds
<1>1. CASE ~r.prepared /\ r.status \in {"starting", "running"}
  <2> DEFINE s == [gen |-> r.gen, status |-> "interrupted", prepared |-> r.prepared,
                   unsettled |-> r.unsettled, recint |-> TRUE, started |-> r.started]
  <2>1. Recovered(r) = s
    <3>1. ASSUME NEW x, x = [r EXCEPT !.status = "interrupted", !.recint = TRUE]
          PROVE  x = s
      BY <3>1 DEF RecordType
    <3> QED
      BY <1>1, <3>1 DEF Recovered
  <2>2. s \in RecordType
    BY RecordFields DEF RecordType, RecordStatus
  <2> QED
    BY <2>1, <2>2 DEF Consumed
<1>2. CASE ~(~r.prepared /\ r.status \in {"starting", "running"})
  BY <1>2 DEF Recovered
<1> QED
  BY <1>1, <1>2

\* The store keeps one of the two records.
LEMMA MergedOne ==
  ASSUME NEW s, NEW r
  PROVE  Merged(s, r) \in {s, r}
BY DEF Merged

LEMMA ClearedOK ==
  ASSUME NEW r, Good(r), NEW s, NEW ev
  PROVE  /\ Succeeds(r, Cleared(r, s, ev))
         /\ Cleared(r, s, ev).status = r.status
         /\ Cleared(r, s, ev).prepared <=> r.prepared
<1> DEFINE u == r.unsettled /\ r.gen - 1 \notin {ev, s.receipt}
           c == [gen |-> r.gen, status |-> r.status, prepared |-> r.prepared,
                 unsettled |-> u, recint |-> r.recint, started |-> r.started]
<1>0. r \in RecordType /\ (r.unsettled => r.prepared)
  BY DEF Good
<1>1. Cleared(r, s, ev) = c
  BY <1>0, RecordFields DEF Cleared
<1>2. c \in RecordType
  <2>1. u \in BOOLEAN
    OBVIOUS
  <2> HIDE DEF u
  <2> QED
    BY <1>0, <2>1, RecordFields DEF RecordType
<1>3. c.unsettled => c.prepared
  BY <1>0
<1>4. \A n \in Attempts : Consumed(r, n) => Consumed(c, n)
  BY DEF Consumed
<1> QED
  BY <1>1, <1>2, <1>3, <1>4 DEF Succeeds, Good

\* Reconciliation moves a record only where the ledger it looks at is of the
\* same attempt.
LEMMA ProjectedOK ==
  ASSUME NEW r, Good(r), NEW s, NEW ev
  PROVE  /\ Succeeds(r, Projected(r, s, ev))
         /\ r.gen # s.attempts => (Projected(r, s, ev).prepared <=> r.prepared)
<1>1. PICK c : c = Cleared(r, s, ev)
  OBVIOUS
<1>2. Succeeds(r, c) /\ (c.prepared <=> r.prepared) /\ c \in RecordType /\ c.gen = r.gen
  BY <1>1, ClearedOK DEF Succeeds, Good
<1> DEFINE keep == \/ c.unsettled \/ Unproven(c, s, ev)
                   \/ c.gen # s.attempts
                   \/ ~Closed(s) /\ c.status = "starting" /\ (c.prepared \/ ~c.started)
           d == [gen |-> c.gen, status |-> IF Closed(s) THEN "done" ELSE "running",
                 prepared |-> FALSE, unsettled |-> c.unsettled, recint |-> FALSE,
                 started |-> c.started \/ ~Closed(s)]
<1>3. CASE keep
  <2>1. Projected(r, s, ev) = c
    BY <1>1, <1>3 DEF Projected
  <2> QED
    BY <1>2, <2>1
<1>4. CASE ~keep
  <2>1. Projected(r, s, ev) = d
    <3>1. ASSUME NEW st, NEW b, NEW x,
                 x = [c EXCEPT !.status = st, !.prepared = FALSE, !.recint = FALSE, !.started = b]
          PROVE  x = [gen |-> c.gen, status |-> st, prepared |-> FALSE,
                      unsettled |-> c.unsettled, recint |-> FALSE, started |-> b]
      BY <1>2, <3>1 DEF RecordType
    <3>2. Projected(r, s, ev) =
             [c EXCEPT !.status = IF Closed(s) THEN "done" ELSE "running",
                       !.prepared = FALSE, !.recint = FALSE, !.started = c.started \/ ~Closed(s)]
      BY <1>1, <1>4 DEF Projected
    <3> QED
      BY <3>1, <3>2
  <2>2. d \in RecordType
    <3>1. d.status \in RecordStatus /\ (c.started \/ ~Closed(s)) \in BOOLEAN
      BY DEF RecordStatus
    <3> QED
      BY <1>2, <3>1, RecordFields DEF RecordType
  <2>3. ~c.unsettled /\ c.gen = s.attempts
    BY <1>4
  <2>4. \A n \in Attempts : Consumed(d, n)
    BY DEF Consumed
  <2>5. d.gen = r.gen /\ (d.unsettled <=> c.unsettled)
    BY <1>2
  <2> HIDE DEF d
  <2> QED
    BY <1>2, <2>1, <2>2, <2>3, <2>4, <2>5 DEF Succeeds, Good
<1> QED
  BY <1>3, <1>4

\* A launched record offers no attempt.
LEMMA ActivatedOK ==
  ASSUME NEW r, Good(r), NEW a, Launchable(r, a)
  PROVE  /\ Succeeds(r, Activated(r)) /\ Activated(r).gen = a
         /\ \A n \in Attempts : Consumed(Activated(r), n)
<1> DEFINE d == [gen |-> r.gen, status |-> r.status, prepared |-> FALSE,
                 unsettled |-> r.unsettled, recint |-> FALSE, started |-> TRUE]
<1>1. r \in RecordType /\ r.gen = a /\ ~r.unsettled
  BY DEF Good, Launchable
<1>2. Activated(r) = d
  <2>1. ASSUME NEW x, x = [r EXCEPT !.prepared = FALSE, !.recint = FALSE, !.started = TRUE]
        PROVE  x = d
    BY <1>1, <2>1 DEF RecordType
  <2> QED
    BY <2>1 DEF Activated
<1>3. d \in RecordType
  BY <1>1, RecordFields DEF RecordType
<1> QED
  BY <1>1, <1>2, <1>3 DEF Succeeds, Good, Consumed

\* Preparation for the attempt after a leaves a record of that attempt.
LEMMA PreparedOK ==
  ASSUME NEW r, Good(r), NEW a \in Nat, Preparable(r, a), r.gen <= MaxCalls,
         r.gen > a => r.prepared
  PROVE  /\ Good(PreparedFor(r, a)) /\ PreparedFor(r, a).gen = a + 1
         /\ PreparedFor(r, a).prepared
         /\ r.gen = a \/ PreparedFor(r, a) = r
<1> DEFINE u == r.unsettled \/ ~Settled(r)
           d == [gen |-> r.gen + 1, status |-> "starting", prepared |-> TRUE,
                 unsettled |-> u, recint |-> FALSE, started |-> FALSE]
<1>1. r \in RecordType /\ r.gen \in Nat /\ (r.gen = a \/ r.gen = a + 1)
  BY RecordFields, FleetAssumption DEF Good, Preparable
<1>2. CASE r.gen = a
  <2>1. PreparedFor(r, a) = d
    <3>1. ASSUME NEW b, NEW x,
                 x = [r EXCEPT !.gen = r.gen + 1, !.status = "starting", !.prepared = TRUE,
                               !.recint = FALSE, !.started = FALSE, !.unsettled = b]
          PROVE  x = [gen |-> r.gen + 1, status |-> "starting", prepared |-> TRUE,
                      unsettled |-> b, recint |-> FALSE, started |-> FALSE]
      BY <1>1, <3>1 DEF RecordType
    <3>2. PreparedFor(r, a) =
             [r EXCEPT !.gen = r.gen + 1, !.status = "starting", !.prepared = TRUE,
                       !.recint = FALSE, !.started = FALSE, !.unsettled = u]
      BY <1>2 DEF PreparedFor, Prepared
    <3> QED
      BY <3>1, <3>2
  <2>2. u \in BOOLEAN
    OBVIOUS
  <2>3. r.gen + 1 \in 0..(MaxCalls + 1)
    BY <1>1, FleetAssumption
  <2> HIDE DEF u
  <2>4. d \in RecordType
    BY <2>2, <2>3 DEF RecordType, RecordStatus
  <2> QED
    BY <1>2, <2>1, <2>4 DEF Good
<1>3. CASE r.gen = a + 1
  <2>1. PreparedFor(r, a) = r /\ r.prepared
    BY <1>3, <1>1 DEF PreparedFor
  <2> QED
    BY <1>3, <2>1
<1> QED
  BY <1>1, <1>2, <1>3

-----------------------------------------------------------------------------
(* What a step leaves alone. *)

\* A task goes on in its attempt: if it is closed it stays as it is.
Quiet(s, e) ==
    /\ e \in TaskType /\ e.attempts = s.attempts
    /\ \/ e.status = s.status /\ e.receipt = s.receipt
       \/ Leased(s) /\ Closed(e)
       \/ s.status = "enqueued" /\ e.status = "cancelled"

\* The generations of a task that its calls account for.
Base(t) == IF task[t].attempts = 0 THEN 1 ELSE disk[t].gen

LEMMA TypeFacts ==
  ASSUME FleetInv
  PROVE  /\ LedgerOK /\ RecordsOK /\ HostOK /\ DriverOK /\ OperatorsOK /\ Accounted
         /\ clock \in 0..MaxTime /\ calls \in 0..MaxCalls /\ calls \in Nat
         /\ LeaseNumbered
         /\ \A t \in Tasks : CompletedTrue(t) /\ LaunchedOnce(t) /\ StreamTrue(t)
         /\ \A t \in Tasks : Good(disk[t]) /\ Good(rec[t])
<1>1. RecordsOK
  BY DEF FleetInv, FleetTypeOK
<1> QED
  BY <1>1, FleetAssumption DEF FleetInv, FleetTypeOK, OutcomeTrue, RecordsOK, Good

LEMMA TaskFields ==
  ASSUME NEW s \in TaskType
  PROVE  /\ s.attempts \in 0..(MaxCalls + 1) /\ s.attempts \in Nat
         /\ s.receipt \in 0..(MaxCalls + 1) /\ s.seq \in Nat /\ s.hb \in 0..MaxTime
         /\ s.status \in {"enqueued", "leased", "completed", "failed", "cancelled"}
BY FleetAssumption DEF TaskType

\* The numbers of a task.
LEMMA Numbers ==
  ASSUME FleetInv, NEW t \in Tasks
  PROVE  /\ task[t] \in TaskType /\ task[t].attempts \in Nat
         /\ disk[t].gen \in Nat /\ rec[t].gen \in Nat
         /\ rec[t].gen <= disk[t].gen
         /\ disk[t].gen = task[t].attempts \/ disk[t].gen = task[t].attempts + 1
         /\ Base(t) \in Nat
<1>1. task[t] \in TaskType
  BY TypeFacts DEF LedgerOK
<1>2. disk[t] \in RecordType /\ rec[t] \in RecordType
  BY TypeFacts DEF RecordsOK
<1>3. disk[t].gen \in Nat /\ rec[t].gen \in Nat
  BY <1>2, RecordFields, FleetAssumption
<1>4. /\ rec[t].gen <= disk[t].gen
      /\ disk[t].gen = task[t].attempts \/ disk[t].gen = task[t].attempts + 1
  BY TypeFacts DEF LeaseNumbered, Numbered
<1> QED
  BY <1>1, <1>3, <1>4, TaskFields DEF Base

LEMMA OthersBehind ==
  ASSUME FleetInv, LedgerOK', Grows,
         NEW snap \in [Tasks -> TaskType], Behind(snap)
  PROVE  \A t \in Tasks : snap[t].attempts <= task'[t].attempts
<1> SUFFICES ASSUME NEW t \in Tasks
             PROVE  snap[t].attempts <= task'[t].attempts
  OBVIOUS
<1>1. snap[t].attempts \in Nat /\ task[t].attempts \in Nat /\ task'[t].attempts \in Nat
  BY TypeFacts, TaskFields DEF LedgerOK
<1>2. snap[t].attempts <= task[t].attempts /\ task[t].attempts <= task'[t].attempts
  BY DEF Behind, Grows
<1> QED
  BY <1>1, <1>2

\* The driver stands still.
LEMMA DriverStays ==
  ASSUME FleetInv, LedgerOK', Grows, UNCHANGED <<drv, stream>>
  PROVE  DriverOK'
<1>1. DriverOK /\ drv.snap \in [Tasks -> TaskType]
  BY TypeFacts DEF DriverOK, DriverType
<1>2. Behind(drv.snap)
  BY <1>1 DEF DriverOK
<1>3. \A t \in Tasks : drv.snap[t].attempts <= task'[t].attempts
  BY <1>1, <1>2, OthersBehind
<1>4. Tracked' = Tracked
  BY DEF Tracked
<1> QED
  BY <1>1, <1>3, <1>4 DEF DriverOK, Behind

LEMMA CallsStay ==
  ASSUME FleetInv, LedgerOK', Grows, UNCHANGED op
  PROVE  OperatorsOK'
<1>1. op \in [Operators -> CallType] /\ \A o \in Operators : CallOK(op[o]) /\ Behind(op[o].snap)
  BY TypeFacts DEF OperatorsOK
<1>2. ASSUME NEW o \in Operators
      PROVE  \A t \in Tasks : op[o].snap[t].attempts <= task'[t].attempts
  <2>1. op[o].snap \in [Tasks -> TaskType] /\ Behind(op[o].snap)
    BY <1>1 DEF CallType
  <2> QED
    BY <2>1, OthersBehind
<1> QED
  BY <1>1, <1>2 DEF OperatorsOK, Behind

\* A call moves on, to c.
LEMMA CallMoves ==
  ASSUME FleetInv, LedgerOK', Grows, NEW o \in Operators, NEW c \in CallType, CallOK(c),
         op' = [op EXCEPT ![o] = c],
         \A t \in Tasks : c.snap[t].attempts <= task'[t].attempts
  PROVE  OperatorsOK'
<1>1. op \in [Operators -> CallType] /\ \A p \in Operators : CallOK(op[p]) /\ Behind(op[p].snap)
  BY TypeFacts DEF OperatorsOK
<1>2. op' \in [Operators -> CallType] /\ op'[o] = c
      /\ \A p \in Operators : p # o => op'[p] = op[p]
  BY <1>1
<1>3. ASSUME NEW p \in Operators
      PROVE  CallOK(op'[p]) /\ \A t \in Tasks : op'[p].snap[t].attempts <= task'[t].attempts
  <2>1. CASE p = o
    BY <1>2, <2>1
  <2>2. CASE p # o
    <3>1. op[p].snap \in [Tasks -> TaskType] /\ Behind(op[p].snap)
      BY <1>1 DEF CallType
    <3> QED
      BY <1>1, <1>2, <2>2, <3>1, OthersBehind
  <2> QED
    BY <2>1, <2>2
<1>4. \A p \in Operators : CallOK(op[p])'
  BY <1>3 DEF CallOK, Leased
<1> QED
  BY <1>2, <1>3, <1>4 DEF OperatorsOK, Behind

-----------------------------------------------------------------------------
(* The generations that calls account for. *)

LEMMA RestartersFinite ==
  ASSUME NEW t
  PROVE  IsFiniteSet(Restarting(t)) /\ Cardinality(Restarting(t)) \in Nat
<1>1. Restarting(t) \in SUBSET Operators /\ IsFiniteSet(Operators)
  BY FleetAssumption DEF Restarting
<1>2. IsFiniteSet(Restarting(t))
  BY <1>1, FS_Subset
<1> QED
  BY <1>2, FS_CardinalityType

\* Nobody begins to restart the task.
LEMMA AccountStays ==
  ASSUME FleetInv, NEW t \in Tasks, calls' \in Nat, calls <= calls',
         Restarting(t)' \subseteq Restarting(t), Base(t)' \in Nat, Base(t)' <= Base(t)
  PROVE  Cardinality(Restarting(t)') + Base(t)' <= calls' + 1
<1>1. Cardinality(Restarting(t)) + Base(t) <= calls + 1 /\ calls \in Nat /\ Base(t) \in Nat
  BY TypeFacts, Numbers DEF Accounted, Base
<1>2. /\ Cardinality(Restarting(t)') <= Cardinality(Restarting(t))
      /\ Cardinality(Restarting(t)') \in Nat /\ Cardinality(Restarting(t)) \in Nat
  BY RestartersFinite, FS_Subset, FS_CardinalityType
<1> QED
  BY <1>1, <1>2

\* A restarter starts or prepares one generation and is done with the task.
LEMMA AccountSpent ==
  ASSUME FleetInv, NEW t \in Tasks, calls' = calls, NEW o \in Restarting(t),
         Restarting(t)' \subseteq Restarting(t) \ {o}, Base(t)' \in Nat, Base(t)' <= Base(t) + 1
  PROVE  Cardinality(Restarting(t)') + Base(t)' <= calls' + 1
<1>1. Cardinality(Restarting(t)) + Base(t) <= calls + 1 /\ calls \in Nat /\ Base(t) \in Nat
  BY TypeFacts, Numbers DEF Accounted, Base
<1>2. /\ IsFiniteSet(Restarting(t) \ {o}) /\ Cardinality(Restarting(t)) \in Nat
      /\ Cardinality(Restarting(t) \ {o}) = Cardinality(Restarting(t)) - 1
  BY RestartersFinite, FS_RemoveElement
<1>3. /\ Cardinality(Restarting(t)') <= Cardinality(Restarting(t) \ {o})
      /\ Cardinality(Restarting(t)') \in Nat
  BY <1>2, FS_Subset, FS_CardinalityType
<1> QED
  BY <1>1, <1>2, <1>3

\* A call is taken.
LEMMA AccountTaken ==
  ASSUME FleetInv, NEW t \in Tasks, calls' = calls + 1, NEW o,
         Restarting(t)' \subseteq Restarting(t) \cup {o}, Base(t)' = Base(t)
  PROVE  Cardinality(Restarting(t)') + Base(t)' <= calls' + 1
<1>1. Cardinality(Restarting(t)) + Base(t) <= calls + 1 /\ calls \in Nat /\ Base(t) \in Nat
  BY TypeFacts, Numbers DEF Accounted, Base
<1>2. /\ IsFiniteSet(Restarting(t) \cup {o}) /\ Cardinality(Restarting(t)) \in Nat
      /\ \/ Cardinality(Restarting(t) \cup {o}) = Cardinality(Restarting(t)) + 1
         \/ Cardinality(Restarting(t) \cup {o}) = Cardinality(Restarting(t))
  BY RestartersFinite, FS_AddElement
<1>3. /\ Cardinality(Restarting(t)') <= Cardinality(Restarting(t) \cup {o})
      /\ Cardinality(Restarting(t)') \in Nat
  BY <1>2, FS_Subset, FS_CardinalityType
<1> QED
  BY <1>1, <1>2, <1>3

LEMMA AccountedNext ==
  ASSUME \A t \in Tasks : Cardinality(Restarting(t)') + Base(t)' <= calls' + 1
  PROVE  Accounted'
BY DEF Accounted, Base

\* Generations are left as they are.
LEMMA AccountFrame ==
  ASSUME FleetInv, calls' \in Nat, calls <= calls',
         \A t \in Tasks : Restarting(t)' \subseteq Restarting(t),
         \A t \in Tasks : Base(t)' = Base(t)
  PROVE  Accounted'
<1>1. ASSUME NEW t \in Tasks
      PROVE  Cardinality(Restarting(t)') + Base(t)' <= calls' + 1
  <2>1. Base(t)' \in Nat /\ Base(t)' <= Base(t)
    BY Numbers
  <2> QED
    BY <2>1, AccountStays
<1> QED
  BY <1>1, AccountedNext

-----------------------------------------------------------------------------
(* Steps that change one side only. *)

\* The parts that make up a step that keeps the invariant.
LEMMA StepParts ==
  ASSUME LedgerOK', RecordsOK', HostOK', DriverOK', OperatorsOK', Accounted',
         clock' \in 0..MaxTime, calls' \in 0..MaxCalls, LeaseNumbered',
         \A t \in Tasks : CompletedTrue(t)', \A t \in Tasks : LaunchedOnce(t)',
         \A t \in Tasks : StreamTrue(t)', KeepsOutcome, Grows
  PROVE  StepOK
BY DEF StepOK, FleetInv, FleetTypeOK, OutcomeTrue

LEMMA LedgerMoves ==
  ASSUME FleetInv, task' \in [Tasks -> TaskType], alerts' \subseteq Tasks \X Attempts,
         \A t \in Tasks : Quiet(task[t], task'[t])
  PROVE  /\ LedgerOK' /\ Grows /\ KeepsOutcome
         /\ \A t \in Tasks : task'[t].attempts = task[t].attempts
<1>1. LedgerOK
  BY TypeFacts
<1>2. ASSUME NEW t \in Tasks
      PROVE  /\ task'[t].attempts = task[t].attempts /\ task[t].attempts <= task'[t].attempts
             /\ task'[t].status = "enqueued" => task'[t].attempts = 0
             /\ task'[t].attempts = 0 => task'[t].status \in {"enqueued", "cancelled"}
             /\ Closed(task[t]) => task'[t].status = task[t].status
  <2>1. Quiet(task[t], task'[t]) /\ task[t].attempts \in Nat
    BY Numbers
  <2>2. task'[t].attempts = task[t].attempts /\ task[t].attempts <= task'[t].attempts
    BY <2>1 DEF Quiet
  <2>3. /\ task[t].status = "enqueued" => task[t].attempts = 0
        /\ task[t].attempts = 0 => task[t].status \in {"enqueued", "cancelled"}
    BY <1>1 DEF LedgerOK
  <2> QED
    BY <2>1, <2>2, <2>3 DEF Quiet, Leased, Closed
<1> QED
  BY <1>2 DEF LedgerOK, Grows, KeepsOutcome

\* Records and processes are left alone, no attempt begins.
LEMMA QuietStep ==
  ASSUME FleetInv, task' \in [Tasks -> TaskType], alerts' \subseteq Tasks \X Attempts,
         \A t \in Tasks : Quiet(task[t], task'[t]),
         \A t \in Tasks : task'[t].status = "completed" /\ task[t].status # "completed" =>
             task'[t].receipt = task[t].attempts /\ proc[t][task[t].attempts] = "ok",
         UNCHANGED <<disk, rec, proc, stream>>,
         LedgerOK' /\ Grows => DriverOK' /\ OperatorsOK',
         drv' = drv \/ drv'.pc # "launch",
         \A t \in Tasks : Base(t)' = Base(t) => Cardinality(Restarting(t)') + Base(t)' <= calls' + 1,
         clock' \in 0..MaxTime, calls' \in 0..MaxCalls
  PROVE  StepOK
<1>1. LedgerOK' /\ Grows /\ KeepsOutcome /\ \A t \in Tasks : Base(t)' = Base(t)
  BY LedgerMoves DEF Base
<1>2. Accounted'
  BY <1>1, AccountedNext
<1>3. RecordsOK' /\ HostOK' /\ LeaseNumbered' /\ \A t \in Tasks : StreamTrue(t)'
  <2>1. \A t \in Tasks : task'[t].attempts = task[t].attempts
    BY DEF Quiet
  <2> QED
    BY <2>1, TypeFacts DEF RecordsOK, HostOK, LeaseNumbered, Numbered, PreparedAhead, StreamTrue, ExitOf
<1>4. \A t \in Tasks : CompletedTrue(t)'
  <2> SUFFICES ASSUME NEW t \in Tasks
               PROVE  CompletedTrue(t)'
    OBVIOUS
  <2>1. Quiet(task[t], task'[t]) /\ CompletedTrue(t)
    BY TypeFacts
  <2> QED
    BY <2>1 DEF CompletedTrue, Quiet, Leased
<1>5. \A t \in Tasks : LaunchedOnce(t)'
  <2> SUFFICES ASSUME NEW t \in Tasks
               PROVE  LaunchedOnce(t)'
    OBVIOUS
  <2>1. LaunchedOnce(t) /\ task'[t].attempts = task[t].attempts
    BY TypeFacts DEF Quiet
  <2>2. Launching(t)'
    BY <2>1 DEF LaunchedOnce, Launching, Consumed
  <2> QED
    BY <2>1, <2>2 DEF LaunchedOnce, Spent, Consumed
<1> QED
  BY <1>1, <1>2, <1>3, <1>4, <1>5, StepParts

\* A record that may take the place of one of task t.
Heir(t, r) == Good(r) /\ PreparedAhead(t, r) /\ Spent(t, r)

LEMMA HeirsNow ==
  ASSUME FleetInv, NEW t \in Tasks
  PROVE  Heir(t, disk[t]) /\ Heir(t, rec[t])
BY TypeFacts DEF Heir, LeaseNumbered, Numbered, LaunchedOnce

\* What succeeds an heir and keeps the prepared mark of a record that is ahead.
LEMMA HeirSucceeds ==
  ASSUME FleetInv, NEW t \in Tasks, NEW r, Heir(t, r), NEW s, Succeeds(r, s),
         task[t].attempts > 0 /\ r.gen > task[t].attempts => (s.prepared <=> r.prepared)
  PROVE  Heir(t, s)
BY DEF Heir, Succeeds, PreparedAhead, Spent

\* Only records change, and keep their generations.
LEMMA RecordStep ==
  ASSUME FleetInv, UNCHANGED <<task, alerts, proc, op, clock, calls>>,
         disk' \in [Tasks -> RecordType], rec' \in [Tasks -> RecordType],
         \A t \in Tasks : Heir(t, disk'[t]) /\ Heir(t, rec'[t]),
         \A t \in Tasks : rec'[t].gen <= disk'[t].gen,
         \A t \in Tasks : \/ disk'[t].gen = disk[t].gen
                          \/ task[t].attempts = 0 /\ disk'[t].gen \in {0, 1},
         HostOK', DriverOK',
         \A t \in Tasks : StreamTrue(t)', \A t \in Tasks : Launching(t)'
  PROVE  StepOK
<1>1. LedgerOK' /\ OperatorsOK' /\ KeepsOutcome /\ clock' \in 0..MaxTime /\ calls' \in 0..MaxCalls
  BY TypeFacts DEF LedgerOK, OperatorsOK, Behind, KeepsOutcome, CallOK
<1>2. RecordsOK'
  BY DEF RecordsOK, Heir, Good
<1>3. Accounted'
  <2>1. \A t \in Tasks : Restarting(t)' \subseteq Restarting(t)
    BY DEF Restarting
  <2>2. \A t \in Tasks : Base(t)' = Base(t)
    BY DEF Base
  <2> QED
    BY <2>1, <2>2, TypeFacts, AccountFrame
<1>4. LeaseNumbered'
  <2> SUFFICES ASSUME NEW t \in Tasks
               PROVE  /\ disk'[t].gen \in {task[t].attempts, task[t].attempts + 1}
                      /\ PreparedAhead(t, disk[t])' /\ PreparedAhead(t, rec[t])'
                      /\ rec'[t].gen <= disk'[t].gen
    BY DEF LeaseNumbered, Numbered
  <2>1. disk'[t].gen \in {task[t].attempts, task[t].attempts + 1}
    BY Numbers
  <2> QED
    BY <2>1 DEF Heir, PreparedAhead
<1>5. \A t \in Tasks : CompletedTrue(t)'
  BY TypeFacts DEF CompletedTrue
<1>6. \A t \in Tasks : LaunchedOnce(t)'
  <2> SUFFICES ASSUME NEW t \in Tasks
               PROVE  LaunchedOnce(t)'
    OBVIOUS
  <2>1. LaunchedOnce(t) /\ Heir(t, disk'[t]) /\ Heir(t, rec'[t]) /\ Launching(t)'
    BY TypeFacts
  <2>2. Spent(t, disk[t])' /\ Spent(t, rec[t])'
    BY <2>1 DEF Heir, Spent, Consumed
  <2> QED
    BY <2>1, <2>2 DEF LaunchedOnce
<1>7. Grows
  BY Numbers DEF Grows
<1> QED
  BY <1>1, <1>2, <1>3, <1>4, <1>5, <1>6, <1>7, StepParts

\* Only processes and what is tracked of them change; no process is started.
LEMMA HostStep ==
  ASSUME FleetInv, UNCHANGED <<task, alerts, disk, rec, op, clock, calls>>, HostOK',
         \A t \in Tasks, n \in Attempts : proc'[t][n] # "none" => proc[t][n] # "none",
         \A t \in Tasks, n \in Attempts : proc[t][n] = "ok" => proc'[t][n] = "ok",
         drv' = drv \/ drv'.pc # "launch", DriverOK',
         \A t \in Tasks : StreamTrue(t)'
  PROVE  StepOK
<1>1. LedgerOK' /\ OperatorsOK' /\ KeepsOutcome /\ clock' \in 0..MaxTime /\ calls' \in 0..MaxCalls
  BY TypeFacts DEF LedgerOK, OperatorsOK, Behind, KeepsOutcome, CallOK
<1>2. RecordsOK' /\ LeaseNumbered'
  BY TypeFacts DEF RecordsOK, LeaseNumbered, Numbered, PreparedAhead
<1>3. Accounted'
  BY TypeFacts DEF Accounted, Restarting
<1>4. \A t \in Tasks : CompletedTrue(t)'
  <2> SUFFICES ASSUME NEW t \in Tasks, task[t].status = "completed"
               PROVE  task[t].receipt = task[t].attempts /\ proc'[t][task[t].attempts] = "ok"
    BY DEF CompletedTrue
  <2>1. task[t].attempts \in Attempts
    <3>1. task[t].attempts # 0
      BY TypeFacts DEF LedgerOK
    <3> QED
      BY <3>1, Numbers, TaskFields, FleetAssumption DEF Attempts
  <2> QED
    BY <2>1, TypeFacts DEF CompletedTrue
<1>5. \A t \in Tasks : LaunchedOnce(t)'
  <2> SUFFICES ASSUME NEW t \in Tasks
               PROVE  LaunchedOnce(t)'
    OBVIOUS
  <2>1. LaunchedOnce(t)
    BY TypeFacts
  <2>2. Spent(t, disk[t])' /\ Spent(t, rec[t])'
    BY <2>1 DEF LaunchedOnce, Spent, Consumed
  <2>3. ASSUME drv'.pc = "launch" /\ drv'.cur = t
        PROVE  /\ proc'[t][drv.snap[t].attempts] = "none"
               /\ Consumed(disk[t], drv.snap[t].attempts)
               /\ Consumed(rec[t], drv.snap[t].attempts)
    <3>1. drv' = drv /\ drv.pc = "launch" /\ drv.cur = t
      BY <2>3
    <3>2. DriverOK /\ drv.snap[t] \in TaskType
      BY TypeFacts DEF DriverOK, DriverType
    <3>3. drv.snap[t].attempts > 0
      BY <3>1, <3>2 DEF DriverOK
    <3>4. drv.snap[t].attempts \in Attempts
      BY <3>2, <3>3, TaskFields, FleetAssumption DEF Attempts
    <3> QED
      BY <2>1, <3>1, <3>4 DEF LaunchedOnce, Launching
  <2>4. Launching(t)'
    <3>1. CASE drv'.pc = "launch" /\ drv'.cur = t
      <4>1. drv' = drv
        BY <3>1
      <4> QED
        BY <2>3, <3>1, <4>1 DEF Launching, Consumed
    <3>2. CASE ~(drv'.pc = "launch" /\ drv'.cur = t)
      BY <3>2 DEF Launching
    <3> QED
      BY <3>1, <3>2
  <2> QED
    BY <2>1, <2>2, <2>4 DEF LaunchedOnce
<1>6. Grows
  BY Numbers DEF Grows
<1> QED
  BY <1>1, <1>2, <1>3, <1>4, <1>5, <1>6, StepParts

-----------------------------------------------------------------------------
(* Reconciliation. *)

LEMMA RefreshedOK ==
  ASSUME FleetInv, NEW t \in Tasks
  PROVE  /\ Refreshed(t) \in {disk[t], rec[t]} /\ Heir(t, Refreshed(t))
         /\ Refreshed(t).gen = disk[t].gen
BY HeirsNow, Numbers DEF Refreshed

\* Whatever ledger of the past it looks at, reconciliation keeps generations
\* and offers no attempt again.
LEMMA ReconcileOK ==
  ASSUME FleetInv, NEW snap \in [Tasks -> TaskType], Behind(snap), NEW ev,
         Reconcile(snap, ev)
  PROVE  /\ disk' \in [Tasks -> RecordType] /\ rec' \in [Tasks -> RecordType]
         /\ \A t \in Tasks : Heir(t, disk'[t]) /\ Heir(t, rec'[t])
         /\ \A t \in Tasks : disk'[t].gen = disk[t].gen /\ rec'[t].gen = disk[t].gen
<1> DEFINE new(t) == IF t \in Recorded(snap) THEN Projected(Refreshed(t), snap[t], ev[t])
                     ELSE Refreshed(t)
<1>1. ASSUME NEW t \in Tasks
      PROVE  Heir(t, new(t)) /\ new(t).gen = disk[t].gen /\ new(t) \in RecordType
  <2>1. PICK r : r = Refreshed(t)
    OBVIOUS
  <2>2. Heir(t, r) /\ Good(r) /\ r.gen = disk[t].gen /\ r \in RecordType
    BY <2>1, RefreshedOK DEF Heir, Good
  <2>3. CASE t \in Recorded(snap)
    <3>1. PICK p : p = Projected(r, snap[t], ev[t])
      OBVIOUS
    <3>2. /\ Succeeds(r, p)
          /\ r.gen # snap[t].attempts => (p.prepared <=> r.prepared)
      BY <2>2, <3>1, ProjectedOK
    <3>3. snap[t].attempts \in Nat /\ snap[t].attempts <= task[t].attempts
      BY TaskFields DEF Behind
    <3>4. r.gen > task[t].attempts => r.gen # snap[t].attempts
      BY <2>2, <3>3, Numbers
    <3>5. Heir(t, p)
      BY <2>2, <3>2, <3>4, HeirSucceeds
    <3> QED
      BY <2>1, <2>2, <2>3, <3>1, <3>2, <3>5 DEF Succeeds, Good
  <2>4. CASE t \notin Recorded(snap)
    BY <2>1, <2>2, <2>4
  <2> QED
    BY <2>3, <2>4
<1>2. ASSUME NEW t \in Tasks
      PROVE  /\ Heir(t, Merged(disk[t], new(t))) /\ Merged(disk[t], new(t)).gen = disk[t].gen
             /\ Merged(disk[t], new(t)) \in RecordType
             /\ Heir(t, disk[t]) /\ disk[t] \in RecordType
  <2>1. Heir(t, disk[t]) /\ disk[t] \in RecordType
    BY HeirsNow DEF Heir, Good
  <2>2. Merged(disk[t], new(t)) \in {disk[t], new(t)}
    BY MergedOne
  <2> HIDE DEF new
  <2> QED
    BY <1>1, <2>1, <2>2
<1>3. \/ /\ rec' = [t \in Tasks |-> new(t)]
         /\ disk' = [t \in Tasks |-> Merged(disk[t], new(t))]
      \/ \E written :
            /\ disk' = [t \in Tasks |->
                          IF t \in written THEN Merged(disk[t], new(t)) ELSE disk[t]]
            /\ rec' = disk'
  <2>1. CASE RefusedIn(snap, ev) = {}
    BY <2>1 DEF Reconcile
  <2>2. CASE RefusedIn(snap, ev) # {}
    BY <2>2 DEF Reconcile
  <2> QED
    BY <2>1, <2>2
<1> HIDE DEF new
<1>4. CASE /\ rec' = [t \in Tasks |-> new(t)]
           /\ disk' = [t \in Tasks |-> Merged(disk[t], new(t))]
  BY <1>1, <1>2, <1>4
<1>5. CASE \E written :
              /\ disk' = [t \in Tasks |->
                            IF t \in written THEN Merged(disk[t], new(t)) ELSE disk[t]]
              /\ rec' = disk'
  <2>1. PICK written :
              /\ disk' = [t \in Tasks |->
                            IF t \in written THEN Merged(disk[t], new(t)) ELSE disk[t]]
              /\ rec' = disk'
    BY <1>5
  <2>2. ASSUME NEW t \in Tasks
        PROVE  Heir(t, disk'[t]) /\ disk'[t] \in RecordType /\ disk'[t].gen = disk[t].gen
    <3>1. disk'[t] = Merged(disk[t], new(t)) \/ disk'[t] = disk[t]
      BY <2>1
    <3> QED
      BY <1>2, <3>1
  <2>3. disk' \in [Tasks -> RecordType]
    BY <2>1, <2>2
  <2> QED
    BY <2>1, <2>2, <2>3
<1> QED
  BY <1>3, <1>4, <1>5

-----------------------------------------------------------------------------
(* The driver's memory. *)

PCs == {"down", "idle", "schedule", "beat", "beating", "lease", "drive", "reconcile",
        "check", "start", "launch", "artifact", "work", "poll", "stamp", "limit",
        "publish", "settle", "end"}

Snaps == [Tasks -> TaskType]

LEMMA DriverFacts ==
  ASSUME FleetInv
  PROVE  /\ drv \in DriverType /\ drv.snap \in Snaps /\ Behind(drv.snap)
         /\ drv.todo \subseteq Tasks /\ drv.cur \in Tasks \cup {NoTask}
         /\ drv.err \in BOOLEAN /\ drv.ready \in BOOLEAN
BY TypeFacts DEF DriverOK, DriverType, Snaps

LEMMA NoSnapOK ==
  /\ NoSnap \in Snaps /\ \A t \in Tasks : NoSnap[t].attempts = 0
<1>1. NewTask \in TaskType /\ NewTask.attempts = 0
  BY FleetAssumption DEF NewTask, TaskType
<1> QED
  BY <1>1 DEF NoSnap, Snaps

LEMMA ViewOK ==
  ASSUME FleetInv
  PROVE  View \in Snaps /\ \A t \in Tasks : View[t].attempts = task[t].attempts
<1>1. ASSUME NEW t \in Tasks
      PROVE  View[t] \in TaskType /\ View[t].attempts = task[t].attempts
  <2>1. 0 \in Nat /\ 0 \in 0..MaxTime
    BY FleetAssumption
  <2>2. ASSUME NEW s \in TaskType, NEW x, x = [s EXCEPT !.seq = 0, !.hb = 0]
        PROVE  x \in TaskType /\ x.attempts = s.attempts
    BY <2>1, <2>2 DEF TaskType
  <2> QED
    BY <2>2, Numbers DEF View
<1> QED
  BY <1>1 DEF View, Snaps

\* A snapshot of the moment or of nothing is not ahead of the ledger.
LEMMA FreshBehind ==
  ASSUME FleetInv, UNCHANGED task
  PROVE  /\ \A t \in Tasks : NoSnap[t].attempts <= task'[t].attempts
         /\ \A t \in Tasks : View[t].attempts <= task'[t].attempts
<1>1. \A t \in Tasks : task'[t].attempts = task[t].attempts /\ task[t].attempts \in Nat
  BY Numbers
<1> QED
  BY <1>1, NoSnapOK, ViewOK

LEMMA DownOK ==
  /\ Down \in DriverType /\ Down.pc = "down" /\ Down.snap = NoSnap /\ Down.todo = {}
BY NoSnapOK DEF Down, DriverType, Snaps

LEMMA FromDown ==
  ASSUME NEW pc \in {"idle", "drive", "end"}, NEW e \in BOOLEAN
  PROVE  \A x : \/ x = [Down EXCEPT !.pc = pc]
               \/ x = [Down EXCEPT !.pc = pc, !.err = e]
               => x \in DriverType /\ x.pc = pc /\ x.snap = NoSnap
<1>1. ASSUME NEW x, x = [Down EXCEPT !.pc = pc]
      PROVE  x \in DriverType /\ x.pc = pc /\ x.snap = NoSnap
  BY <1>1, DownOK DEF DriverType
<1>2. ASSUME NEW x, x = [Down EXCEPT !.pc = pc, !.err = e]
      PROVE  x \in DriverType /\ x.pc = pc /\ x.snap = NoSnap
  BY <1>2, DownOK DEF DriverType
<1> QED
  BY <1>1, <1>2

LEMMA GotoOK ==
  ASSUME FleetInv, NEW pc, NEW todo, NEW snap, Goto(pc, todo, snap),
         pc \in PCs, todo \subseteq Tasks, snap \in Snaps
  PROVE  /\ drv' \in DriverType /\ drv'.pc = pc /\ drv'.todo = todo /\ drv'.snap = snap
<1>1. ASSUME NEW d \in DriverType, NEW x, x = [d EXCEPT !.pc = pc, !.todo = todo, !.snap = snap]
      PROVE  x \in DriverType /\ x.pc = pc /\ x.todo = todo /\ x.snap = snap
  BY <1>1 DEF DriverType, PCs, Snaps
<1> QED
  BY <1>1, DriverFacts DEF Goto

LEMMA AbortOK ==
  ASSUME FleetInv, Abort
  PROVE  drv' \in DriverType /\ drv'.pc = "end" /\ drv'.snap = NoSnap
<1>1. ASSUME NEW d \in DriverType, NEW snap \in Snaps, NEW x,
             x = [d EXCEPT !.pc = "end", !.todo = {}, !.snap = snap, !.err = TRUE]
      PROVE  x \in DriverType /\ x.pc = "end" /\ x.snap = snap
  BY <1>1 DEF DriverType, Snaps
<1> QED
  BY <1>1, DriverFacts, NoSnapOK DEF Abort

\* The driver is where nothing is being started or attended to.
LEMMA DriverElsewhere ==
  ASSUME drv' \in DriverType, \A t \in Tasks : drv'.snap[t].attempts <= task'[t].attempts,
         drv'.pc \notin {"start", "launch", "artifact", "work", "poll", "stamp", "limit",
                      "publish"}
  PROVE  DriverOK'
BY DEF DriverOK, Behind

\* The driver attends to some of what is tracked.
LEMMA DriverWorks ==
  ASSUME drv' \in DriverType, \A t \in Tasks : drv'.snap[t].attempts <= task'[t].attempts,
         drv'.pc = "work", drv'.todo \subseteq Tracked'
  PROVE  DriverOK'
BY DEF DriverOK, Behind

\* The driver and the ledger move on, the operators' calls stand still.
LEMMA DriverWrites ==
  ASSUME FleetInv, UNCHANGED <<alerts, disk, rec, stream, proc, op, clock, calls>>,
         task' \in [Tasks -> TaskType],
         \A t \in Tasks : Quiet(task[t], task'[t]),
         \A t \in Tasks : task'[t].status = "completed" /\ task[t].status # "completed" =>
             task'[t].receipt = task[t].attempts /\ proc[t][task[t].attempts] = "ok",
         LedgerOK' /\ Grows => DriverOK', drv'.pc # "launch"
  PROVE  StepOK
<1>1. alerts' \subseteq Tasks \X Attempts
  BY TypeFacts DEF LedgerOK
<1>2. LedgerOK' /\ Grows => OperatorsOK'
  BY CallsStay
<1>3. ASSUME NEW t \in Tasks, Base(t)' = Base(t)
      PROVE  Cardinality(Restarting(t)') + Base(t)' <= calls' + 1
  <2>1. Restarting(t)' \subseteq Restarting(t)
    BY DEF Restarting
  <2> QED
    BY <1>3, <2>1, AccountStays, Numbers, TypeFacts
<1> QED
  BY <1>1, <1>2, <1>3, QuietStep, TypeFacts

\* Only the driver moves, and not to a launch.
LEMMA DriverMoves ==
  ASSUME FleetInv, UNCHANGED <<task, alerts, disk, rec, stream, proc, op, clock, calls>>,
         DriverOK', drv'.pc # "launch"
  PROVE  StepOK
<1>1. task' \in [Tasks -> TaskType]
  BY TypeFacts DEF LedgerOK
<1>2. \A t \in Tasks : Quiet(task[t], task'[t])
  BY <1>1 DEF Quiet
<1> QED
  BY <1>1, <1>2, DriverWrites

-----------------------------------------------------------------------------
(* The driver's own steps. *)

LEMMA BeginTickOK ==
  ASSUME FleetInv, BeginTick
  PROVE  StepOK
<1>1. ASSUME NEW snap \in Snaps, NEW x, x = [Down EXCEPT !.pc = "schedule", !.snap = snap]
      PROVE  x \in DriverType /\ x.pc = "schedule" /\ x.snap = snap
  BY <1>1, DownOK DEF DriverType, Snaps
<1>2. drv' \in DriverType /\ drv'.pc = "schedule" /\ drv'.snap = View
  BY <1>1, ViewOK DEF BeginTick
<1>3. UNCHANGED <<task, alerts, disk, rec, stream, proc, op, clock, calls>>
  BY DEF BeginTick, ledgerVars, recordVars, hostVars, bounds
<1>4. DriverOK'
  BY <1>2, <1>3, FreshBehind, DriverElsewhere
<1> QED
  BY <1>2, <1>3, <1>4, DriverMoves

LEMMA LeaseFailsOK ==
  ASSUME FleetInv, LeaseFails
  PROVE  StepOK
<1>1. UNCHANGED <<task, alerts, disk, rec, stream, proc, op, clock, calls>>
  BY DEF LeaseFails, ledgerVars, recordVars, hostVars
<1>2. drv' \in DriverType /\ drv'.pc = "drive" /\ drv'.snap = NoSnap
  <2>1. "drive" \in {"idle", "drive", "end"} /\ TRUE \in BOOLEAN
    OBVIOUS
  <2>2. drv' = [Down EXCEPT !.pc = "drive", !.err = TRUE]
    BY DEF LeaseFails
  <2> QED
    BY <2>1, <2>2, FromDown
<1> QED
  BY <1>1, <1>2, FreshBehind, DriverElsewhere, DriverMoves

LEMMA DriveOK ==
  ASSUME FleetInv, Drive
  PROVE  StepOK
<1>1. drv' \in DriverType /\ drv'.pc = "reconcile" /\ drv'.snap = View
  BY GotoOK, DriverFacts, ViewOK DEF Drive, PCs
<1>2. UNCHANGED <<task, alerts, disk, rec, stream, proc, op, clock, calls>>
  BY DEF Drive, ledgerVars, recordVars, hostVars, bounds
<1>3. DriverOK'
  BY <1>1, <1>2, FreshBehind, DriverElsewhere
<1> QED
  BY <1>1, <1>2, <1>3, DriverMoves

\* What is leased has an attempt.
LEMMA LeasedAttempt ==
  ASSUME FleetInv, NEW t \in Tasks, Leased(task[t])
  PROVE  task[t].attempts > 0 /\ task[t].attempts \in Attempts
<1>1. task[t].attempts # 0
  BY TypeFacts DEF LedgerOK, Leased
<1> QED
  BY <1>1, Numbers, TaskFields, FleetAssumption DEF Attempts

LEMMA TrackedTasks == Tracked \subseteq Tasks
BY DEF Tracked

LEMMA CheckOK ==
  ASSUME FleetInv, Check
  PROVE  StepOK
<1>1. UNCHANGED <<task, alerts, disk, rec, stream, proc, op, clock, calls>>
  BY DEF Check, ledgerVars, recordVars, hostVars, bounds
<1>2. CASE Abort
  BY <1>1, <1>2, AbortOK, FreshBehind, DriverElsewhere, DriverMoves
<1>3. CASE Goto("start", {t \in Tasks \ Tracked : Leased(task[t])}, View)
  <2>1. /\ drv' \in DriverType /\ drv'.pc = "start" /\ drv'.snap = View
        /\ drv'.todo = {t \in Tasks \ Tracked : Leased(task[t])}
    BY <1>3, GotoOK, DriverFacts, ViewOK DEF PCs
  <2>2. \A t \in drv'.todo : View[t].attempts > 0
    BY <2>1, ViewOK, LeasedAttempt
  <2>3. DriverOK'
    BY <1>1, <2>1, <2>2, FreshBehind DEF DriverOK, Behind
  <2> QED
    BY <1>1, <2>1, <2>3, DriverMoves
<1>4. CASE Goto("work", Tracked, NoSnap)
  <2>1. drv' \in DriverType /\ drv'.pc = "work" /\ drv'.snap = NoSnap /\ drv'.todo = Tracked
    BY <1>4, GotoOK, DriverFacts, NoSnapOK, TrackedTasks DEF PCs
  <2>2. Tracked' = Tracked
    BY <1>1 DEF Tracked
  <2>3. DriverOK'
    BY <1>1, <2>1, <2>2, FreshBehind, DriverWorks
  <2> QED
    BY <1>1, <2>1, <2>3, DriverMoves
<1> QED
  BY <1>2, <1>3, <1>4 DEF Check

LEMMA EndStartingOK ==
  ASSUME FleetInv, EndStarting
  PROVE  StepOK
<1>1. UNCHANGED <<task, alerts, disk, rec, stream, proc, op, clock, calls>>
  BY DEF EndStarting, ledgerVars, recordVars, hostVars, bounds
<1>2. drv' \in DriverType /\ drv'.pc = "work" /\ drv'.snap = NoSnap /\ drv'.todo = Tracked
  BY GotoOK, DriverFacts, NoSnapOK, TrackedTasks DEF EndStarting, PCs
<1>3. Tracked' = Tracked
  BY <1>1 DEF Tracked
<1>4. DriverOK'
  BY <1>1, <1>2, <1>3, FreshBehind, DriverWorks
<1> QED
  BY <1>1, <1>2, <1>4, DriverMoves

LEMMA AttendOK ==
  ASSUME FleetInv, NEW t \in Tasks, Attend(t)
  PROVE  StepOK
<1>1. UNCHANGED <<task, alerts, disk, rec, stream, proc, op, clock, calls>>
  BY DEF Attend, ledgerVars, recordVars, hostVars, bounds
<1>2. t \in drv.todo /\ drv.pc = "work" /\ drv.todo \subseteq Tracked /\ Tracked' = Tracked
  BY <1>1, TypeFacts DEF Attend, At, DriverOK, Tracked
<1>3. /\ drv' \in DriverType /\ drv'.cur = t /\ drv'.todo = drv.todo /\ drv'.snap = drv.snap
      /\ \/ drv'.pc = "poll"
         \/ drv'.pc = "publish" /\ stream[t].pending \in {"completed", "failed"}
  <2>1. \/ drv' = [drv EXCEPT !.pc = "poll", !.cur = t]
        \/ /\ drv' = [drv EXCEPT !.pc = "publish", !.cur = t]
           /\ stream[t].pending \in {"completed", "failed"}
    BY DEF Attend
  <2>2. drv \in DriverType
    BY DriverFacts
  <2>3. CASE drv' = [drv EXCEPT !.pc = "poll", !.cur = t]
    BY <2>2, <2>3 DEF DriverType
  <2>4. CASE /\ drv' = [drv EXCEPT !.pc = "publish", !.cur = t]
             /\ stream[t].pending \in {"completed", "failed"}
    BY <2>2, <2>4 DEF DriverType
  <2> QED
    BY <2>1, <2>3, <2>4
<1>4. DriverOK'
  BY <1>1, <1>2, <1>3, DriverFacts DEF DriverOK, Behind
<1> QED
  BY <1>1, <1>3, <1>4, DriverMoves

LEMMA AppendFailsOK ==
  ASSUME FleetInv, AppendFails
  PROVE  StepOK
<1>1. UNCHANGED <<task, alerts, disk, rec, stream, proc, op, clock, calls>>
  BY DEF AppendFails, ledgerVars, recordVars, hostVars
<1>2. drv' \in DriverType /\ drv'.pc = "end" /\ drv'.snap = NoSnap
  <2>1. "end" \in {"idle", "drive", "end"} /\ TRUE \in BOOLEAN
    OBVIOUS
  <2>2. drv' = [Down EXCEPT !.pc = "end", !.err = TRUE]
    BY DEF AppendFails
  <2> QED
    BY <2>1, <2>2, FromDown
<1> QED
  BY <1>1, <1>2, FreshBehind, DriverElsewhere, DriverMoves

LEMMA EndWorkOK ==
  ASSUME FleetInv, EndWork
  PROVE  StepOK
<1>1. UNCHANGED <<task, alerts, disk, rec, stream, proc, op, clock, calls>>
  BY DEF EndWork, ledgerVars, recordVars, hostVars, bounds
<1>2. drv' \in DriverType /\ drv'.pc = "settle" /\ drv'.snap = View
  BY GotoOK, DriverFacts, ViewOK DEF EndWork, PCs
<1> QED
  BY <1>1, <1>2, FreshBehind, DriverElsewhere, DriverMoves

LEMMA GiveUpOK ==
  ASSUME FleetInv, GiveUp
  PROVE  StepOK
<1>1. UNCHANGED <<task, alerts, disk, rec, stream, proc, op, clock, calls>>
  BY DEF GiveUp, ledgerVars, recordVars, hostVars, bounds
<1> QED
  BY <1>1, DownOK, FreshBehind, DriverElsewhere, DriverMoves DEF GiveUp

-----------------------------------------------------------------------------
(* Reconciling, and forgetting what has stopped. *)

\* A driver that has reconciled and is not about to launch.
LEMMA ReconcilingOK ==
  ASSUME FleetInv, UNCHANGED <<task, alerts, proc, op, clock, calls>>,
         NEW snap \in [Tasks -> TaskType], Behind(snap), NEW ev, Reconcile(snap, ev),
         drv' \in DriverType, drv'.snap = NoSnap,
         drv'.pc \notin {"start", "launch", "artifact", "work", "poll", "stamp", "limit",
                      "publish"},
         HostOK', \A t \in Tasks : StreamTrue(t)'
  PROVE  StepOK
<1>1. /\ disk' \in [Tasks -> RecordType] /\ rec' \in [Tasks -> RecordType]
      /\ \A t \in Tasks : Heir(t, disk'[t]) /\ Heir(t, rec'[t])
      /\ \A t \in Tasks : disk'[t].gen = disk[t].gen /\ rec'[t].gen = disk[t].gen
  BY ReconcileOK
<1>2. \A t \in Tasks : rec'[t].gen <= disk'[t].gen
  BY <1>1, Numbers
<1>3. DriverOK'
  BY FreshBehind, DriverElsewhere
<1>4. \A t \in Tasks : Launching(t)'
  BY DEF Launching
<1> QED
  BY <1>1, <1>2, <1>3, <1>4, RecordStep

LEMMA HostStays ==
  ASSUME FleetInv, UNCHANGED <<stream, proc>>
  PROVE  HostOK' /\ \A t \in Tasks : StreamTrue(t)'
BY TypeFacts DEF HostOK, StreamTrue, ExitOf

LEMMA ScheduleOK ==
  ASSUME FleetInv, Schedule
  PROVE  StepOK
<1> DEFINE pc == IF Verdict(drv.snap, NoEvidence) = "ready" THEN "beat" ELSE "drive"
           e == Verdict(drv.snap, NoEvidence) = "error"
<1>1. pc \in PCs /\ e \in BOOLEAN /\ pc \in {"beat", "drive"}
  BY DEF PCs
<1>2. drv' = [drv EXCEPT !.pc = pc, !.snap = NoSnap, !.err = e]
  BY Zenon DEF Schedule
<1> HIDE DEF pc, e
<1>3. drv' \in DriverType /\ drv'.pc = pc /\ drv'.snap = NoSnap
  <2>1. drv \in DriverType /\ NoSnap \in Snaps
    BY DriverFacts, NoSnapOK
  <2> QED
    BY <1>1, <1>2, <2>1 DEF DriverType, PCs, Snaps
<1>4. Reconcile(drv.snap, NoEvidence)
      /\ UNCHANGED <<task, alerts, proc, stream, op, clock, calls>>
  BY DEF Schedule, ledgerVars, hostVars, bounds
<1>5. drv.snap \in [Tasks -> TaskType] /\ Behind(drv.snap)
  BY DriverFacts DEF Snaps
<1> QED
  BY <1>1, <1>3, <1>4, <1>5, HostStays, ReconcilingOK

LEMMA DriveReconcileOK ==
  ASSUME FleetInv, DriveReconcile
  PROVE  StepOK
<1> DEFINE r == Verdict(drv.snap, Evidence) = "ready"
           e == drv.err \/ Verdict(drv.snap, Evidence) = "error"
<1>1. r \in BOOLEAN /\ e \in BOOLEAN
  OBVIOUS
<1>2. drv' = [drv EXCEPT !.pc = "check", !.snap = NoSnap, !.ready = r, !.err = e]
  BY Zenon DEF DriveReconcile
<1> HIDE DEF r, e
<1>3. drv' \in DriverType /\ drv'.pc = "check" /\ drv'.snap = NoSnap
  <2>1. drv \in DriverType /\ NoSnap \in Snaps
    BY DriverFacts, NoSnapOK
  <2> QED
    BY <1>1, <1>2, <2>1 DEF DriverType, PCs, Snaps
<1>4. Reconcile(drv.snap, Evidence)
      /\ UNCHANGED <<task, alerts, proc, stream, op, clock, calls>>
  BY DEF DriveReconcile, ledgerVars, hostVars, bounds
<1>5. drv.snap \in [Tasks -> TaskType] /\ Behind(drv.snap)
  BY DriverFacts DEF Snaps
<1> QED
  BY <1>3, <1>4, <1>5, HostStays, ReconcilingOK

LEMMA NoStreamOK == NoStream \in StreamType /\ NoStream.attempt = 0
BY FleetAssumption DEF NoStream, StreamType

LEMMA SettleOK ==
  ASSUME FleetInv, Settle
  PROVE  StepOK
<1> DEFINE e == drv.err \/ Verdict(drv.snap, Evidence) = "error"
           ready == Verdict(drv.snap, Evidence) = "ready"
<1>1. e \in BOOLEAN /\ "end" \in {"idle", "end"}
  OBVIOUS
<1>2. drv' = [Down EXCEPT !.pc = "end", !.err = e]
  BY Zenon DEF Settle
<1>3. /\ Reconcile(drv.snap, Evidence) /\ UNCHANGED <<task, alerts, proc, op, clock, calls>>
      /\ stream' = [t \in Tasks |-> IF stream[t].stopped /\ ready THEN NoStream ELSE stream[t]]
  BY DEF Settle, ledgerVars, bounds
<1> HIDE DEF e, ready
<1>4. drv' \in DriverType /\ drv'.pc = "end" /\ drv'.snap = NoSnap
  BY <1>1, <1>2, FromDown
<1>5. drv.snap \in [Tasks -> TaskType] /\ Behind(drv.snap)
  BY DriverFacts DEF Snaps
<1>6. stream \in [Tasks -> StreamType]
  BY TypeFacts DEF HostOK
<1>7. \A t \in Tasks : stream'[t] = NoStream \/ stream'[t] = stream[t]
  BY <1>3
<1>8. HostOK'
  BY <1>3, <1>6, <1>7, NoStreamOK, TypeFacts DEF HostOK
<1>9. \A t \in Tasks : StreamTrue(t)'
  BY <1>3, <1>7, NoStreamOK, TypeFacts DEF StreamTrue, ExitOf
<1> QED
  BY <1>3, <1>4, <1>5, <1>8, <1>9, ReconcilingOK

LEMMA FinishOK ==
  ASSUME FleetInv, Finish
  PROVE  StepOK
<1>1. Reconcile(task, NoEvidence) /\ UNCHANGED <<task, alerts, proc, stream, op, clock, calls>>
  BY DEF Finish, ledgerVars, hostVars, bounds
<1>2. drv' = [Down EXCEPT !.pc = "idle"] \/ drv' = Down
  BY DEF Finish
<1>3. drv' \in DriverType /\ drv'.pc \in {"idle", "down"} /\ drv'.snap = NoSnap
  <2>1. "idle" \in {"idle", "end"} /\ TRUE \in BOOLEAN
    OBVIOUS
  <2> QED
    BY <1>2, <2>1, FromDown, DownOK
<1>4. task \in [Tasks -> TaskType] /\ Behind(task)
  BY TypeFacts, Numbers DEF LedgerOK, Behind
<1> QED
  BY <1>1, <1>3, <1>4, HostStays, ReconcilingOK

-----------------------------------------------------------------------------
(* The driver writes the ledger. *)

\* One task changes.
LEMMA TaskMoves ==
  ASSUME FleetInv, NEW t \in Tasks, NEW e, Quiet(task[t], e), task' = [task EXCEPT ![t] = e]
  PROVE  /\ task' \in [Tasks -> TaskType] /\ task'[t] = e
         /\ \A u \in Tasks : u # t => task'[u] = task[u]
         /\ \A u \in Tasks : Quiet(task[u], task'[u])
<1>1. task \in [Tasks -> TaskType] /\ e \in TaskType
  BY TypeFacts DEF LedgerOK, Quiet
<1>2. /\ task' \in [Tasks -> TaskType] /\ task'[t] = e
      /\ \A u \in Tasks : u # t => task'[u] = task[u]
  BY <1>1
<1>3. \A u \in Tasks : Quiet(task[u], task[u])
  BY <1>1 DEF Quiet
<1> QED
  BY <1>2, <1>3

LEMMA FinalizedOK ==
  ASSUME FleetInv, NEW t \in Tasks, NEW n \in 0..(MaxCalls + 1),
         NEW status \in {"completed", "failed"}, task' = Finalized(t, n, status)
  PROVE  /\ task' \in [Tasks -> TaskType]
         /\ \A u \in Tasks : Quiet(task[u], task'[u])
         /\ \A u \in Tasks : task'[u].status = "completed" /\ task[u].status # "completed" =>
               u = t /\ task[t].attempts = n /\ task'[t].receipt = n /\ status = "completed"
<1>1. task \in [Tasks -> TaskType] /\ task[t] \in TaskType
  BY TypeFacts DEF LedgerOK
<1>2. CASE LeasedFor(t, n)
  <2> DEFINE e == [task[t] EXCEPT !.status = status, !.seq = task[t].seq + 1, !.receipt = n]
  <2>1. ASSUME NEW s \in TaskType, NEW x,
               x = [s EXCEPT !.status = status, !.seq = s.seq + 1, !.receipt = n]
        PROVE  x \in TaskType /\ x.attempts = s.attempts /\ x.status = status /\ x.receipt = n
    <3>1. s.seq + 1 \in Nat
      BY TaskFields
    <3> QED
      BY <2>1, <3>1 DEF TaskType
  <2>2. /\ e \in TaskType /\ e.attempts = task[t].attempts /\ e.status = status
        /\ e.receipt = n
    BY <1>1, <2>1
  <2>3. task' = [task EXCEPT ![t] = e]
    BY <1>1, <1>2 DEF Finalized
  <2>4. Leased(task[t]) /\ task[t].attempts = n
    BY <1>2 DEF LeasedFor
  <2> HIDE DEF e
  <2>5. Quiet(task[t], e)
    BY <2>2, <2>4 DEF Quiet, Closed
  <2> QED
    BY <2>2, <2>3, <2>4, <2>5, TaskMoves
<1>3. CASE ~LeasedFor(t, n)
  BY <1>1, <1>3 DEF Finalized, Quiet
<1> QED
  BY <1>2, <1>3

LEMMA SnapBehind ==
  ASSUME FleetInv, LedgerOK', Grows
  PROVE  /\ \A t \in Tasks : drv.snap[t].attempts <= task'[t].attempts
         /\ \A t \in Tasks : NoSnap[t].attempts <= task'[t].attempts
<1>1. \A t \in Tasks : task'[t].attempts \in Nat
  BY TaskFields DEF LedgerOK
<1> QED
  BY <1>1, DriverFacts, NoSnapOK, OthersBehind DEF Snaps

\* The driver goes on starting workers.
LEMMA DriverStarts ==
  ASSUME FleetInv, LedgerOK', Grows, drv.pc \in {"start", "launch", "artifact"},
         drv' \in DriverType, drv'.pc = "start", drv'.snap = drv.snap,
         drv'.todo \subseteq drv.todo
  PROVE  DriverOK'
<1>1. \A t \in drv.todo : drv.snap[t].attempts > 0
  BY TypeFacts DEF DriverOK
<1> QED
  BY <1>1, SnapBehind DEF DriverOK, Behind

\* The driver is done with one of the workers.
LEMMA AttendedOK ==
  ASSUME FleetInv, Attended
  PROVE  /\ drv' \in DriverType /\ drv'.pc = "work" /\ drv'.snap = drv.snap
         /\ drv'.todo \subseteq drv.todo
<1>1. ASSUME NEW d \in DriverType, NEW x,
             x = [d EXCEPT !.pc = "work", !.todo = d.todo \ {d.cur}, !.cur = NoTask]
      PROVE  x \in DriverType /\ x.pc = "work" /\ x.snap = d.snap /\ x.todo \subseteq d.todo
  BY <1>1 DEF DriverType
<1> QED
  BY <1>1, DriverFacts DEF Attended

\* The task that the driver has in hand.
LEMMA InHand ==
  ASSUME FleetInv, drv.pc \in {"launch", "artifact", "poll", "stamp", "limit", "publish"}
  PROVE  /\ drv.cur \in drv.todo /\ drv.cur \in Tasks
         /\ stream[drv.cur] \in StreamType
         /\ stream[drv.cur].attempt \in 0..(MaxCalls + 1)
         /\ drv.pc # "launch" =>
               stream[drv.cur].attempt > 0 /\ stream[drv.cur].attempt \in Attempts
<1>1. drv.cur \in drv.todo /\ drv.cur \in Tasks
  BY TypeFacts, DriverFacts DEF DriverOK
<1>2. stream[drv.cur] \in StreamType
  BY <1>1, TypeFacts DEF HostOK
<1>3. stream[drv.cur].attempt \in 0..(MaxCalls + 1)
  BY <1>2 DEF StreamType
<1>4. drv.pc # "launch" => stream[drv.cur].attempt > 0
  BY <1>1, TypeFacts DEF DriverOK, Tracked
<1> QED
  BY <1>1, <1>2, <1>3, <1>4, FleetAssumption DEF Attempts

\* A heartbeat or an event of a task.
LEMMA Beats ==
  ASSUME FleetInv, NEW s \in TaskType, NEW h \in 0..MaxTime
  PROVE  /\ Quiet(s, [s EXCEPT !.hb = h]) /\ [s EXCEPT !.hb = h].status = s.status
         /\ Quiet(s, [s EXCEPT !.seq = s.seq + 1])
         /\ [s EXCEPT !.seq = s.seq + 1].status = s.status
<1>1. s.seq + 1 \in Nat
  BY TaskFields
<1>2. ASSUME NEW x, x = [s EXCEPT !.hb = h]
      PROVE  Quiet(s, x) /\ x.status = s.status
  BY <1>2 DEF TaskType, Quiet
<1>3. ASSUME NEW x, x = [s EXCEPT !.seq = s.seq + 1]
      PROVE  Quiet(s, x) /\ x.status = s.status
  BY <1>1, <1>3 DEF TaskType, Quiet
<1> QED
  BY <1>2, <1>3

LEMMA BeatMoves ==
  ASSUME FleetInv, NEW t \in Tasks, NEW h \in 0..MaxTime,
         \/ task' = [task EXCEPT ![t].hb = h]
         \/ task' = [task EXCEPT ![t].seq = @ + 1]
  PROVE  /\ task' \in [Tasks -> TaskType]
         /\ \A u \in Tasks : Quiet(task[u], task'[u])
         /\ \A u \in Tasks : task'[u].status = task[u].status
<1>1. PICK e : /\ Quiet(task[t], e) /\ e.status = task[t].status
              /\ task' = [task EXCEPT ![t] = e]
  <2>1. \/ task' = [task EXCEPT ![t] = [task[t] EXCEPT !.hb = h]]
        \/ task' = [task EXCEPT ![t] = [task[t] EXCEPT !.seq = task[t].seq + 1]]
    BY TypeFacts DEF LedgerOK
  <2> QED
    BY <2>1, Beats, Numbers
<1> QED
  BY <1>1, TaskMoves

LEMMA ReadLeasesOK ==
  ASSUME FleetInv, ReadLeases
  PROVE  StepOK
<1>1. UNCHANGED <<task, alerts, disk, rec, stream, proc, op, clock, calls>>
  BY DEF ReadLeases, ledgerVars, recordVars, hostVars, bounds
<1>2. PICK snap : snap = [t \in Tasks |-> [NewTask EXCEPT !.hb = clock]]
  OBVIOUS
<1>3. snap \in Snaps /\ \A t \in Tasks : snap[t].attempts = 0
  <2>1. ASSUME NEW e, e = [NewTask EXCEPT !.hb = clock]
        PROVE  e \in TaskType /\ e.attempts = 0
    BY <2>1, TypeFacts, FleetAssumption DEF NewTask, TaskType
  <2> QED
    BY <1>2, <2>1 DEF Snaps
<1>4. drv' \in DriverType /\ drv'.pc = "beating" /\ drv'.snap = snap
  BY <1>2, <1>3, GotoOK DEF ReadLeases, PCs
<1>5. \A t \in Tasks : drv'.snap[t].attempts <= task'[t].attempts
  BY <1>1, <1>3, <1>4, Numbers
<1> QED
  BY <1>1, <1>4, <1>5, DriverElsewhere, DriverMoves

LEMMA BeatOK ==
  ASSUME FleetInv, NEW t \in Tasks, Beat(t)
  PROVE  StepOK
<1>1. /\ UNCHANGED <<alerts, disk, rec, stream, proc, op, clock, calls>>
      /\ task' = [task EXCEPT ![t].hb = drv.snap[t].hb]
      /\ Goto("beating", drv.todo \ {t}, drv.snap)
  BY DEF Beat, recordVars, hostVars, bounds
<1>2. drv.snap[t].hb \in 0..MaxTime
  BY DriverFacts, TaskFields DEF Snaps
<1>3. /\ task' \in [Tasks -> TaskType]
      /\ \A u \in Tasks : Quiet(task[u], task'[u]) /\ task'[u].status = task[u].status
  BY <1>1, <1>2, BeatMoves
<1>4. drv' \in DriverType /\ drv'.pc = "beating" /\ drv'.snap = drv.snap
  BY <1>1, GotoOK, DriverFacts DEF PCs
<1>5. LedgerOK' /\ Grows => DriverOK'
  BY <1>4, SnapBehind, DriverElsewhere
<1> QED
  BY <1>1, <1>3, <1>4, <1>5, DriverWrites

LEMMA EndBeatOK ==
  ASSUME FleetInv, EndBeat
  PROVE  StepOK
<1>1. UNCHANGED <<task, alerts, disk, rec, stream, proc, op, clock, calls>>
  BY DEF EndBeat, ledgerVars, recordVars, hostVars, bounds
<1>2. drv' \in DriverType /\ drv'.pc = "lease" /\ drv'.snap = NoSnap
  BY GotoOK, NoSnapOK DEF EndBeat, PCs
<1> QED
  BY <1>1, <1>2, FreshBehind, DriverElsewhere, DriverMoves

LEMMA RejectLaunchOK ==
  ASSUME FleetInv, NEW t \in Tasks, RejectLaunch(t)
  PROVE  StepOK
<1>1. /\ UNCHANGED <<alerts, disk, rec, stream, proc, op, clock, calls>>
      /\ task' = Finalized(t, drv.snap[t].attempts, "failed")
      /\ Goto("start", drv.todo \ {t}, drv.snap) /\ drv.pc = "start"
  BY DEF RejectLaunch, At, recordVars, hostVars, bounds
<1>2. drv.snap[t].attempts \in 0..(MaxCalls + 1)
  BY DriverFacts, TaskFields DEF Snaps
<1>3. /\ task' \in [Tasks -> TaskType]
      /\ \A u \in Tasks : Quiet(task[u], task'[u])
      /\ \A u \in Tasks : ~(task'[u].status = "completed" /\ task[u].status # "completed")
  BY <1>1, <1>2, FinalizedOK
<1>4. /\ drv' \in DriverType /\ drv'.pc = "start" /\ drv'.snap = drv.snap
      /\ drv'.todo \subseteq drv.todo
  BY <1>1, GotoOK, DriverFacts DEF PCs
<1>5. LedgerOK' /\ Grows => DriverOK'
  BY <1>1, <1>4, DriverStarts
<1> QED
  BY <1>1, <1>3, <1>4, <1>5, DriverWrites

\* The driver is done with starting the worker in hand.
LEMMA StartedOK ==
  ASSUME FleetInv, drv' = [drv EXCEPT !.pc = "start", !.todo = @ \ {drv.cur}, !.cur = NoTask]
  PROVE  /\ drv' \in DriverType /\ drv'.pc = "start" /\ drv'.snap = drv.snap
         /\ drv'.todo \subseteq drv.todo
<1>1. ASSUME NEW d \in DriverType, NEW x,
             x = [d EXCEPT !.pc = "start", !.todo = d.todo \ {d.cur}, !.cur = NoTask]
      PROVE  x \in DriverType /\ x.pc = "start" /\ x.snap = d.snap /\ x.todo \subseteq d.todo
  BY <1>1 DEF DriverType
<1> QED
  BY <1>1, DriverFacts

LEMMA LaunchFailsOK ==
  ASSUME FleetInv, LaunchFails
  PROVE  StepOK
<1>1. /\ UNCHANGED <<alerts, disk, rec, stream, proc, op, clock, calls>>
      /\ task' = Finalized(drv.cur, drv.snap[drv.cur].attempts, "failed")
      /\ drv' = [drv EXCEPT !.pc = "start", !.todo = @ \ {drv.cur}, !.cur = NoTask]
      /\ drv.pc = "launch"
  BY DEF LaunchFails, At, recordVars, hostVars
<1>2. drv.cur \in Tasks /\ drv.snap[drv.cur].attempts \in 0..(MaxCalls + 1)
  BY <1>1, InHand, DriverFacts, TaskFields DEF Snaps
<1>3. /\ task' \in [Tasks -> TaskType]
      /\ \A u \in Tasks : Quiet(task[u], task'[u])
      /\ \A u \in Tasks : ~(task'[u].status = "completed" /\ task[u].status # "completed")
  BY <1>1, <1>2, FinalizedOK, SMTT(30)
<1>4. /\ drv' \in DriverType /\ drv'.pc = "start" /\ drv'.snap = drv.snap
      /\ drv'.todo \subseteq drv.todo
  BY <1>1, StartedOK
<1>5. LedgerOK' /\ Grows => DriverOK'
  BY <1>1, <1>4, DriverStarts
<1> QED
  BY <1>1, <1>3, <1>4, <1>5, DriverWrites

\* The driver turns from the worker in hand to the ones left.
LEMMA WorksOn ==
  ASSUME FleetInv, drv.pc \in {"poll", "limit", "publish"}, Attended,
         \A t \in Tasks : stream'[t].attempt = stream[t].attempt
  PROVE  drv'.pc # "launch" /\ (LedgerOK' /\ Grows => DriverOK')
<1>1. drv.todo \subseteq Tracked
  BY TypeFacts DEF DriverOK
<1>2. Tracked' = Tracked
  BY DEF Tracked
<1> QED
  BY <1>1, <1>2, AttendedOK, SnapBehind, DriverWorks

\* The driver keeps the worker in hand.
LEMMA StaysWith ==
  ASSUME FleetInv, drv.pc \in {"poll", "stamp"}, UNCHANGED stream,
         NEW pc \in {"poll", "stamp", "limit"}, drv' = [drv EXCEPT !.pc = pc]
  PROVE  drv'.pc = pc /\ (LedgerOK' /\ Grows => DriverOK')
<1>1. /\ drv' \in DriverType /\ drv'.pc = pc /\ drv'.todo = drv.todo
      /\ drv'.cur = drv.cur /\ drv'.snap = drv.snap
  BY DriverFacts DEF DriverType
<1>2. drv.todo \subseteq Tracked /\ drv.cur \in drv.todo /\ Tracked' = Tracked
  BY TypeFacts DEF DriverOK, Tracked
<1> QED
  BY <1>1, <1>2, SnapBehind DEF DriverOK, Behind

LEMMA ReportOK ==
  ASSUME FleetInv, Report
  PROVE  StepOK
<1>1. /\ UNCHANGED <<alerts, disk, rec, stream, proc, op, clock, calls>> /\ drv.pc = "poll"
      /\ task' = [task EXCEPT ![drv.cur].seq = @ + 1] /\ drv' = [drv EXCEPT !.pc = "stamp"]
  BY DEF Report, At, recordVars, hostVars, bounds
<1>2. /\ task' \in [Tasks -> TaskType]
      /\ \A u \in Tasks : Quiet(task[u], task'[u]) /\ task'[u].status = task[u].status
  BY <1>1, InHand, BeatMoves, TypeFacts
<1> QED
  BY <1>1, <1>2, StaysWith, DriverWrites

LEMMA StampOK ==
  ASSUME FleetInv, Stamp
  PROVE  StepOK
<1>1. /\ UNCHANGED <<alerts, disk, rec, stream, proc, op, clock, calls>> /\ drv.pc = "stamp"
      /\ task' = [task EXCEPT ![drv.cur].hb = clock] /\ drv' = [drv EXCEPT !.pc = "poll"]
  BY DEF Stamp, At, recordVars, hostVars, bounds
<1>2. /\ task' \in [Tasks -> TaskType]
      /\ \A u \in Tasks : Quiet(task[u], task'[u]) /\ task'[u].status = task[u].status
  BY <1>1, InHand, BeatMoves, TypeFacts
<1> QED
  BY <1>1, <1>2, StaysWith, DriverWrites

\* The ledger stands still.
LEMMA LedgerStays ==
  ASSUME FleetInv, UNCHANGED <<task, alerts>>
  PROVE  LedgerOK' /\ Grows
<1>1. LedgerOK /\ alerts \subseteq Tasks \X Attempts
  BY TypeFacts DEF LedgerOK
<1>2. LedgerOK'
  BY <1>1 DEF LedgerOK
<1>3. Grows
  BY Numbers DEF Grows
<1> QED
  BY <1>2, <1>3

LEMMA RunningOK ==
  ASSUME FleetInv, Running
  PROVE  StepOK
<1>1. /\ UNCHANGED <<task, alerts, disk, rec, stream, proc, op, clock, calls>>
      /\ drv.pc = "poll" /\ drv' = [drv EXCEPT !.pc = "limit"]
  BY DEF Running, At, ledgerVars, recordVars, hostVars, bounds
<1> QED
  BY <1>1, StaysWith, LedgerStays, DriverMoves

LEMMA WithinLimitOK ==
  ASSUME FleetInv, WithinLimit
  PROVE  StepOK
<1>1. /\ UNCHANGED <<task, alerts, disk, rec, stream, proc, op, clock, calls>>
      /\ drv.pc = "limit" /\ Attended
  BY DEF WithinLimit, At, ledgerVars, recordVars, hostVars, bounds
<1> QED
  BY <1>1, WorksOn, LedgerStays, DriverMoves

LEMMA PublishOK ==
  ASSUME FleetInv, Publish
  PROVE  StepOK
<1>1. /\ UNCHANGED <<alerts, disk, rec, stream, proc, op, clock, calls>>
      /\ Attended /\ drv.pc = "publish"
      /\ task' = Finalized(drv.cur, stream[drv.cur].attempt, stream[drv.cur].pending)
  BY DEF Publish, At, recordVars, hostVars, bounds
<1>2. PICK t : t = drv.cur
  OBVIOUS
<1>3. /\ t \in Tasks /\ stream[t].attempt \in 0..(MaxCalls + 1) /\ stream[t].attempt > 0
      /\ stream[t].pending \in {"completed", "failed"}
  BY <1>1, <1>2, InHand, TypeFacts DEF DriverOK
<1>4. /\ task' \in [Tasks -> TaskType]
      /\ \A u \in Tasks : Quiet(task[u], task'[u])
      /\ \A u \in Tasks : task'[u].status = "completed" /\ task[u].status # "completed" =>
            /\ u = t /\ task[t].attempts = stream[t].attempt
            /\ task'[t].receipt = stream[t].attempt /\ stream[t].pending = "completed"
  BY <1>1, <1>2, <1>3, FinalizedOK
<1>5. stream[t].pending = "completed" => proc[t][stream[t].attempt] = "ok"
  BY <1>3, TypeFacts DEF StreamTrue, ExitOf
<1> QED
  BY <1>1, <1>4, <1>5, WorksOn, DriverWrites

-----------------------------------------------------------------------------
(* Processes. *)

\* How a process may end.
Ends(a, b) == a = b \/ (a = "alive" /\ b \in {"ok", "bad"})

ProcEnds ==
    /\ proc' \in [Tasks -> [Attempts -> {"none", "alive", "ok", "bad"}]]
    /\ \A t \in Tasks, n \in Attempts : Ends(proc[t][n], proc'[t][n])

LEMMA ProcSet ==
  ASSUME FleetInv, NEW t \in Tasks, NEW n \in Attempts, NEW how,
         Ends(proc[t][n], how), proc' = [proc EXCEPT ![t][n] = how]
  PROVE  ProcEnds /\ proc'[t][n] = how /\ \A m \in Attempts : m # n => proc'[t][m] = proc[t][m]
<1>1. proc \in [Tasks -> [Attempts -> {"none", "alive", "ok", "bad"}]]
  BY TypeFacts DEF HostOK
<1>2. how \in {"none", "alive", "ok", "bad"}
  BY <1>1 DEF Ends
<1> QED
  BY <1>1, <1>2 DEF ProcEnds, Ends

LEMMA KilledOK ==
  ASSUME FleetInv, NEW t \in Tasks, stream[t].attempt > 0, proc' = Killed(t)
  PROVE  ProcEnds /\ proc'[t][stream[t].attempt] # "alive" /\ stream[t].attempt \in Attempts
<1>1. stream[t].attempt \in Attempts
  BY TypeFacts, FleetAssumption DEF HostOK, StreamType, Attempts
<1>2. PICK n \in Attempts : n = stream[t].attempt
  BY <1>1
<1>3. proc \in [Tasks -> [Attempts -> {"none", "alive", "ok", "bad"}]]
  BY TypeFacts DEF HostOK
<1> DEFINE how == IF proc[t][n] = "alive" THEN "bad" ELSE proc[t][n]
<1>4. proc' = [proc EXCEPT ![t][n] = how]
  BY <1>2, <1>3 DEF Killed
<1>5. Ends(proc[t][n], how) /\ how # "alive"
  BY DEF Ends
<1> HIDE DEF how
<1>6. ProcEnds /\ proc'[t][n] = how
  BY <1>4, <1>5, ProcSet, ZenonT(30)
<1> QED
  BY <1>1, <1>2, <1>5, <1>6

\* A process that is tracked ends, or what is tracked of it changes.
LEMMA ProcStep ==
  ASSUME FleetInv, UNCHANGED <<task, alerts, disk, rec, op, clock, calls>>,
         ProcEnds, stream' \in [Tasks -> StreamType],
         \A t \in Tasks : stream'[t].attempt > 0 =>
             /\ stream'[t].attempt = stream[t].attempt
             /\ stream'[t].stopped => stream[t].stopped \/ proc'[t][stream[t].attempt] # "alive"
             /\ stream'[t].pending = "completed" =>
                   stream[t].pending = "completed" \/ proc[t][stream[t].attempt] = "ok",
         drv' = drv \/ drv'.pc # "launch", DriverOK'
  PROVE  StepOK
<1>1. HostOK'
  BY DEF HostOK, ProcEnds
<1>2. ASSUME NEW t \in Tasks
      PROVE  StreamTrue(t)'
  <2> SUFFICES ASSUME stream'[t].attempt > 0
               PROVE  /\ proc'[t][stream'[t].attempt] # "none"
                      /\ stream'[t].stopped => proc'[t][stream'[t].attempt] # "alive"
                      /\ stream'[t].pending = "completed" => proc'[t][stream'[t].attempt] = "ok"
    BY DEF StreamTrue, ExitOf
  <2>1. PICK n : n = stream[t].attempt
    OBVIOUS
  <2>2. n > 0 /\ stream'[t].attempt = n /\ n \in Attempts
    BY <2>1, TypeFacts, FleetAssumption DEF HostOK, StreamType, Attempts
  <2>3. /\ proc[t][n] # "none" /\ (stream[t].stopped => proc[t][n] # "alive")
        /\ stream[t].pending = "completed" => proc[t][n] = "ok"
    BY <2>1, <2>2, TypeFacts DEF StreamTrue, ExitOf
  <2>4. Ends(proc[t][n], proc'[t][n])
    BY <2>2 DEF ProcEnds
  <2> QED
    BY <2>1, <2>2, <2>3, <2>4 DEF Ends
<1>3. /\ \A t \in Tasks, n \in Attempts : proc'[t][n] # "none" => proc[t][n] # "none"
      /\ \A t \in Tasks, n \in Attempts : proc[t][n] = "ok" => proc'[t][n] = "ok"
  BY DEF ProcEnds, Ends
<1> QED
  BY <1>1, <1>2, <1>3, HostStep

LEMMA ExitOK ==
  ASSUME FleetInv, NEW t \in Tasks, Exit(t)
  PROVE  StepOK
<1>1. PICK n \in Attempts, how \in {"ok", "bad"} :
          proc[t][n] = "alive" /\ proc' = [proc EXCEPT ![t][n] = how]
  BY DEF Exit
<1>2. UNCHANGED <<task, alerts, disk, rec, op, clock, calls, stream, drv>>
  BY DEF Exit, ledgerVars, recordVars, bounds
<1>3. Ends(proc[t][n], how)
  BY <1>1 DEF Ends
<1>4. ProcEnds
  BY <1>1, <1>3, ProcSet
<1>5. stream \in [Tasks -> StreamType]
  BY TypeFacts DEF HostOK
<1>6. DriverOK'
  BY <1>2, TypeFacts, DriverFacts DEF DriverOK, Behind, Tracked
<1> QED
  BY <1>2, <1>4, <1>5, <1>6, ProcStep

LEMMA OrphanDiesOK ==
  ASSUME FleetInv, NEW t \in Tasks, OrphanDies(t)
  PROVE  StepOK
<1>1. PICK n \in Attempts :
          proc[t][n] = "alive" /\ proc' = [proc EXCEPT ![t][n] = "bad"]
  BY DEF OrphanDies
<1>2. UNCHANGED <<task, alerts, disk, rec, op, clock, calls, stream, drv>>
  BY DEF OrphanDies, ledgerVars, recordVars, bounds
<1>3. Ends(proc[t][n], "bad")
  BY <1>1 DEF Ends
<1>4. ProcEnds
  BY <1>1, <1>3, ProcSet
<1>5. stream \in [Tasks -> StreamType]
  BY TypeFacts DEF HostOK
<1>6. DriverOK'
  BY <1>2, TypeFacts, DriverFacts DEF DriverOK, Behind, Tracked
<1> QED
  BY <1>2, <1>4, <1>5, <1>6, ProcStep

LEMMA FenceOK ==
  ASSUME FleetInv, NEW t \in Tasks, Fence(t)
  PROVE  StepOK
<1>1. /\ UNCHANGED <<task, alerts, disk, rec, op, clock, calls>>
      /\ proc' = Killed(t) /\ stream' = [stream EXCEPT ![t].stopped = TRUE]
      /\ Goto("work", drv.todo \ {t}, NoSnap) /\ drv.pc = "work" /\ t \in drv.todo
  BY DEF Fence, At, ledgerVars, recordVars, bounds
<1>2. stream \in [Tasks -> StreamType] /\ drv.todo \subseteq Tracked
  BY <1>1, TypeFacts DEF HostOK, DriverOK
<1>3. stream[t].attempt > 0
  BY <1>1, <1>2 DEF Tracked
<1>4. ProcEnds /\ proc'[t][stream[t].attempt] # "alive"
  BY <1>1, <1>3, KilledOK
<1>5. /\ stream' \in [Tasks -> StreamType]
      /\ \A u \in Tasks : u # t => stream'[u] = stream[u]
      /\ stream'[t].attempt = stream[t].attempt /\ stream'[t].pending = stream[t].pending
  BY <1>1, <1>2 DEF StreamType
<1>6. drv' \in DriverType /\ drv'.pc = "work" /\ drv'.snap = NoSnap /\ drv'.todo \subseteq drv.todo
  BY <1>1, GotoOK, NoSnapOK, DriverFacts DEF PCs
<1>7. Tracked' = Tracked
  BY <1>5 DEF Tracked
<1>8. DriverOK'
  BY <1>1, <1>2, <1>6, <1>7, FreshBehind, DriverWorks
<1> QED
  BY <1>1, <1>4, <1>5, <1>6, <1>8, ProcStep

\* The driver has seen the worker in hand end, or has ended it.
LEMMA OutcomeKept ==
  ASSUME FleetInv, UNCHANGED <<task, alerts, disk, rec, op, clock, calls>>, ProcEnds,
         drv.pc \in {"poll", "limit"}, NEW t, t = drv.cur, NEW p,
         p \in {"none", "observed", "completed", "failed"},
         stream' = [stream EXCEPT ![t].stopped = TRUE, ![t].pending = p],
         proc'[t][stream[t].attempt] # "alive",
         p = "completed" => stream[t].pending = "completed" \/ ExitOf(t) = "ok",
         \/ Attended
         \/ drv' = [drv EXCEPT !.pc = "publish"] /\ p \in {"completed", "failed"}
  PROVE  StepOK
<1>1. t \in Tasks /\ t \in drv.todo /\ drv.todo \subseteq Tracked
  BY TypeFacts, InHand DEF DriverOK
<1>2. stream \in [Tasks -> StreamType]
  BY TypeFacts DEF HostOK
<1>3. /\ stream' \in [Tasks -> StreamType]
      /\ \A u \in Tasks : u # t => stream'[u] = stream[u]
      /\ stream'[t].attempt = stream[t].attempt /\ stream'[t].pending = p
  <2> DEFINE e == [stream[t] EXCEPT !.stopped = TRUE, !.pending = p]
  <2>1. ASSUME NEW s \in StreamType, NEW x, x = [s EXCEPT !.stopped = TRUE, !.pending = p]
        PROVE  x \in StreamType /\ x.attempt = s.attempt /\ x.pending = p
    BY <2>1 DEF StreamType
  <2>2. e \in StreamType /\ e.attempt = stream[t].attempt /\ e.pending = p
    BY <1>1, <1>2, <2>1
  <2>3. stream' = [stream EXCEPT ![t] = e]
    BY <1>1, <1>2
  <2> HIDE DEF e
  <2> QED
    BY <1>1, <1>2, <2>2, <2>3
<1>4. \A u \in Tasks : stream'[u].attempt = stream[u].attempt
  BY <1>3
<1>5. DriverOK' /\ drv'.pc # "launch"
  <2>1. CASE Attended
    <3>1. LedgerOK' /\ Grows
      BY TypeFacts, Numbers DEF LedgerOK, Grows
    <3> QED
      BY <2>1, <3>1, <1>4, WorksOn
  <2>2. CASE drv' = [drv EXCEPT !.pc = "publish"] /\ p \in {"completed", "failed"}
    <3>1. /\ drv' \in DriverType /\ drv'.pc = "publish" /\ drv'.snap = drv.snap
          /\ drv'.todo = drv.todo /\ drv'.cur = drv.cur
      BY <2>2, DriverFacts DEF DriverType
    <3>2. Tracked' = Tracked
      BY <1>4 DEF Tracked
    <3> QED
      BY <1>1, <1>3, <2>2, <3>1, <3>2, DriverFacts DEF DriverOK, Behind
  <2> QED
    BY <2>1, <2>2
<1> QED
  BY <1>1, <1>3, <1>5, ProcStep DEF ExitOf

LEMMA ObserveOK ==
  ASSUME FleetInv, Observe
  PROVE  StepOK
<1>1. PICK t : t = drv.cur
  OBVIOUS
<1> DEFINE held == LeasedFor(t, stream[t].attempt)
           p == IF ~held THEN "observed" ELSE IF ExitOf(t) = "ok" THEN "completed" ELSE "failed"
<1>2. /\ UNCHANGED <<task, alerts, disk, rec, op, clock, calls, proc>>
      /\ drv.pc = "poll" /\ ExitOf(t) # "alive"
      /\ stream' = [stream EXCEPT ![t].stopped = TRUE, ![t].pending = p]
      /\ IF held THEN drv' = [drv EXCEPT !.pc = "publish"] ELSE Attended
  BY <1>1 DEF Observe, At, ledgerVars, recordVars, bounds
<1>3. /\ p \in {"none", "observed", "completed", "failed"}
      /\ p = "completed" => ExitOf(t) = "ok"
      /\ held => p \in {"completed", "failed"}
  OBVIOUS
<1>4. Attended \/ (drv' = [drv EXCEPT !.pc = "publish"] /\ p \in {"completed", "failed"})
  BY <1>2, <1>3
<1> HIDE DEF held, p
<1>5. ProcEnds /\ proc'[t][stream[t].attempt] # "alive"
  BY <1>2, TypeFacts DEF ProcEnds, Ends, HostOK, ExitOf
<1> QED
  BY <1>1, <1>2, <1>3, <1>4, <1>5, OutcomeKept

LEMMA TimeoutOK ==
  ASSUME FleetInv, Timeout
  PROVE  StepOK
<1>1. PICK t : t = drv.cur
  OBVIOUS
<1> DEFINE held == LeasedFor(t, stream[t].attempt)
           p == IF held THEN "failed" ELSE stream[t].pending
<1>2. drv.pc = "limit"
  BY DEF Timeout, At
<1>3. /\ t \in Tasks /\ stream \in [Tasks -> StreamType] /\ stream[t].attempt > 0
      /\ stream[t].pending \in {"none", "observed", "completed", "failed"}
  BY <1>1, <1>2, InHand, TypeFacts DEF HostOK, StreamType
<1>4. /\ UNCHANGED <<task, alerts, disk, rec, op, clock, calls>>
      /\ proc' = Killed(t)
      /\ stream' = [stream EXCEPT ![t].stopped = TRUE, ![t].pending = p]
      /\ IF held THEN drv' = [drv EXCEPT !.pc = "publish"] ELSE Attended
  BY <1>1, <1>3 DEF Timeout, At, ledgerVars, recordVars, bounds
<1>5. /\ p \in {"none", "observed", "completed", "failed"}
      /\ p = "completed" => stream[t].pending = "completed"
      /\ held => p \in {"completed", "failed"}
  BY <1>3
<1>6. Attended \/ (drv' = [drv EXCEPT !.pc = "publish"] /\ p \in {"completed", "failed"})
  BY <1>4, <1>5
<1> HIDE DEF held, p
<1>7. ProcEnds /\ proc'[t][stream[t].attempt] # "alive"
  BY <1>3, <1>4, KilledOK
<1> QED
  BY <1>1, <1>2, <1>4, <1>5, <1>6, <1>7, OutcomeKept

-----------------------------------------------------------------------------
(* Starting a worker. *)

LEMMA ArtifactOK ==
  ASSUME FleetInv, Artifact
  PROVE  StepOK
<1>1. PICK t : t = drv.cur
  OBVIOUS
<1>2. /\ UNCHANGED <<alerts, disk, rec, op, clock, calls>> /\ drv.pc = "artifact"
      /\ drv' = [drv EXCEPT !.pc = "start", !.todo = @ \ {drv.cur}, !.cur = NoTask]
  BY DEF Artifact, At, recordVars, bounds
<1>3. /\ drv' \in DriverType /\ drv'.pc = "start" /\ drv'.snap = drv.snap
      /\ drv'.todo \subseteq drv.todo
  BY <1>2, StartedOK
<1>4. LedgerOK' /\ Grows => DriverOK'
  BY <1>2, <1>3, DriverStarts
<1>5. t \in Tasks /\ stream[t].attempt > 0
  BY <1>1, <1>2, InHand
<1>6. task \in [Tasks -> TaskType] /\ stream \in [Tasks -> StreamType]
  BY TypeFacts DEF LedgerOK, HostOK
<1>7. CASE LeasedFor(t, stream[t].attempt)
  <2>1. task' = [task EXCEPT ![t].seq = @ + 1] /\ UNCHANGED <<stream, proc>>
    BY <1>1, <1>7 DEF Artifact, hostVars
  <2>2. ASSUME NEW s \in TaskType, NEW x, x = [s EXCEPT !.seq = s.seq + 1]
        PROVE  Quiet(s, x) /\ x.status = s.status
    <3>1. s.seq + 1 \in Nat
      BY TaskFields
    <3> QED
      BY <2>2, <3>1 DEF TaskType, Quiet
  <2> DEFINE e == [task[t] EXCEPT !.seq = task[t].seq + 1]
  <2>3. Quiet(task[t], e) /\ e.status = task[t].status
    BY <1>5, <1>6, <2>2
  <2>4. task' = [task EXCEPT ![t] = e]
    BY <1>5, <1>6, <2>1
  <2> HIDE DEF e
  <2>5. /\ task' \in [Tasks -> TaskType] /\ \A u \in Tasks : Quiet(task[u], task'[u])
        /\ \A u \in Tasks : task'[u].status = task[u].status
    BY <1>5, <2>3, <2>4, TaskMoves
  <2> QED
    BY <1>2, <1>3, <1>4, <2>1, <2>5, DriverWrites
<1>8. CASE ~LeasedFor(t, stream[t].attempt)
  <2>1. proc' = Killed(t) /\ stream' = [stream EXCEPT ![t] = NoStream] /\ UNCHANGED task
    BY <1>1, <1>8 DEF Artifact
  <2>2. LedgerOK' /\ Grows
    BY <1>2, <2>1, TypeFacts, Numbers DEF LedgerOK, Grows
  <2>3. /\ stream' \in [Tasks -> StreamType] /\ stream'[t].attempt = 0
        /\ \A u \in Tasks : u # t => stream'[u] = stream[u]
    BY <1>5, <1>6, <2>1, NoStreamOK
  <2>4. ProcEnds
    BY <1>5, <2>1, KilledOK
  <2> QED
    BY <1>2, <1>3, <1>4, <2>1, <2>2, <2>3, <2>4, ProcStep
<1> QED
  BY <1>7, <1>8

\* The attempt being launched.
LEMMA LaunchFacts ==
  ASSUME FleetInv, drv.pc = "launch", NEW t, t = drv.cur, NEW n, n = drv.snap[t].attempts
  PROVE  /\ t \in Tasks /\ n \in Attempts /\ n > 0 /\ n <= task[t].attempts
         /\ n \in 0..(MaxCalls + 1)
         /\ proc[t][n] = "none" /\ Consumed(disk[t], n) /\ Consumed(rec[t], n)
<1>1. t \in Tasks /\ t \in drv.todo
  BY InHand
<1>2. n \in 0..(MaxCalls + 1) /\ n <= task[t].attempts
  BY <1>1, DriverFacts, TaskFields DEF Snaps, Behind
<1>3. n > 0
  BY <1>1, TypeFacts DEF DriverOK
<1>4. Launching(t)
  BY <1>1, TypeFacts DEF LaunchedOnce
<1> QED
  BY <1>1, <1>2, <1>3, <1>4, FleetAssumption DEF Launching, Attempts

LEMMA LaunchOK ==
  ASSUME FleetInv, Launch
  PROVE  StepOK
<1>1. PICK t : t = drv.cur
  OBVIOUS
<1>2. PICK n : n = drv.snap[t].attempts
  OBVIOUS
<1>3. /\ UNCHANGED <<task, alerts, disk, rec, op, clock, calls>> /\ drv.pc = "launch"
      /\ proc' = [proc EXCEPT ![t][n] = "alive"]
      /\ stream' = [stream EXCEPT ![t] = [NoStream EXCEPT !.attempt = n]]
      /\ drv' = [drv EXCEPT !.pc = "artifact"]
  BY <1>1, <1>2 DEF Launch, At, ledgerVars, recordVars, bounds
<1>4. /\ t \in Tasks /\ n \in Attempts /\ n > 0 /\ n <= task[t].attempts
      /\ n \in 0..(MaxCalls + 1)
      /\ proc[t][n] = "none" /\ Consumed(disk[t], n) /\ Consumed(rec[t], n)
  BY <1>1, <1>2, <1>3, LaunchFacts
<1>5. proc \in [Tasks -> [Attempts -> {"none", "alive", "ok", "bad"}]]
      /\ stream \in [Tasks -> StreamType]
  BY TypeFacts DEF HostOK
<1>6. /\ proc' \in [Tasks -> [Attempts -> {"none", "alive", "ok", "bad"}]]
      /\ proc'[t][n] = "alive"
      /\ \A u \in Tasks, m \in Attempts : u # t \/ m # n => proc'[u][m] = proc[u][m]
  BY <1>3, <1>4, <1>5
<1>7. /\ stream' \in [Tasks -> StreamType]
      /\ \A u \in Tasks : u # t => stream'[u] = stream[u]
      /\ stream'[t].attempt = n /\ ~stream'[t].stopped /\ stream'[t].pending = "none"
  <2>1. ASSUME NEW x, x = [NoStream EXCEPT !.attempt = n]
        PROVE  x \in StreamType /\ x.attempt = n /\ ~x.stopped /\ x.pending = "none"
    BY <1>4, <2>1 DEF StreamType, NoStream
  <2> QED
    BY <1>3, <1>4, <1>5, <2>1
<1>8. /\ LedgerOK' /\ OperatorsOK' /\ KeepsOutcome /\ clock' \in 0..MaxTime
      /\ calls' \in 0..MaxCalls
  BY <1>3, TypeFacts DEF LedgerOK, OperatorsOK, Behind, KeepsOutcome, CallOK
<1>9. RecordsOK' /\ LeaseNumbered' /\ Accounted'
  BY <1>3, TypeFacts DEF RecordsOK, LeaseNumbered, Numbered, PreparedAhead, Accounted, Restarting
<1>10. DriverOK'
  <2>1. /\ drv' \in DriverType /\ drv'.pc = "artifact" /\ drv'.snap = drv.snap
        /\ drv'.todo = drv.todo /\ drv'.cur = t
    BY <1>1, <1>3, DriverFacts DEF DriverType
  <2>2. t \in Tracked' /\ t \in drv.todo
    BY <1>1, <1>3, <1>4, <1>7, InHand DEF Tracked
  <2>3. \A u \in drv.todo : drv.snap[u].attempts > 0
    BY <1>3, TypeFacts DEF DriverOK
  <2> QED
    BY <1>3, <2>1, <2>2, <2>3, DriverFacts DEF DriverOK, Behind
<1>11. HostOK'
  BY <1>6, <1>7 DEF HostOK
<1>12. ASSUME NEW u \in Tasks
       PROVE  StreamTrue(u)'
  <2>1. CASE u = t
    BY <1>6, <1>7, <2>1 DEF StreamTrue, ExitOf
  <2>2. CASE u # t
    <3>1. stream'[u] = stream[u] /\ proc'[u] = proc[u] /\ StreamTrue(u)
      BY <1>3, <1>4, <1>5, <1>7, <2>2, TypeFacts
    <3> QED
      BY <3>1 DEF StreamTrue, ExitOf
  <2> QED
    BY <2>1, <2>2
<1>13. ASSUME NEW u \in Tasks
       PROVE  CompletedTrue(u)'
  <2> SUFFICES ASSUME task[u].status = "completed"
               PROVE  task[u].receipt = task[u].attempts /\ proc'[u][task[u].attempts] = "ok"
    BY <1>3 DEF CompletedTrue
  <2>1. task[u].receipt = task[u].attempts /\ proc[u][task[u].attempts] = "ok"
    BY TypeFacts DEF CompletedTrue
  <2>2. task[u].attempts # 0
    BY TypeFacts DEF LedgerOK
  <2>3. task[u].attempts \in Attempts
    BY <2>2, Numbers, TaskFields, FleetAssumption DEF Attempts
  <2> QED
    BY <1>4, <1>6, <2>1, <2>3
<1>14. ASSUME NEW u \in Tasks
       PROVE  LaunchedOnce(u)'
  <2>1. LaunchedOnce(u)
    BY TypeFacts
  <2>2. \A m \in Attempts : proc'[u][m] # "none" => m <= task[u].attempts
    BY <1>4, <1>6, <2>1 DEF LaunchedOnce
  <2>3. \A m \in Attempts : proc'[u][m] # "none" => Consumed(disk[u], m) /\ Consumed(rec[u], m)
    BY <1>4, <1>6, <2>1 DEF LaunchedOnce, Spent
  <2>4. Spent(u, disk[u])' /\ Spent(u, rec[u])'
    BY <1>3, <2>3 DEF Spent, Consumed
  <2>5. Launching(u)'
    BY <1>3, DriverFacts DEF Launching, DriverType
  <2> QED
    BY <1>3, <2>2, <2>4, <2>5 DEF LaunchedOnce
<1>15. Grows
  BY <1>3, Numbers DEF Grows
<1> QED
  BY <1>8, <1>9, <1>10, <1>11, <1>12, <1>13, <1>14, <1>15, StepParts

LEMMA ActivateOK ==
  ASSUME FleetInv, NEW t \in Tasks, Activate(t)
  PROVE  StepOK
<1>1. PICK r : r = Refreshed(t)
  OBVIOUS
<1>2. PICK n : n = drv.snap[t].attempts
  OBVIOUS
<1>3. PICK a : a = Activated(r)
  OBVIOUS
<1>4. /\ UNCHANGED <<task, alerts, stream, proc, op, clock, calls>>
      /\ drv.pc = "start" /\ t \in drv.todo /\ Launchable(r, n)
      /\ rec' = [rec EXCEPT ![t] = a] /\ disk' = [disk EXCEPT ![t] = Merged(disk[t], a)]
      /\ drv' = [drv EXCEPT !.pc = "launch", !.cur = t]
  BY <1>1, <1>2, <1>3 DEF Activate, At, ledgerVars, hostVars, bounds
<1>5. Heir(t, r) /\ Good(r) /\ r.gen = disk[t].gen /\ r.gen = n
  BY <1>1, <1>4, RefreshedOK DEF Heir, Launchable
<1>6. Succeeds(r, a) /\ \A m \in Attempts : Consumed(a, m)
  BY <1>3, <1>4, <1>5, ActivatedOK
<1>7. n \in 0..(MaxCalls + 1) /\ n <= task[t].attempts /\ n > 0 /\ n \in Attempts
  <2>1. n \in 0..(MaxCalls + 1) /\ n <= task[t].attempts
    BY <1>2, DriverFacts, TaskFields DEF Snaps, Behind
  <2>2. n > 0
    BY <1>2, <1>4, TypeFacts DEF DriverOK
  <2> QED
    BY <2>1, <2>2, FleetAssumption DEF Attempts
<1>8. Heir(t, a) /\ a.gen = disk[t].gen /\ a \in RecordType
  <2>1. ~(r.gen > task[t].attempts)
    BY <1>5, <1>7, Numbers
  <2> QED
    BY <1>5, <1>6, <2>1, HeirSucceeds DEF Succeeds, Good
<1>9. proc[t][n] = "none"
  BY <1>4, <1>5, <1>7 DEF Heir, Spent, Consumed, Launchable
<1>10. PICK m : m = Merged(disk[t], a)
  OBVIOUS
<1>11. Heir(t, m) /\ m.gen = disk[t].gen /\ m \in RecordType /\ Consumed(m, n)
  <2>1. CASE m = a
    BY <1>6, <1>7, <1>8, <2>1
  <2>2. CASE m = disk[t] /\ Ended(disk[t])
    BY <2>2, HeirsNow DEF Heir, Good, Consumed, Ended
  <2> QED
    BY <1>10, <2>1, <2>2 DEF Merged
<1>12. disk \in [Tasks -> RecordType] /\ rec \in [Tasks -> RecordType]
  BY TypeFacts DEF RecordsOK
<1>13. /\ disk' \in [Tasks -> RecordType] /\ rec' \in [Tasks -> RecordType]
       /\ disk'[t] = m /\ rec'[t] = a
       /\ \A u \in Tasks : u # t => disk'[u] = disk[u] /\ rec'[u] = rec[u]
  BY <1>4, <1>8, <1>10, <1>11, <1>12
<1>14. /\ \A u \in Tasks : Heir(u, disk'[u]) /\ Heir(u, rec'[u])
       /\ \A u \in Tasks : rec'[u].gen <= disk'[u].gen
       /\ \A u \in Tasks : disk'[u].gen = disk[u].gen
  BY <1>8, <1>11, <1>13, HeirsNow, Numbers
<1>15. /\ drv' \in DriverType /\ drv'.pc = "launch" /\ drv'.snap = drv.snap
       /\ drv'.todo = drv.todo /\ drv'.cur = t
  BY <1>4, DriverFacts DEF DriverType
<1>16. DriverOK'
  <2>1. \A u \in drv.todo : drv.snap[u].attempts > 0
    BY <1>4, TypeFacts DEF DriverOK
  <2> QED
    BY <1>4, <1>15, <2>1, DriverFacts DEF DriverOK, Behind
<1>17. ASSUME NEW u \in Tasks
       PROVE  Launching(u)'
  <2>1. CASE u = t
    BY <1>2, <1>4, <1>6, <1>7, <1>9, <1>11, <1>13, <1>15, <2>1 DEF Launching, Consumed
  <2>2. CASE u # t
    BY <1>15, <2>2 DEF Launching
  <2> QED
    BY <2>1, <2>2
<1> QED
  BY <1>4, <1>13, <1>14, <1>16, <1>17, HostStays, RecordStep

LEMMA RefuseLaunchOK ==
  ASSUME FleetInv, NEW t \in Tasks, RefuseLaunch(t)
  PROVE  StepOK
<1>1. /\ UNCHANGED <<task, alerts, disk, stream, proc, op, clock, calls>> /\ Abort
      /\ rec' = rec \/ rec' = disk
  BY DEF RefuseLaunch, ledgerVars, hostVars, bounds
<1>2. disk \in [Tasks -> RecordType] /\ rec \in [Tasks -> RecordType]
  BY TypeFacts DEF RecordsOK
<1>3. /\ \A u \in Tasks : Heir(u, disk'[u]) /\ Heir(u, rec'[u])
      /\ \A u \in Tasks : rec'[u].gen <= disk'[u].gen
  BY <1>1, HeirsNow, Numbers
<1>4. DriverOK' /\ drv'.pc = "end"
  BY <1>1, AbortOK, FreshBehind, DriverElsewhere
<1>5. \A u \in Tasks : Launching(u)'
  BY <1>4 DEF Launching
<1> QED
  BY <1>1, <1>2, <1>3, <1>4, <1>5, HostStays, RecordStep

\* What is admitted has no attempt, and no process.
LEMMA Unstarted ==
  ASSUME FleetInv, NEW t \in Admissible
  PROVE  /\ t \in Tasks /\ task[t].status = "enqueued" /\ task[t].attempts = 0
         /\ \A n \in Attempts : proc[t][n] = "none"
<1>1. t \in Tasks /\ task[t].status = "enqueued"
  BY DEF Admissible
<1>2. task[t].attempts = 0
  BY <1>1, TypeFacts DEF LedgerOK
<1>3. LaunchedOnce(t)
  BY <1>1, TypeFacts
<1>4. \A n \in Attempts : n > 0
  BY FleetAssumption DEF Attempts
<1> QED
  BY <1>1, <1>2, <1>3, <1>4, FleetAssumption DEF LaunchedOnce, Attempts

\* The registration of a first attempt.
LEMMA RegisteredOK ==
  ASSUME FleetInv, NEW t \in Admissible
  PROVE  /\ Merged(disk[t], Registered).gen = 1 /\ Registered.gen = 1
         /\ \A r \in {Merged(disk[t], Registered), Registered} :
               Good(r) /\ r \in RecordType /\ Spent(t, r)
<1>1. t \in Tasks /\ task[t].attempts = 0 /\ \A n \in Attempts : proc[t][n] = "none"
  BY Unstarted
<1>2. disk[t].gen = 0 \/ disk[t].gen = 1
  BY <1>1, Numbers
<1>3. Good(Registered) /\ Registered.gen = 1 /\ Good(disk[t])
  BY <1>1, NoRecOK, TypeFacts
<1>4. Merged(disk[t], Registered) = Registered
      \/ (Merged(disk[t], Registered) = disk[t] /\ Registered.gen <= disk[t].gen)
  BY DEF Merged
<1> QED
  BY <1>1, <1>2, <1>3, <1>4 DEF Good, Spent

\* A lease begins the next attempt.
LEMMA LeasingOK ==
  ASSUME FleetInv, NEW t \in Tasks, NEW now \in 0..MaxTime,
         task[t].attempts + 1 \in 0..(MaxCalls + 1), task' = Leasing(t, now)
  PROVE  /\ task' \in [Tasks -> TaskType]
         /\ \A u \in Tasks : u # t => task'[u] = task[u]
         /\ task'[t].status = "leased" /\ task'[t].attempts = task[t].attempts + 1
<1>1. task \in [Tasks -> TaskType] /\ task[t] \in TaskType
  BY TypeFacts DEF LedgerOK
<1>2. PICK a : a = task[t].attempts + 1
  OBVIOUS
<1>3. PICK q : q = task[t].seq + 1
  OBVIOUS
<1>4. a \in 0..(MaxCalls + 1) /\ q \in Nat
  BY <1>1, <1>2, <1>3, TaskFields
<1> DEFINE e == [task[t] EXCEPT !.status = "leased", !.attempts = a, !.seq = q, !.hb = now]
<1>5. ASSUME NEW s \in TaskType, NEW x,
             x = [s EXCEPT !.status = "leased", !.attempts = a, !.seq = q, !.hb = now]
      PROVE  x \in TaskType /\ x.status = "leased" /\ x.attempts = a
  BY <1>4, <1>5 DEF TaskType
<1>6. e \in TaskType /\ e.status = "leased" /\ e.attempts = a
  BY <1>1, <1>5
<1>7. task' = [task EXCEPT ![t] = e]
  BY <1>1, <1>2, <1>3 DEF Leasing
<1> HIDE DEF e
<1> QED
  BY <1>1, <1>2, <1>6, <1>7

LEMMA LeaseOK ==
  ASSUME FleetInv, NEW t \in Tasks, Lease(t)
  PROVE  StepOK
<1>1. PICK m : m = Merged(disk[t], Registered)
  OBVIOUS
<1>2. /\ UNCHANGED <<alerts, stream, proc, drv, op, clock, calls>>
      /\ drv.pc = "lease" /\ t \in Admissible
      /\ rec' = [rec EXCEPT ![t] = Registered] /\ disk' = [disk EXCEPT ![t] = m]
      /\ task' = Leasing(t, clock)
  BY <1>1 DEF Lease, At, hostVars, bounds
<1>3. /\ task[t].status = "enqueued" /\ task[t].attempts = 0
      /\ \A n \in Attempts : proc[t][n] = "none"
  BY <1>2, Unstarted
<1>4. /\ m.gen = 1 /\ Registered.gen = 1
      /\ Good(m) /\ m \in RecordType /\ Spent(t, m)
      /\ Good(Registered) /\ Registered \in RecordType /\ Spent(t, Registered)
  BY <1>1, <1>2, RegisteredOK
<1>5. /\ task \in [Tasks -> TaskType] /\ disk \in [Tasks -> RecordType]
      /\ rec \in [Tasks -> RecordType]
  BY TypeFacts DEF LedgerOK, RecordsOK
<1>6. /\ task' \in [Tasks -> TaskType]
      /\ \A u \in Tasks : u # t => task'[u] = task[u]
      /\ task'[t].status = "leased" /\ task'[t].attempts = 1
  <2>1. 0 + 1 = 1 /\ 1 \in 0..(MaxCalls + 1) /\ clock \in 0..MaxTime
    BY TypeFacts, FleetAssumption
  <2> QED
    BY <1>2, <1>3, <2>1, LeasingOK
<1>7. /\ disk' \in [Tasks -> RecordType] /\ rec' \in [Tasks -> RecordType]
      /\ disk'[t] = m /\ rec'[t] = Registered
      /\ \A u \in Tasks : u # t => disk'[u] = disk[u] /\ rec'[u] = rec[u]
  BY <1>2, <1>4, <1>5
<1>8. LedgerOK' /\ KeepsOutcome
  BY <1>2, <1>3, <1>6, TypeFacts DEF LedgerOK, KeepsOutcome, Closed
<1>9. Grows
  BY <1>3, <1>6, Numbers DEF Grows
<1>10. RecordsOK'
  BY <1>4, <1>7, TypeFacts DEF RecordsOK, Good
<1>11. HostOK' /\ \A u \in Tasks : StreamTrue(u)'
  BY <1>2, HostStays
<1>12. DriverOK' /\ OperatorsOK'
  BY <1>2, <1>8, <1>9, DriverStays, CallsStay
<1>13. Accounted'
  <2>1. \A u \in Tasks : Restarting(u)' \subseteq Restarting(u)
    BY <1>2 DEF Restarting
  <2>2. \A u \in Tasks : Base(u)' = Base(u)
    BY <1>3, <1>4, <1>6, <1>7 DEF Base
  <2> QED
    BY <1>2, <2>1, <2>2, TypeFacts, AccountFrame
<1>14. LeaseNumbered'
  <2> SUFFICES ASSUME NEW u \in Tasks
               PROVE  /\ disk'[u].gen \in {task'[u].attempts, task'[u].attempts + 1}
                      /\ PreparedAhead(u, disk[u])' /\ PreparedAhead(u, rec[u])'
                      /\ rec'[u].gen <= disk'[u].gen
    BY DEF LeaseNumbered, Numbered
  <2>1. CASE u = t
    BY <1>4, <1>6, <1>7, <2>1 DEF PreparedAhead
  <2>2. CASE u # t
    BY <1>6, <1>7, <2>2, TypeFacts DEF PreparedAhead, LeaseNumbered, Numbered
  <2> QED
    BY <2>1, <2>2
<1>15. \A u \in Tasks : CompletedTrue(u)'
  BY <1>2, <1>6, TypeFacts DEF CompletedTrue
<1>16. ASSUME NEW u \in Tasks
       PROVE  LaunchedOnce(u)'
  <2>1. LaunchedOnce(u) /\ Spent(u, disk'[u]) /\ Spent(u, rec'[u])
    BY <1>4, <1>7, TypeFacts DEF LaunchedOnce
  <2>2. Spent(u, disk[u])' /\ Spent(u, rec[u])'
    BY <1>2, <2>1 DEF Spent, Consumed
  <2>3. Launching(u)'
    BY <1>2 DEF Launching
  <2>4. \A n \in Attempts : proc[u][n] # "none" => n <= task'[u].attempts
    BY <1>3, <1>6, <2>1 DEF LaunchedOnce
  <2> QED
    BY <1>2, <2>2, <2>3, <2>4 DEF LaunchedOnce
<1> QED
  BY <1>2, <1>8, <1>9, <1>10, <1>11, <1>12, <1>13, <1>14, <1>15, <1>16, StepParts, TypeFacts

-----------------------------------------------------------------------------
(* The operators' calls. *)

\* The call may still start an attempt of t.
Wants(c, t) == c.call = "resume" \/ (c.call # "stop" /\ t \in c.todo)

LEMMA NoCallOK ==
  /\ NoCall \in CallType /\ CallOK(NoCall) /\ NoCall.snap = NoSnap /\ NoCall.todo = {}
  /\ \A t : ~Wants(NoCall, t)
<1>1. NoCall \in CallType
  BY NoSnapOK, FleetAssumption DEF NoCall, CallType, Snaps
<1> QED
  BY <1>1 DEF NoCall, CallOK, Wants

LEMMA CallFacts ==
  ASSUME FleetInv, NEW o \in Operators
  PROVE  /\ op \in [Operators -> CallType] /\ op[o] \in CallType /\ CallOK(op[o])
         /\ op[o].snap \in Snaps /\ Behind(op[o].snap)
         /\ op[o].todo \subseteq Tasks /\ op[o].now \in 0..MaxTime
         /\ op[o].cur \in Tasks \cup {NoTask}
<1>1. op \in [Operators -> CallType] /\ CallOK(op[o]) /\ Behind(op[o].snap)
  BY TypeFacts DEF OperatorsOK
<1>2. op[o] \in CallType
  BY <1>1
<1> QED
  BY <1>1, <1>2 DEF CallType, Snaps

LEMMA RestartersMove ==
  ASSUME FleetInv, NEW o \in Operators, NEW c, op' = [op EXCEPT ![o] = c], NEW t
  PROVE  /\ Restarting(t)' \subseteq Restarting(t) \cup {o}
         /\ (Wants(c, t) => Wants(op[o], t)) => Restarting(t)' \subseteq Restarting(t)
         /\ ~Wants(c, t) => Restarting(t)' \subseteq Restarting(t) \ {o}
         /\ o \in Restarting(t) <=> Wants(op[o], t)
<1>1. op'[o] = c /\ \A p \in Operators : p # o => op'[p] = op[p]
  BY CallFacts
<1>2. Restarting(t) = {p \in Operators : Wants(op[p], t)}
  BY DEF Restarting, Wants
<1>3. Restarting(t)' = {p \in Operators : Wants(op'[p], t)}
  BY DEF Restarting, Wants
<1> QED
  BY <1>1, <1>2, <1>3

\* A call moves on and starts nothing.
LEMMA CallStep ==
  ASSUME FleetInv, UNCHANGED <<disk, rec, stream, proc, drv, clock, calls>>,
         task' \in [Tasks -> TaskType], alerts' \subseteq Tasks \X Attempts,
         \A t \in Tasks : Quiet(task[t], task'[t]),
         \A t \in Tasks : task'[t].status = "completed" => task[t].status = "completed",
         NEW o \in Operators, NEW c \in CallType, CallOK(c), op' = [op EXCEPT ![o] = c],
         \A t \in Tasks : c.snap[t].attempts <= task[t].attempts,
         \A t \in Tasks : Wants(c, t) => Wants(op[o], t)
  PROVE  StepOK
<1>1. \A t \in Tasks : c.snap[t].attempts <= task'[t].attempts
  BY DEF Quiet
<1>2. LedgerOK' /\ Grows => DriverOK' /\ OperatorsOK'
  BY <1>1, DriverStays, CallMoves
<1>3. ASSUME NEW t \in Tasks, Base(t)' = Base(t)
      PROVE  Cardinality(Restarting(t)') + Base(t)' <= calls' + 1
  <2>1. Restarting(t)' \subseteq Restarting(t)
    BY RestartersMove
  <2> QED
    BY <1>3, <2>1, AccountStays, Numbers, TypeFacts
<1> QED
  BY <1>2, <1>3, QuietStep, TypeFacts

LEMMA QuietNow ==
  ASSUME FleetInv
  PROVE  /\ task \in [Tasks -> TaskType] /\ alerts \subseteq Tasks \X Attempts
         /\ \A t \in Tasks : Quiet(task[t], task[t])
BY TypeFacts DEF LedgerOK, Quiet

\* A call that goes on is in a sound state, over if nothing is left of it.
LEMMA GoesOn ==
  ASSUME FleetInv, NEW o \in Operators, NEW c \in CallType, CallOK(c), GoOn(o, c),
         \A t \in Tasks : c.snap[t].attempts <= task[t].attempts,
         \A t \in Tasks : Wants(c, t) => Wants(op[o], t)
  PROVE  \E d \in CallType :
            /\ CallOK(d) /\ op' = [op EXCEPT ![o] = d]
            /\ \A t \in Tasks : d.snap[t].attempts <= task[t].attempts
            /\ \A t \in Tasks : Wants(d, t) => Wants(op[o], t)
            /\ \A t \in Tasks : Wants(d, t) => Wants(c, t)
<1>1. CASE c.todo = {}
  <2>1. op' = [op EXCEPT ![o] = NoCall]
    BY <1>1 DEF GoOn
  <2>2. \A t \in Tasks : NoCall.snap[t].attempts <= task[t].attempts
    BY NoCallOK, NoSnapOK, Numbers
  <2> QED
    BY <2>1, <2>2, NoCallOK
<1>2. CASE c.todo # {}
  BY <1>2 DEF GoOn
<1> QED
  BY <1>1, <1>2

\* A call ends.
LEMMA HangOK ==
  ASSUME FleetInv, UNCHANGED <<task, alerts, disk, rec, stream, proc, drv, clock, calls>>,
         NEW o \in Operators, Hang(o)
  PROVE  StepOK
<1>1. op' = [op EXCEPT ![o] = NoCall]
  BY DEF Hang
<1>2. \A t \in Tasks : NoCall.snap[t].attempts <= task[t].attempts
  BY NoCallOK, NoSnapOK, Numbers
<1> QED
  BY <1>1, <1>2, QuietNow, NoCallOK, CallStep

\* An operator calls.
LEMMA CallTaken ==
  ASSUME FleetInv, UNCHANGED <<task, alerts, disk, rec, stream, proc, drv, clock>>,
         NEW o \in Operators, NEW c \in CallType, CallOK(c), Call(o, c),
         \A t \in Tasks : c.snap[t].attempts <= task[t].attempts
  PROVE  StepOK
<1>1. op' = [op EXCEPT ![o] = c] /\ calls' = calls + 1 /\ calls < MaxCalls
  BY DEF Call
<1>2. LedgerOK' /\ Grows => DriverOK' /\ OperatorsOK'
  BY <1>1, DriverStays, CallMoves
<1>3. ASSUME NEW t \in Tasks, Base(t)' = Base(t)
      PROVE  Cardinality(Restarting(t)') + Base(t)' <= calls' + 1
  <2>1. Restarting(t)' \subseteq Restarting(t) \cup {o}
    BY <1>1, RestartersMove
  <2> QED
    BY <1>1, <1>3, <2>1, AccountTaken
<1>4. calls' \in 0..MaxCalls
  BY <1>1, TypeFacts, FleetAssumption
<1> QED
  BY <1>1, <1>2, <1>3, <1>4, QuietNow, QuietStep, TypeFacts

LEMMA StopRunOK ==
  ASSUME FleetInv, NEW o \in Operators, StopRun(o)
  PROVE  StepOK
<1>1. /\ UNCHANGED <<task, alerts, disk, rec, stream, proc, drv, clock>>
      /\ Call(o, [NoCall EXCEPT !.call = "stop", !.todo = Open])
  BY DEF StopRun, ledgerVars, recordVars, hostVars
<1>2. PICK c : c = [NoCall EXCEPT !.call = "stop", !.todo = Open]
  OBVIOUS
<1>3. Open \subseteq Tasks
  BY DEF Open
<1>4. c \in CallType /\ c.call = "stop" /\ c.snap = NoSnap
  BY <1>2, <1>3, NoCallOK DEF CallType
<1>5. CallOK(c)
  BY <1>4 DEF CallOK
<1>6. \A t \in Tasks : c.snap[t].attempts <= task[t].attempts
  BY <1>4, NoSnapOK, Numbers
<1> QED
  BY <1>1, <1>2, <1>4, <1>5, <1>6, CallTaken

LEMMA ResumeRunOK ==
  ASSUME FleetInv, NEW o \in Operators, ResumeRun(o)
  PROVE  StepOK
<1>1. /\ UNCHANGED <<task, alerts, disk, rec, stream, proc, drv, clock>>
      /\ Call(o, [NoCall EXCEPT !.call = "resume", !.now = clock])
  BY DEF ResumeRun, ledgerVars, recordVars, hostVars
<1>2. PICK c : c = [NoCall EXCEPT !.call = "resume", !.now = clock]
  OBVIOUS
<1>3. clock \in 0..MaxTime
  BY TypeFacts
<1>4. c \in CallType /\ c.call = "resume" /\ c.snap = NoSnap /\ c.todo = {}
  BY <1>2, <1>3, NoCallOK DEF CallType
<1>5. CallOK(c)
  BY <1>4 DEF CallOK
<1>6. \A t \in Tasks : c.snap[t].attempts <= task[t].attempts
  BY <1>4, NoSnapOK, Numbers
<1> QED
  BY <1>1, <1>2, <1>4, <1>5, <1>6, CallTaken

LEMMA RestartWorkerOK ==
  ASSUME FleetInv, NEW o \in Operators, NEW t \in Tasks, RestartWorker(o, t)
  PROVE  StepOK
<1>1. /\ UNCHANGED <<task, alerts, disk, rec, stream, proc, drv, clock>>
      /\ Call(o, [NoCall EXCEPT !.call = "restart", !.todo = {t}, !.snap = task])
      /\ task[t].attempts > 0
  BY DEF RestartWorker, ledgerVars, recordVars, hostVars
<1>2. PICK c : c = [NoCall EXCEPT !.call = "restart", !.todo = {t}, !.snap = task]
  OBVIOUS
<1>3. c \in CallType /\ c.call = "restart" /\ c.snap = task /\ c.todo = {t}
  BY <1>2, NoCallOK, QuietNow DEF CallType
<1>4. CallOK(c)
  BY <1>1, <1>3 DEF CallOK
<1>5. \A u \in Tasks : c.snap[u].attempts <= task[u].attempts
  BY <1>3, Numbers
<1> QED
  BY <1>1, <1>2, <1>3, <1>4, <1>5, CallTaken

LEMMA CancelingOK ==
  ASSUME FleetInv, NEW t \in Tasks, task' = Canceling(t)
  PROVE  /\ task' \in [Tasks -> TaskType]
         /\ \A u \in Tasks : Quiet(task[u], task'[u])
         /\ \A u \in Tasks : task'[u].status = "completed" => task[u].status = "completed"
<1>1. CASE Active(task[t])
  <2> DEFINE e == [task[t] EXCEPT !.status = "cancelled", !.seq = task[t].seq + 1]
  <2>1. ASSUME NEW s \in TaskType, NEW x,
               x = [s EXCEPT !.status = "cancelled", !.seq = s.seq + 1]
        PROVE  x \in TaskType /\ x.attempts = s.attempts /\ x.status = "cancelled"
    <3>1. s.seq + 1 \in Nat
      BY TaskFields
    <3> QED
      BY <2>1, <3>1 DEF TaskType
  <2>2. task[t] \in TaskType
    BY Numbers
  <2>3. e \in TaskType /\ e.attempts = task[t].attempts /\ e.status = "cancelled"
    BY <2>1, <2>2
  <2>4. task' = [task EXCEPT ![t] = e]
    BY <1>1, QuietNow DEF Canceling
  <2> HIDE DEF e
  <2>5. Quiet(task[t], e)
    BY <1>1, <2>3 DEF Quiet, Active, Leased, Closed
  <2> QED
    BY <2>3, <2>4, <2>5, TaskMoves
<1>2. CASE ~Active(task[t])
  BY <1>2, QuietNow DEF Canceling
<1> QED
  BY <1>1, <1>2

LEMMA InterruptOK ==
  ASSUME FleetInv, NEW t \in Tasks, Interrupt(t)
  PROVE  StepOK
<1>1. /\ UNCHANGED <<alerts, disk, rec, stream, proc, drv, op, clock>>
      /\ calls' = calls + 1 /\ calls < MaxCalls /\ task' = Canceling(t)
  BY DEF Interrupt, recordVars, hostVars
<1>2. /\ task' \in [Tasks -> TaskType]
      /\ \A u \in Tasks : Quiet(task[u], task'[u])
      /\ \A u \in Tasks : task'[u].status = "completed" => task[u].status = "completed"
  BY <1>1, CancelingOK
<1>3. LedgerOK' /\ Grows => DriverOK' /\ OperatorsOK'
  BY <1>1, DriverStays, CallsStay
<1>4. ASSUME NEW u \in Tasks, Base(u)' = Base(u)
      PROVE  Cardinality(Restarting(u)') + Base(u)' <= calls' + 1
  <2>1. Restarting(u)' \subseteq Restarting(u) \cup {t}
    BY <1>1 DEF Restarting
  <2> QED
    BY <1>1, <1>4, <2>1, AccountTaken
<1>5. calls' \in 0..MaxCalls
  BY <1>1, TypeFacts, FleetAssumption
<1> QED
  BY <1>1, <1>2, <1>3, <1>4, <1>5, QuietNow, QuietStep, TypeFacts

LEMMA StopTaskOK ==
  ASSUME FleetInv, NEW o \in Operators, NEW t \in Tasks, StopTask(o, t)
  PROVE  StepOK
<1>1. /\ UNCHANGED <<alerts, disk, rec, stream, proc, drv, clock, calls>>
      /\ op[o].call = "stop" /\ task' = Canceling(t)
      /\ GoOn(o, [op[o] EXCEPT !.todo = @ \ {t}])
  BY DEF StopTask, recordVars, hostVars, bounds
<1>2. PICK c : c = [op[o] EXCEPT !.todo = @ \ {t}]
  OBVIOUS
<1>3. GoOn(o, c)
  BY <1>1, <1>2
<1>4. c \in CallType /\ c.call = "stop" /\ c.snap = op[o].snap
  BY <1>1, <1>2, CallFacts DEF CallType
<1>5. CallOK(c) /\ \A u : ~Wants(c, u)
  BY <1>4 DEF CallOK, Wants
<1>6. /\ task' \in [Tasks -> TaskType]
      /\ \A u \in Tasks : Quiet(task[u], task'[u])
      /\ \A u \in Tasks : task'[u].status = "completed" => task[u].status = "completed"
  BY <1>1, CancelingOK
<1>7. \A u \in Tasks : c.snap[u].attempts <= task[u].attempts
  BY <1>4, CallFacts DEF Behind
<1>8. PICK d \in CallType :
         /\ CallOK(d) /\ op' = [op EXCEPT ![o] = d]
         /\ \A u \in Tasks : d.snap[u].attempts <= task[u].attempts
         /\ \A u \in Tasks : Wants(d, u) => Wants(op[o], u)
  BY <1>3, <1>4, <1>5, <1>7, GoesOn
<1> QED
  BY <1>1, <1>6, <1>8, QuietNow, CallStep

LEMMA OperatorDiesOK ==
  ASSUME FleetInv, NEW o \in Operators, OperatorDies(o)
  PROVE  StepOK
BY HangOK DEF OperatorDies, ledgerVars, recordVars, hostVars

-----------------------------------------------------------------------------
(* Restarts. *)

LEMMA FoundOK ==
  ASSUME FleetInv, NEW t \in Tasks
  PROVE  /\ Heir(t, Found(t)) /\ Found(t).gen = disk[t].gen
         /\ drv.pc # "down" => Found(t) = disk[t]
<1>1. Heir(t, disk[t]) /\ Good(disk[t])
  BY HeirsNow DEF Heir
<1>2. Succeeds(disk[t], Recovered(disk[t])) /\ (Recovered(disk[t]).prepared <=> disk[t].prepared)
  BY <1>1, RecoveredOK
<1>3. Heir(t, Recovered(disk[t])) /\ Recovered(disk[t]).gen = disk[t].gen
  BY <1>1, <1>2, HeirSucceeds DEF Succeeds
<1> QED
  BY <1>1, <1>3 DEF Found, At

\* A call that may restart a task leaves room for a generation.
LEMMA RoomToRestart ==
  ASSUME FleetInv, NEW t \in Tasks, NEW o \in Restarting(t), task[t].attempts > 0
  PROVE  disk[t].gen <= MaxCalls
<1>1. Cardinality(Restarting(t)) \in Nat /\ Cardinality(Restarting(t)) # 0
  BY RestartersFinite, FS_EmptySet
<1>2. Base(t) = disk[t].gen /\ disk[t].gen \in Nat
  BY Numbers DEF Base
<1>3. Cardinality(Restarting(t)) + Base(t) <= calls + 1
  BY TypeFacts DEF Accounted, Base
<1>4. calls \in Nat /\ calls <= MaxCalls
  BY TypeFacts
<1> QED
  BY <1>1, <1>2, <1>3, <1>4, FleetAssumption

\* The record that a restart prepares offers an attempt that nobody launched.
LEMMA PreparingOK ==
  ASSUME FleetInv, NEW t \in Tasks, NEW o \in Restarting(t), NEW a, a = task[t].attempts,
         a > 0, Preparable(Found(t), a), NEW r, r = PreparedFor(Found(t), a)
  PROVE  /\ Good(r) /\ r \in RecordType /\ r.gen = a + 1 /\ r.prepared
         /\ a \in Nat /\ a + 1 \in 0..(MaxCalls + 1)
         /\ Spent(t, r) /\ rec[t].gen <= a + 1 /\ a <= disk[t].gen
         /\ drv.pc = "launch" /\ drv.cur = t => Consumed(r, drv.snap[t].attempts)
<1>1. PICK f : f = Found(t)
  OBVIOUS
<1>2. Heir(t, f) /\ Good(f) /\ f.gen = disk[t].gen /\ (drv.pc # "down" => f = disk[t])
  BY <1>1, FoundOK DEF Heir
<1>3. /\ a \in Nat /\ disk[t].gen \in Nat /\ rec[t].gen \in Nat /\ rec[t].gen <= disk[t].gen
      /\ disk[t].gen = a \/ disk[t].gen = a + 1
      /\ disk[t].gen <= MaxCalls
  BY Numbers, RoomToRestart
<1>4. f.gen > a => f.prepared
  BY <1>2 DEF Heir, PreparedAhead
<1>5. /\ Good(r) /\ r.gen = a + 1 /\ r.prepared /\ (f.gen = a \/ r = f)
  BY <1>1, <1>2, <1>3, <1>4, PreparedOK
<1>6. Spent(t, r)
  <2> SUFFICES ASSUME NEW n \in Attempts, proc[t][n] # "none"
               PROVE  Consumed(r, n)
    BY DEF Spent
  <2>1. n <= a
    BY TypeFacts DEF LaunchedOnce
  <2>2. n # a + 1
    BY <1>3, <2>1, FleetAssumption DEF Attempts
  <2> QED
    BY <1>5, <2>2 DEF Consumed
<1>7. drv.pc = "launch" /\ drv.cur = t => Consumed(r, drv.snap[t].attempts)
  <2>1. drv.snap[t].attempts \in Nat /\ drv.snap[t].attempts <= a
    BY DriverFacts, TaskFields DEF Snaps, Behind
  <2>2. drv.snap[t].attempts # a + 1
    BY <1>3, <2>1
  <2> QED
    BY <1>5, <2>2 DEF Consumed
<1>8. a + 1 \in 0..(MaxCalls + 1)
  BY <1>3, FleetAssumption
<1> QED
  BY <1>3, <1>5, <1>6, <1>7, <1>8 DEF Good

\* The next generation is prepared, and its lease published or not.
LEMMA PrepareStep ==
  ASSUME FleetInv, UNCHANGED <<alerts, rec, stream, proc, drv, clock, calls>>,
         NEW t \in Tasks, NEW o \in Operators, Wants(op[o], t),
         NEW a, a = task[t].attempts, a > 0, Preparable(Found(t), a),
         NEW r, r = PreparedFor(Found(t), a), disk' = [disk EXCEPT ![t] = r],
         NEW now \in 0..MaxTime, task' = task \/ task' = Leasing(t, now),
         NEW c \in CallType, CallOK(c), op' = [op EXCEPT ![o] = c],
         \A u \in Tasks : c.snap[u].attempts <= task[u].attempts,
         \A u \in Tasks : Wants(c, u) => Wants(op[o], u), ~Wants(c, t)
  PROVE  StepOK
<1>0. o \in Restarting(t)
  BY RestartersMove
<1>1. /\ Good(r) /\ r \in RecordType /\ r.gen = a + 1 /\ r.prepared
      /\ a \in Nat /\ a + 1 \in 0..(MaxCalls + 1)
      /\ Spent(t, r) /\ rec[t].gen <= a + 1 /\ a <= disk[t].gen
      /\ drv.pc = "launch" /\ drv.cur = t => Consumed(r, drv.snap[t].attempts)
  BY <1>0, PreparingOK
<1>2. disk \in [Tasks -> RecordType] /\ rec \in [Tasks -> RecordType]
  BY TypeFacts DEF RecordsOK
<1>3. /\ disk' \in [Tasks -> RecordType] /\ disk'[t] = r
      /\ \A u \in Tasks : u # t => disk'[u] = disk[u]
  BY <1>1, <1>2
<1>4. /\ task' \in [Tasks -> TaskType]
      /\ \A u \in Tasks : u # t => task'[u] = task[u]
      /\ \/ task'[t] = task[t]
         \/ task'[t].status = "leased" /\ task'[t].attempts = a + 1
  <2>1. CASE task' = task
    BY <2>1, QuietNow
  <2>2. CASE task' = Leasing(t, now)
    BY <1>1, <2>2, LeasingOK
  <2> QED
    BY <2>1, <2>2
<1>5. LedgerOK' /\ KeepsOutcome
  <2>1. ASSUME NEW u \in Tasks
        PROVE  /\ task'[u].status = "enqueued" => task'[u].attempts = 0
               /\ task'[u].attempts = 0 => task'[u].status \in {"enqueued", "cancelled"}
               /\ Closed(task[u]) /\ task'[u].status # task[u].status =>
                     Leased(task'[u]) /\ task'[u].attempts = task[u].attempts + 1
    BY <1>1, <1>4, TypeFacts DEF LedgerOK, Leased
  <2> QED
    BY <1>4, <2>1, QuietNow DEF LedgerOK, KeepsOutcome
<1>6. Grows
  BY <1>1, <1>4, Numbers DEF Grows
<1>7. RecordsOK'
  BY <1>1, <1>2, <1>3, TypeFacts DEF RecordsOK, Good
<1>8. HostOK' /\ \A u \in Tasks : StreamTrue(u)'
  BY HostStays
<1>9. DriverOK' /\ OperatorsOK'
  <2>1. \A u \in Tasks : c.snap[u].attempts <= task'[u].attempts
    <3>1. ASSUME NEW u \in Tasks
          PROVE  c.snap[u].attempts <= task'[u].attempts
      <4>1. c.snap[u].attempts \in Nat /\ task[u].attempts \in Nat
        BY TaskFields, Numbers DEF CallType
      <4>2. task'[u].attempts = task[u].attempts \/ task'[u].attempts = task[u].attempts + 1
        BY <1>4
      <4> QED
        BY <4>1, <4>2
    <3> QED
      BY <3>1
  <2> QED
    BY <1>5, <1>6, <2>1, DriverStays, CallMoves
<1>10. Accounted'
  <2>1. ASSUME NEW u \in Tasks
        PROVE  Cardinality(Restarting(u)') + Base(u)' <= calls' + 1
    <3>1. CASE u = t
      <4>1. Base(t)' = a + 1 /\ Base(t) = disk[t].gen
        BY <1>1, <1>3, <1>4 DEF Base
      <4>2. Base(t)' \in Nat /\ Base(t)' <= Base(t) + 1
        BY <1>1, <4>1, Numbers
      <4>3. Restarting(t)' \subseteq Restarting(t) \ {o}
        BY RestartersMove
      <4> QED
        BY <1>0, <3>1, <4>2, <4>3, AccountSpent
    <3>2. CASE u # t
      <4>1. Base(u)' = Base(u)
        BY <1>3, <1>4, <3>2 DEF Base
      <4>2. Restarting(u)' \subseteq Restarting(u)
        BY RestartersMove
      <4>3. Base(u) \in Nat /\ Base(u)' \in Nat /\ Base(u)' <= Base(u)
        BY <4>1, Numbers
      <4> QED
        BY <4>2, <4>3, AccountStays, TypeFacts
    <3> QED
      BY <3>1, <3>2
  <2> QED
    BY <2>1, AccountedNext
<1>11. LeaseNumbered'
  <2> SUFFICES ASSUME NEW u \in Tasks
               PROVE  /\ disk'[u].gen \in {task'[u].attempts, task'[u].attempts + 1}
                      /\ PreparedAhead(u, disk[u])' /\ PreparedAhead(u, rec[u])'
                      /\ rec'[u].gen <= disk'[u].gen
    BY DEF LeaseNumbered, Numbered
  <2>1. /\ PreparedAhead(u, disk[u]) /\ PreparedAhead(u, rec[u])
        /\ rec[u].gen <= disk[u].gen /\ rec[u].gen \in Nat
        /\ disk[u].gen \in {task[u].attempts, task[u].attempts + 1}
    BY Numbers, TypeFacts DEF LeaseNumbered, Numbered
  <2>2. CASE u = t
    <3>1. /\ disk'[t].gen = a + 1 /\ rec'[t].gen <= disk'[t].gen /\ disk'[t].prepared
          /\ task'[t].attempts = a \/ task'[t].attempts = a + 1
      BY <1>1, <1>3, <1>4
    <3>2. task'[t].attempts = a + 1 => ~(rec[t].gen > task'[t].attempts)
      BY <1>1, <2>1, <2>2
    <3>3. task'[t].attempts = a => task'[t].attempts = task[t].attempts
      OBVIOUS
    <3> QED
      BY <1>1, <2>1, <2>2, <3>1, <3>2, <3>3 DEF PreparedAhead
  <2>3. CASE u # t
    BY <1>3, <1>4, <2>1, <2>3 DEF PreparedAhead
  <2> QED
    BY <2>2, <2>3
<1>12. \A u \in Tasks : CompletedTrue(u)'
  BY <1>4, TypeFacts DEF CompletedTrue
<1>13. ASSUME NEW u \in Tasks
       PROVE  LaunchedOnce(u)'
  <2>1. LaunchedOnce(u) /\ Spent(u, disk'[u]) /\ Spent(u, rec[u])
    BY <1>1, <1>3, TypeFacts DEF LaunchedOnce
  <2>2. Spent(u, disk[u])' /\ Spent(u, rec[u])'
    BY <2>1 DEF Spent, Consumed
  <2>3. Launching(u)'
    BY <1>1, <1>3, <2>1 DEF Launching, LaunchedOnce, Consumed
  <2>4. \A n \in Attempts : proc[u][n] # "none" => n <= task'[u].attempts
    <3>1. ASSUME NEW n \in Attempts, proc[u][n] # "none"
          PROVE  n <= task'[u].attempts
      <4>1. n <= task[u].attempts /\ n \in Nat /\ task[u].attempts \in Nat
        BY <2>1, <3>1, Numbers, FleetAssumption DEF LaunchedOnce, Attempts
      <4>2. task'[u].attempts = task[u].attempts \/ task'[u].attempts = task[u].attempts + 1
        BY <1>4
      <4> QED
        BY <4>1, <4>2
    <3> QED
      BY <3>1
  <2> QED
    BY <2>2, <2>3, <2>4 DEF LaunchedOnce
<1> QED
  BY <1>5, <1>6, <1>7, <1>8, <1>9, <1>10, <1>11, <1>12, <1>13, StepParts, TypeFacts

\* What a restarting call has in hand, when the lease is as it was read.
LEMMA RestartFacts ==
  ASSUME FleetInv, NEW o \in Operators, op[o].call \in {"restart", "mark", "retry"},
         NEW t \in op[o].todo
  PROVE  /\ t \in Tasks /\ Wants(op[o], t)
         /\ Unchanged(t, op[o].snap[t]) =>
               task[t].attempts = op[o].snap[t].attempts /\ task[t].attempts > 0
BY CallFacts DEF CallOK, Wants, Unchanged

LEMMA RestartCommitOK ==
  ASSUME FleetInv, NEW o \in Operators, RestartCommit(o)
  PROVE  StepOK
<1>1. PICK t \in op[o].todo :
          IF Unchanged(t, op[o].snap[t]) /\ Preparable(Found(t), op[o].snap[t].attempts)
          THEN Restarted(t, op[o].snap[t], clock)
          ELSE UNCHANGED <<task, disk>>
  BY DEF RestartCommit
<1>2. /\ UNCHANGED <<alerts, rec, stream, proc, drv, clock, calls>> /\ Hang(o)
      /\ op[o].call = "restart"
  BY DEF RestartCommit, hostVars, bounds
<1>3. CASE Unchanged(t, op[o].snap[t]) /\ Preparable(Found(t), op[o].snap[t].attempts)
  <2>1. PICK a : a = task[t].attempts
    OBVIOUS
  <2>2. t \in Tasks /\ Wants(op[o], t) /\ a = op[o].snap[t].attempts /\ a > 0
    BY <1>2, <1>3, <2>1, RestartFacts
  <2>3. PICK r : r = PreparedFor(Found(t), a)
    OBVIOUS
  <2>4. disk' = [disk EXCEPT ![t] = r] /\ task' = Leasing(t, clock)
    BY <1>1, <1>3, <2>2, <2>3 DEF Restarted
  <2>5. op' = [op EXCEPT ![o] = NoCall] /\ Preparable(Found(t), a) /\ clock \in 0..MaxTime
    BY <1>2, <1>3, <2>2, TypeFacts DEF Hang
  <2>6. \A u \in Tasks : NoCall.snap[u].attempts <= task[u].attempts
    BY NoCallOK, NoSnapOK, Numbers
  <2> QED
    BY <1>2, <2>1, <2>2, <2>3, <2>4, <2>5, <2>6, NoCallOK, PrepareStep
<1>4. CASE ~(Unchanged(t, op[o].snap[t]) /\ Preparable(Found(t), op[o].snap[t].attempts))
  BY <1>1, <1>2, <1>4, HangOK
<1> QED
  BY <1>3, <1>4

LEMMA RestartTornOK ==
  ASSUME FleetInv, NEW o \in Operators, RestartTorn(o)
  PROVE  StepOK
<1>1. PICK t \in op[o].todo :
          /\ Unchanged(t, op[o].snap[t]) /\ Preparable(Found(t), op[o].snap[t].attempts)
          /\ disk' = [disk EXCEPT ![t] = PreparedFor(Found(t), op[o].snap[t].attempts)]
  BY DEF RestartTorn
<1>2. /\ UNCHANGED <<task, alerts, rec, stream, proc, drv, clock, calls>> /\ Hang(o)
      /\ op[o].call = "restart"
  BY DEF RestartTorn, ledgerVars, hostVars
<1>3. PICK a : a = task[t].attempts
  OBVIOUS
<1>4. t \in Tasks /\ Wants(op[o], t) /\ a = op[o].snap[t].attempts /\ a > 0
  BY <1>1, <1>2, <1>3, RestartFacts
<1>5. PICK r : r = PreparedFor(Found(t), a)
  OBVIOUS
<1>6. /\ disk' = [disk EXCEPT ![t] = r] /\ Preparable(Found(t), a)
      /\ op' = [op EXCEPT ![o] = NoCall] /\ clock \in 0..MaxTime
  BY <1>1, <1>2, <1>4, <1>5, TypeFacts DEF Hang
<1>7. \A u \in Tasks : NoCall.snap[u].attempts <= task[u].attempts
  BY NoCallOK, NoSnapOK, Numbers
<1> QED
  BY <1>2, <1>3, <1>4, <1>5, <1>6, <1>7, NoCallOK, PrepareStep

LEMMA ResumeReadOK ==
  ASSUME FleetInv, NEW o \in Operators, ResumeRead(o)
  PROVE  StepOK
<1>1. PICK todo : todo = {t \in Tasks : Leased(task[t]) /\ Stale(task[t], op[o].now)}
  OBVIOUS
<1>2. /\ UNCHANGED <<task, alerts, disk, rec, stream, proc, drv, clock, calls>>
      /\ op[o].call = "resume"
      /\ GoOn(o, [op[o] EXCEPT !.call = "mark", !.snap = task, !.todo = todo])
  BY <1>1 DEF ResumeRead, ledgerVars, recordVars, hostVars, bounds
<1>3. PICK c : c = [op[o] EXCEPT !.call = "mark", !.snap = task, !.todo = todo]
  OBVIOUS
<1>4. GoOn(o, c)
  BY <1>2, <1>3
<1>5. todo \subseteq Tasks /\ \A t \in todo : Leased(task[t]) /\ task[t].attempts > 0
  BY <1>1, LeasedAttempt
<1>6. c \in CallType /\ c.call = "mark" /\ c.snap = task /\ c.todo = todo
  BY <1>3, <1>5, CallFacts, QuietNow DEF CallType
<1>7. CallOK(c)
  BY <1>5, <1>6 DEF CallOK
<1>8. \A t \in Tasks : Wants(op[o], t)
  BY <1>2 DEF Wants
<1>9. \A t \in Tasks : c.snap[t].attempts <= task[t].attempts
  BY <1>6, Numbers
<1>10. PICK d \in CallType :
          /\ CallOK(d) /\ op' = [op EXCEPT ![o] = d]
          /\ \A t \in Tasks : d.snap[t].attempts <= task[t].attempts
          /\ \A t \in Tasks : Wants(d, t) => Wants(op[o], t)
  BY <1>4, <1>6, <1>7, <1>8, <1>9, GoesOn
<1> QED
  BY <1>2, <1>10, QuietNow, CallStep

\* An event that changes nothing but the sequence number.
LEMMA EventOK ==
  ASSUME FleetInv, NEW t \in Tasks, task' = [task EXCEPT ![t].seq = @ + 1]
  PROVE  /\ task' \in [Tasks -> TaskType]
         /\ \A u \in Tasks : Quiet(task[u], task'[u]) /\ task'[u].status = task[u].status
<1>1. ASSUME NEW s \in TaskType, NEW x, x = [s EXCEPT !.seq = s.seq + 1]
      PROVE  Quiet(s, x) /\ x.status = s.status
  <2>1. s.seq + 1 \in Nat
    BY TaskFields
  <2> QED
    BY <1>1, <2>1 DEF TaskType, Quiet
<1> DEFINE e == [task[t] EXCEPT !.seq = task[t].seq + 1]
<1>2. Quiet(task[t], e) /\ e.status = task[t].status
  BY <1>1, Numbers
<1>3. task' = [task EXCEPT ![t] = e]
  BY QuietNow
<1> HIDE DEF e
<1> QED
  BY <1>2, <1>3, TaskMoves

LEMMA ResumeMarkOK ==
  ASSUME FleetInv, NEW o \in Operators, NEW t \in Tasks, ResumeMark(o, t)
  PROVE  StepOK
<1>1. /\ UNCHANGED <<alerts, disk, rec, stream, proc, drv, clock, calls>>
      /\ op[o].call = "mark" /\ t \in op[o].todo
  BY DEF ResumeMark, recordVars, hostVars, bounds
<1>2. /\ op[o] \in CallType /\ CallOK(op[o]) /\ op \in [Operators -> CallType]
      /\ op[o].snap \in Snaps /\ \A u \in Tasks : op[o].snap[u].attempts <= task[u].attempts
  BY CallFacts DEF Behind
<1>3. CASE Unchanged(t, op[o].snap[t])
  <2>1. /\ task' = [task EXCEPT ![t].seq = @ + 1]
        /\ op' = [op EXCEPT ![o].call = "retry", ![o].snap[t].seq = @ + 1, ![o].cur = t]
    BY <1>3 DEF ResumeMark
  <2>2. PICK s : s = [op[o].snap EXCEPT ![t].seq = @ + 1]
    OBVIOUS
  <2>3. PICK c : c = [op[o] EXCEPT !.call = "retry", !.snap = s, !.cur = t]
    OBVIOUS
  <2>4. op' = [op EXCEPT ![o] = c]
    <3>1. op' = [op EXCEPT ![o].call = "retry", ![o].snap = s, ![o].cur = t]
      BY <1>2, <2>1, <2>2, Zenon
    <3> QED
      BY <1>2, <2>3, <3>1
  <2>5. /\ s \in Snaps
        /\ \A u \in Tasks : s[u].attempts = op[o].snap[u].attempts /\ s[u].status = op[o].snap[u].status
    <3>1. ASSUME NEW d \in TaskType, NEW x, x = [d EXCEPT !.seq = d.seq + 1]
          PROVE  x \in TaskType /\ x.attempts = d.attempts /\ x.status = d.status
      <4>1. d.seq + 1 \in Nat
        BY TaskFields
      <4> QED
        BY <3>1, <4>1 DEF TaskType
    <3> DEFINE e == [op[o].snap[t] EXCEPT !.seq = op[o].snap[t].seq + 1]
    <3>2. /\ e \in TaskType /\ e.attempts = op[o].snap[t].attempts
          /\ e.status = op[o].snap[t].status
      BY <1>2, <3>1 DEF Snaps
    <3>3. s = [op[o].snap EXCEPT ![t] = e]
      BY <1>2, <2>2 DEF Snaps
    <3> HIDE DEF e
    <3> QED
      BY <1>2, <3>2, <3>3 DEF Snaps
  <2>6. c \in CallType /\ c.call = "retry" /\ c.snap = s /\ c.cur = t /\ c.todo = op[o].todo
    BY <1>2, <2>3, <2>5 DEF CallType, Snaps
  <2>7. CallOK(c)
    BY <1>1, <1>2, <2>5, <2>6, CallFacts DEF CallOK, Leased
  <2>8. \A u \in Tasks : Wants(c, u) => Wants(op[o], u)
    BY <1>1, <2>6 DEF Wants
  <2>9. \A u \in Tasks : c.snap[u].attempts <= task[u].attempts
    BY <1>2, <2>5, <2>6
  <2>10. /\ task' \in [Tasks -> TaskType]
         /\ \A u \in Tasks : Quiet(task[u], task'[u]) /\ task'[u].status = task[u].status
    BY <2>1, EventOK
  <2> QED
    BY <1>1, <2>4, <2>6, <2>7, <2>8, <2>9, <2>10, QuietNow, CallStep
<1>4. CASE ~Unchanged(t, op[o].snap[t])
  <2>1. GoOn(o, [op[o] EXCEPT !.todo = @ \ {t}]) /\ UNCHANGED task
    BY <1>4 DEF ResumeMark
  <2>2. PICK c : c = [op[o] EXCEPT !.todo = @ \ {t}]
    OBVIOUS
  <2>3. GoOn(o, c)
    BY <2>1, <2>2
  <2>4. /\ c \in CallType /\ c.call = "mark" /\ c.snap = op[o].snap
        /\ c.todo \subseteq op[o].todo
    BY <1>1, <1>2, <2>2 DEF CallType
  <2>5. CallOK(c)
    BY <1>1, <1>2, <2>4 DEF CallOK
  <2>6. \A u \in Tasks : Wants(c, u) => Wants(op[o], u)
    BY <1>1, <2>4 DEF Wants
  <2>7. PICK d \in CallType :
           /\ CallOK(d) /\ op' = [op EXCEPT ![o] = d]
           /\ \A u \in Tasks : d.snap[u].attempts <= task[u].attempts
           /\ \A u \in Tasks : Wants(d, u) => Wants(op[o], u)
    BY <1>2, <2>3, <2>4, <2>5, <2>6, GoesOn
  <2> QED
    BY <1>1, <2>1, <2>7, QuietNow, CallStep
<1> QED
  BY <1>3, <1>4

LEMMA ResumeAlertOK ==
  ASSUME FleetInv, NEW o \in Operators, ResumeAlert(o)
  PROVE  StepOK
<1>1. PICK t : t = op[o].cur
  OBVIOUS
<1>2. PICK n : n = op[o].snap[t].attempts
  OBVIOUS
<1> DEFINE send == /\ task[t].status = "failed" /\ task[t].attempts = n /\ <<t, n>> \notin alerts
<1>3. /\ UNCHANGED <<disk, rec, stream, proc, drv, clock, calls>> /\ op[o].call = "alert"
      /\ alerts' = IF send THEN alerts \cup {<<t, n>>} ELSE alerts
      /\ task' = IF send THEN [task EXCEPT ![t].seq = @ + 1] ELSE task
      /\ GoOn(o, [op[o] EXCEPT !.call = "mark"])
  BY <1>1, <1>2 DEF ResumeAlert, recordVars, hostVars, bounds
<1> HIDE DEF send
<1>4. /\ op[o] \in CallType /\ CallOK(op[o]) /\ op \in [Operators -> CallType]
      /\ op[o].snap \in Snaps /\ \A u \in Tasks : op[o].snap[u].attempts <= task[u].attempts
  BY CallFacts DEF Behind
<1>5. t \in Tasks /\ n > 0
  BY <1>1, <1>2, <1>3, <1>4 DEF CallOK
<1>6. n \in Attempts
  <2>1. op[o].snap[t] \in TaskType
    BY <1>4, <1>5 DEF Snaps
  <2> QED
    BY <1>2, <1>5, <2>1, TaskFields, FleetAssumption DEF Attempts
<1>7. alerts' \subseteq Tasks \X Attempts
  BY <1>3, <1>5, <1>6, QuietNow
<1>8. /\ task' \in [Tasks -> TaskType]
      /\ \A u \in Tasks : Quiet(task[u], task'[u]) /\ task'[u].status = task[u].status
  BY <1>3, <1>5, EventOK, QuietNow
<1>9. PICK c : c = [op[o] EXCEPT !.call = "mark"]
  OBVIOUS
<1>10. GoOn(o, c)
  BY <1>3, <1>9
<1>11. c \in CallType /\ c.call = "mark" /\ c.snap = op[o].snap /\ c.todo = op[o].todo
  BY <1>4, <1>9 DEF CallType
<1>12. CallOK(c)
  BY <1>3, <1>4, <1>11 DEF CallOK
<1>13. \A u \in Tasks : Wants(c, u) => Wants(op[o], u)
  BY <1>3, <1>11 DEF Wants
<1>14. PICK d \in CallType :
          /\ CallOK(d) /\ op' = [op EXCEPT ![o] = d]
          /\ \A u \in Tasks : d.snap[u].attempts <= task[u].attempts
          /\ \A u \in Tasks : Wants(d, u) => Wants(op[o], u)
  BY <1>4, <1>10, <1>11, <1>12, <1>13, GoesOn
<1> QED
  BY <1>3, <1>7, <1>8, <1>14, CallStep

\* The call turns from the task in hand to the ones left.
LEMMA NextTask ==
  ASSUME FleetInv, NEW o \in Operators, op[o].call = "retry", NEW k \in {"mark", "alert"},
         NEW c, c = [op[o] EXCEPT !.call = k, !.todo = op[o].todo \ {op[o].cur}]
  PROVE  /\ c \in CallType /\ CallOK(c) /\ c.snap = op[o].snap
         /\ \A u \in Tasks : c.snap[u].attempts <= task[u].attempts
         /\ \A u \in Tasks : Wants(c, u) => Wants(op[o], u)
         /\ ~Wants(c, op[o].cur)
<1>1. op[o] \in CallType /\ CallOK(op[o]) /\ Behind(op[o].snap) /\ op[o].todo \subseteq Tasks
  BY CallFacts
<1>2. /\ c \in CallType /\ c.call = k /\ c.snap = op[o].snap /\ c.cur = op[o].cur
      /\ c.todo = op[o].todo \ {op[o].cur}
  BY <1>1 DEF CallType
<1>3. CallOK(c)
  BY <1>1, <1>2 DEF CallOK
<1>4. \A u : Wants(c, u) <=> u \in op[o].todo /\ u # op[o].cur
  BY <1>2 DEF Wants
<1> QED
  BY <1>1, <1>2, <1>3, <1>4 DEF Wants, Behind

LEMMA ResumeRetryOK ==
  ASSUME FleetInv, NEW o \in Operators, ResumeRetry(o)
  PROVE  StepOK
<1>1. PICK t : t = op[o].cur
  OBVIOUS
<1>2. PICK s : s = op[o].snap[t]
  OBVIOUS
<1>3. /\ UNCHANGED <<alerts, rec, stream, proc, drv, clock, calls>> /\ op[o].call = "retry"
  BY DEF ResumeRetry, hostVars, bounds
<1>4. \/ /\ Unchanged(t, s) /\ Preparable(Found(t), s.attempts) /\ Restarted(t, s, op[o].now)
         /\ GoOn(o, [op[o] EXCEPT !.call = "mark", !.todo = @ \ {t}])
      \/ Hang(o) /\ UNCHANGED <<task, disk>>
      \/ /\ Unchanged(t, s) /\ task' = [task EXCEPT ![t].status = "failed", ![t].seq = @ + 1]
         /\ op' = [op EXCEPT ![o] = [op[o] EXCEPT !.call = "alert", !.todo = @ \ {t}]]
         /\ UNCHANGED disk
      \/ /\ GoOn(o, [op[o] EXCEPT !.call = "mark", !.todo = @ \ {t}])
         /\ UNCHANGED <<task, disk>>
  BY <1>1, <1>2 DEF ResumeRetry
<1>5. /\ op[o] \in CallType /\ CallOK(op[o]) /\ op \in [Operators -> CallType]
      /\ op[o].todo \subseteq Tasks /\ op[o].now \in 0..MaxTime
  BY CallFacts
<1>6. t \in op[o].todo /\ t \in Tasks /\ Leased(s) /\ Wants(op[o], t)
  BY <1>1, <1>2, <1>3, <1>5 DEF CallOK, Wants
<1>8. CASE /\ Unchanged(t, s) /\ Preparable(Found(t), s.attempts) /\ Restarted(t, s, op[o].now)
           /\ GoOn(o, [op[o] EXCEPT !.call = "mark", !.todo = @ \ {t}])
  <2>1. PICK a : a = task[t].attempts
    OBVIOUS
  <2>2. a = s.attempts /\ a > 0
    BY <1>2, <1>3, <1>6, <1>8, <2>1, RestartFacts
  <2>3. PICK r : r = PreparedFor(Found(t), a)
    OBVIOUS
  <2>4. /\ disk' = [disk EXCEPT ![t] = r] /\ task' = Leasing(t, op[o].now)
        /\ Preparable(Found(t), a)
    BY <1>8, <2>2, <2>3 DEF Restarted
  <2>5. PICK c : c = [op[o] EXCEPT !.call = "mark", !.todo = @ \ {t}]
    OBVIOUS
  <2>6. GoOn(o, c)
    BY <1>8, <2>5
  <2>7. /\ c \in CallType /\ CallOK(c)
        /\ \A u \in Tasks : c.snap[u].attempts <= task[u].attempts
        /\ \A u \in Tasks : Wants(c, u) => Wants(op[o], u)
        /\ ~Wants(c, t)
    BY <1>1, <1>3, <2>5, NextTask
  <2>8. PICK d \in CallType :
           /\ CallOK(d) /\ op' = [op EXCEPT ![o] = d]
           /\ \A u \in Tasks : d.snap[u].attempts <= task[u].attempts
           /\ \A u \in Tasks : Wants(d, u) => Wants(op[o], u)
           /\ \A u \in Tasks : Wants(d, u) => Wants(c, u)
    BY <2>6, <2>7, GoesOn
  <2>9. ~Wants(d, t)
    BY <1>6, <2>7, <2>8
  <2> QED
    BY <1>3, <1>5, <1>6, <2>1, <2>2, <2>3, <2>4, <2>8, <2>9, PrepareStep
<1>9. CASE Hang(o) /\ UNCHANGED <<task, disk>>
  BY <1>3, <1>9, HangOK
<1>10. CASE /\ Unchanged(t, s)
            /\ task' = [task EXCEPT ![t].status = "failed", ![t].seq = @ + 1]
            /\ op' = [op EXCEPT ![o] = [op[o] EXCEPT !.call = "alert", !.todo = @ \ {t}]]
            /\ UNCHANGED disk
  <2> DEFINE e == [task[t] EXCEPT !.status = "failed", !.seq = task[t].seq + 1]
  <2>1. ASSUME NEW d \in TaskType, NEW x, x = [d EXCEPT !.status = "failed", !.seq = d.seq + 1]
        PROVE  x \in TaskType /\ x.attempts = d.attempts /\ x.status = "failed"
    <3>1. d.seq + 1 \in Nat
      BY TaskFields
    <3> QED
      BY <2>1, <3>1 DEF TaskType
  <2>2. task[t] \in TaskType
    BY <1>6, Numbers
  <2>3. e \in TaskType /\ e.attempts = task[t].attempts /\ e.status = "failed"
    BY <2>1, <2>2
  <2>4. task' = [task EXCEPT ![t] = e]
    BY <1>6, <1>10, QuietNow
  <2> HIDE DEF e
  <2>5. Quiet(task[t], e)
    BY <1>6, <1>10, <2>3 DEF Quiet, Unchanged, Leased, Closed
  <2>6. /\ task' \in [Tasks -> TaskType]
        /\ \A u \in Tasks : Quiet(task[u], task'[u])
        /\ \A u \in Tasks : task'[u].status = "completed" => task[u].status = "completed"
    BY <1>6, <2>3, <2>4, <2>5, TaskMoves
  <2>7. PICK c : c = [op[o] EXCEPT !.call = "alert", !.todo = @ \ {t}]
    OBVIOUS
  <2>8. op' = [op EXCEPT ![o] = c]
    BY <1>10, <2>7
  <2>9. /\ c \in CallType /\ CallOK(c)
        /\ \A u \in Tasks : c.snap[u].attempts <= task[u].attempts
        /\ \A u \in Tasks : Wants(c, u) => Wants(op[o], u)
    BY <1>1, <1>3, <2>7, NextTask
  <2> QED
    BY <1>3, <1>10, <2>6, <2>8, <2>9, QuietNow, CallStep
<1>11. CASE /\ GoOn(o, [op[o] EXCEPT !.call = "mark", !.todo = @ \ {t}])
            /\ UNCHANGED <<task, disk>>
  <2>1. PICK c : c = [op[o] EXCEPT !.call = "mark", !.todo = @ \ {t}]
    OBVIOUS
  <2>2. GoOn(o, c)
    BY <1>11, <2>1
  <2>3. /\ c \in CallType /\ CallOK(c)
        /\ \A u \in Tasks : c.snap[u].attempts <= task[u].attempts
        /\ \A u \in Tasks : Wants(c, u) => Wants(op[o], u)
    BY <1>1, <1>3, <2>1, NextTask
  <2>4. PICK d \in CallType :
           /\ CallOK(d) /\ op' = [op EXCEPT ![o] = d]
           /\ \A u \in Tasks : d.snap[u].attempts <= task[u].attempts
           /\ \A u \in Tasks : Wants(d, u) => Wants(op[o], u)
    BY <2>2, <2>3, GoesOn
  <2> QED
    BY <1>3, <1>11, <2>4, QuietNow, CallStep
<1> QED
  BY <1>4, <1>8, <1>9, <1>10, <1>11

-----------------------------------------------------------------------------
(* Crashes and time. *)

LEMMA NoRecHeir ==
  ASSUME FleetInv, NEW t \in Tasks
  PROVE  Heir(t, NoRec) /\ NoRec \in RecordType
<1>1. Good(NoRec) /\ NoRec.gen = 0 /\ NoRec.status = "done" /\ task[t].attempts \in Nat
  BY NoRecOK, Numbers DEF NoRec
<1> QED
  BY <1>1 DEF Heir, PreparedAhead, Spent, Consumed, Good

\* The driver is gone, or new: nothing is tracked and nothing is in its hand.
LEMMA Forgotten ==
  ASSUME FleetInv, UNCHANGED <<task, proc>>, stream' = [t \in Tasks |-> NoStream]
  PROVE  HostOK' /\ \A t \in Tasks : StreamTrue(t)'
BY NoStreamOK, TypeFacts DEF HostOK, StreamTrue

LEMMA CrashOK ==
  ASSUME FleetInv, Crash
  PROVE  StepOK
<1>1. /\ UNCHANGED <<task, alerts, proc, op, clock, calls>> /\ drv' = Down
      /\ stream' = [t \in Tasks |-> NoStream] /\ rec' = [t \in Tasks |-> NoRec]
  BY DEF Crash, ledgerVars
<1>2. disk' = disk \/ \E t \in Admissible : disk' = [disk EXCEPT ![t] = Merged(disk[t], Registered)]
  BY DEF Crash
<1>3. disk \in [Tasks -> RecordType] /\ \A t \in Tasks : Heir(t, disk[t]) /\ disk[t].gen \in Nat
  BY TypeFacts, HeirsNow, Numbers DEF RecordsOK
<1>4. /\ disk' \in [Tasks -> RecordType]
      /\ \A t \in Tasks : Heir(t, disk'[t]) /\ disk'[t].gen \in Nat
      /\ \A t \in Tasks : \/ disk'[t].gen = disk[t].gen
                          \/ task[t].attempts = 0 /\ disk'[t].gen \in {0, 1}
  <2>1. CASE disk' = disk
    BY <1>3, <2>1
  <2>2. CASE disk' # disk
    <3>1. PICK t \in Admissible : disk' = [disk EXCEPT ![t] = Merged(disk[t], Registered)]
      BY <1>2, <2>2
    <3>2. t \in Tasks /\ task[t].attempts = 0
      BY TypeFacts DEF Admissible, LedgerOK
    <3>3. PICK m : m = Merged(disk[t], Registered)
      OBVIOUS
    <3>4. m.gen = 1 /\ Good(m) /\ m \in RecordType /\ Spent(t, m)
      BY <3>3, RegisteredOK
    <3>5. Heir(t, m)
      BY <3>2, <3>4 DEF Heir, PreparedAhead
    <3> QED
      BY <1>3, <3>1, <3>2, <3>3, <3>4, <3>5
  <2> QED
    BY <2>1, <2>2
<1>5. /\ rec' \in [Tasks -> RecordType]
      /\ \A t \in Tasks : Heir(t, rec'[t]) /\ rec'[t].gen <= disk'[t].gen
  BY <1>1, <1>4, NoRecHeir, NoRecOK
<1>6. DriverOK' /\ \A t \in Tasks : Launching(t)'
  BY <1>1, DownOK, FreshBehind, DriverElsewhere DEF Launching
<1>7. HostOK' /\ \A t \in Tasks : StreamTrue(t)'
  BY <1>1, Forgotten
<1> QED
  BY <1>1, <1>4, <1>5, <1>6, <1>7, RecordStep

LEMMA StartDriverOK ==
  ASSUME FleetInv, StartDriver
  PROVE  StepOK
<1>1. /\ UNCHANGED <<task, alerts, stream, proc, op, clock, calls>>
      /\ disk' = [t \in Tasks |-> Recovered(disk[t])] /\ rec' = disk'
      /\ drv' = [Down EXCEPT !.pc = "idle"]
  BY DEF StartDriver, ledgerVars, hostVars, bounds
<1>2. ASSUME NEW t \in Tasks
      PROVE  /\ Heir(t, Recovered(disk[t])) /\ Recovered(disk[t]).gen = disk[t].gen
             /\ Recovered(disk[t]) \in RecordType /\ disk[t].gen \in Nat
  <2>1. /\ Heir(t, disk[t]) /\ Succeeds(disk[t], Recovered(disk[t]))
        /\ Recovered(disk[t]).prepared <=> disk[t].prepared
    BY TypeFacts, HeirsNow, RecoveredOK
  <2> QED
    BY <2>1, HeirSucceeds, Numbers DEF Succeeds, Good
<1>3. /\ disk' \in [Tasks -> RecordType] /\ rec' \in [Tasks -> RecordType]
      /\ \A t \in Tasks : Heir(t, disk'[t]) /\ Heir(t, rec'[t])
      /\ \A t \in Tasks : rec'[t].gen <= disk'[t].gen /\ disk'[t].gen = disk[t].gen
  BY <1>1, <1>2
<1>4. drv' \in DriverType /\ drv'.pc = "idle" /\ drv'.snap = NoSnap
  <2>1. "idle" \in {"idle", "end"} /\ TRUE \in BOOLEAN
    OBVIOUS
  <2> QED
    BY <1>1, <2>1, FromDown
<1>5. DriverOK' /\ \A t \in Tasks : Launching(t)'
  BY <1>1, <1>4, FreshBehind, DriverElsewhere DEF Launching
<1> QED
  BY <1>1, <1>3, <1>5, HostStays, RecordStep

\* Nothing but the clock and the faults.
LEMMA IdleOK ==
  ASSUME FleetInv, clock' \in 0..MaxTime,
         UNCHANGED <<task, alerts, disk, rec, stream, proc, drv, op, calls>>
  PROVE  StepOK
<1>1. FleetTypeOK'
  BY TypeFacts
     DEF FleetTypeOK, LedgerOK, RecordsOK, HostOK, DriverOK, OperatorsOK, Accounted,
         Behind, Tracked, Restarting
<1>2. LeaseNumbered'
  BY TypeFacts DEF LeaseNumbered, Numbered, PreparedAhead
<1>3. OutcomeTrue'
  BY TypeFacts DEF OutcomeTrue, CompletedTrue, LaunchedOnce, StreamTrue, Spent, Consumed,
                   Launching, ExitOf
<1>4. KeepsOutcome
  BY DEF KeepsOutcome
<1>5. Grows
  BY Numbers DEF Grows
<1> QED
  BY <1>1, <1>2, <1>3, <1>4, <1>5 DEF StepOK, FleetInv

LEMMA ClockOK ==
  ASSUME FleetInv, Clock
  PROVE  StepOK
<1>1. clock' \in 0..MaxTime
  BY TypeFacts, FleetAssumption DEF Clock
<1> QED
  BY <1>1, IdleOK DEF Clock, ledgerVars, recordVars, hostVars

-----------------------------------------------------------------------------
(* The invariant. *)

LEMMA InitOK == Init => FleetInv
<1> SUFFICES ASSUME Init
             PROVE  FleetInv
  OBVIOUS
<1>1. /\ task = [t \in Tasks |-> NewTask] /\ alerts = {}
      /\ disk = [t \in Tasks |-> NoRec] /\ rec = [t \in Tasks |-> NoRec]
      /\ stream = [t \in Tasks |-> NoStream]
      /\ proc = [t \in Tasks |-> [n \in Attempts |-> "none"]]
      /\ drv = [Down EXCEPT !.pc = "idle"] /\ op = [o \in Operators |-> NoCall]
      /\ clock = 0 /\ calls = 0
  BY DEF Init
<1>2. /\ NewTask \in TaskType /\ NewTask.attempts = 0 /\ NewTask.status = "enqueued"
  BY FleetAssumption DEF NewTask, TaskType
<1>3. LedgerOK
  BY <1>1, <1>2 DEF LedgerOK
<1>4. RecordsOK /\ \A t \in Tasks : disk[t].gen = 0 /\ rec[t].gen = 0 /\ task[t].attempts = 0
  BY <1>1, <1>2, NoRecOK DEF RecordsOK, Good
<1>5. HostOK /\ \A t \in Tasks : stream[t].attempt = 0
  BY <1>1, NoStreamOK DEF HostOK
<1>6. \A t \in Tasks : NoSnap[t].attempts <= task[t].attempts
  BY <1>4, NoSnapOK
<1>7. drv \in DriverType /\ drv.pc = "idle" /\ drv.snap = NoSnap
  <2>1. "idle" \in {"idle", "end"} /\ TRUE \in BOOLEAN
    OBVIOUS
  <2> QED
    BY <1>1, <2>1, FromDown
<1>8. DriverOK
  BY <1>6, <1>7 DEF DriverOK, Behind
<1>9. OperatorsOK
  BY <1>1, <1>6, NoCallOK DEF OperatorsOK, Behind
<1>10. Accounted
  <2>1. ASSUME NEW t \in Tasks
        PROVE  Restarting(t) = {}
    BY <1>1 DEF Restarting, NoCall
  <2> QED
    BY <1>1, <1>4, <2>1, FS_EmptySet DEF Accounted
<1>11. FleetTypeOK
  BY <1>1, <1>3, <1>4, <1>5, <1>8, <1>9, <1>10, FleetAssumption DEF FleetTypeOK
<1>12. LeaseNumbered
  BY <1>4 DEF LeaseNumbered, Numbered, PreparedAhead
<1>13. OutcomeTrue
  <2>1. ASSUME NEW t \in Tasks
        PROVE  CompletedTrue(t) /\ StreamTrue(t) /\ \A n \in Attempts : proc[t][n] = "none"
    BY <1>1, <1>2, <1>5 DEF CompletedTrue, StreamTrue
  <2> QED
    BY <1>7, <2>1 DEF OutcomeTrue, LaunchedOnce, Spent, Launching
<1> QED
  BY <1>11, <1>12, <1>13 DEF FleetInv

LEMMA StepsOK ==
  ASSUME FleetInv, [Next]_fleetVars
  PROVE  StepOK
<1>1. ASSUME Driver
      PROVE  StepOK
  <2>1. CASE \E t \in Tasks : Beat(t) \/ Lease(t) \/ RejectLaunch(t) \/ Activate(t)
                              \/ RefuseLaunch(t) \/ Fence(t) \/ Attend(t)
    BY <2>1, BeatOK, LeaseOK, RejectLaunchOK, ActivateOK, RefuseLaunchOK, FenceOK,
       AttendOK
  <2>2. CASE \/ BeginTick \/ Schedule \/ ReadLeases \/ EndBeat \/ LeaseFails \/ Drive
             \/ DriveReconcile \/ Check \/ Launch \/ LaunchFails \/ Artifact \/ EndStarting
    BY <2>2, BeginTickOK, ScheduleOK, ReadLeasesOK, EndBeatOK, LeaseFailsOK, DriveOK,
       DriveReconcileOK, CheckOK, LaunchOK, LaunchFailsOK, ArtifactOK, EndStartingOK
  <2>3. CASE \/ Observe \/ Report \/ Stamp \/ Running \/ WithinLimit \/ Timeout
             \/ Publish \/ AppendFails \/ EndWork \/ Settle \/ GiveUp \/ Finish
    BY <2>3, ObserveOK, ReportOK, StampOK, RunningOK, WithinLimitOK, TimeoutOK,
       PublishOK, AppendFailsOK, EndWorkOK,
       SettleOK, GiveUpOK, FinishOK
  <2> QED
    BY <1>1, <2>1, <2>2, <2>3 DEF Driver
<1>2. ASSUME NEW o \in Operators, Operator(o)
      PROVE  StepOK
  BY <1>2, RestartCommitOK, RestartTornOK, ResumeReadOK, ResumeRetryOK, ResumeAlertOK,
     StopTaskOK, ResumeMarkOK DEF Operator
<1>3. ASSUME Request
      PROVE  StepOK
  BY <1>3, InterruptOK, StopRunOK, ResumeRunOK, RestartWorkerOK DEF Request
<1>4. ASSUME Environment
      PROVE  StepOK
  BY <1>4, CrashOK, StartDriverOK, ClockOK, OperatorDiesOK, ExitOK, OrphanDiesOK
     DEF Environment
<1>5. ASSUME UNCHANGED fleetVars
      PROVE  StepOK
  BY <1>5, IdleOK, TypeFacts DEF fleetVars, ledgerVars, recordVars, hostVars, bounds
<1> QED
  BY <1>1, <1>2, <1>3, <1>4, <1>5 DEF Next

\* Whatever driver, operators, workers and crashes do, in any order and with
\* any number of faults, ledger, records and processes keep to FleetInv.
THEOREM FleetInvariant == Spec => []FleetInv
<1>1. FleetInv /\ [Next]_fleetVars => FleetInv'
  BY StepsOK DEF StepOK
<1> QED
  BY <1>1, InitOK, PTL DEF Spec

\* Everything keeps its shape, no snapshot that someone acts on is ahead of the
\* ledger, and a call starts or prepares one attempt of a task at most.
THEOREM FleetTyped == Spec => []FleetTypeOK
<1>1. FleetInv => FleetTypeOK
  BY DEF FleetInv
<1> QED
  BY <1>1, FleetInvariant, PTL

\* A task is completed only by the exit of its current attempt's own process,
\* and no attempt is launched twice (activate_registered_worker_attempt,
\* prepare_task_outcome, publish_task_outcome).
THEOREM OutcomesTrue == Spec => []OutcomeTrue
<1>1. FleetInv => OutcomeTrue
  BY DEF FleetInv
<1> QED
  BY <1>1, FleetInvariant, PTL

\* A terminal outcome is left only by a restart, with a new attempt
\* (finalize_task_attempt_with_tail_if_leased, restart_task_if_unchanged).
THEOREM OutcomesFinal == Spec => OutcomeFinal
<1>1. FleetInv /\ [Next]_fleetVars => [KeepsOutcome]_fleetVars
  BY StepsOK DEF StepOK
<1> QED
  BY <1>1, FleetInvariant, PTL DEF Spec, OutcomeFinal
-----------------------------------------------------------------------------
(* One process per task.  Two processes of a task need an orphan, and an   *)
(* orphan needs a driver that died; until a second fault, the store knows  *)
(* every orphan there may be, and refuses to settle or launch past it.     *)

Alive(t, n) == proc[t][n] = "alive"

\* A record that tells of the process of attempt n: it has been started and
\* not been proved gone, or the attempt after it waits for that proof.
Guards(r, n) ==
    \/ r.gen = n /\ r.started /\ (~Ended(r) \/ r.recint)
    \/ r.gen = n + 1 /\ r.unsettled

\* The record in the store does, and the one the driver would act on.
Guarded(t, n) == Guards(disk[t], n) /\ Guards(Refreshed(t), n)

\* A receipt is of an attempt that is over.
ReceiptOrder(t) ==
    /\ task[t].receipt <= task[t].attempts
    /\ Leased(task[t]) => task[t].receipt < task[t].attempts

\* An outcome is retained only of a process that has stopped.
OutcomeStopped(t) == stream[t].pending # "none" => stream[t].stopped

\* What the driver is about to start is not tracked and has no receipt.
StartsFresh ==
    drv.pc \in {"start", "launch", "artifact"} =>
        \A t \in drv.todo :
            /\ task[t].receipt # drv.snap[t].attempts
            /\ t \in Tracked => drv.pc = "artifact" /\ t = drv.cur

Ordered ==
    /\ \A t \in Tasks : ReceiptOrder(t) /\ OutcomeStopped(t)
    /\ StartsFresh

\* Before any fault, what the store has ended the driver knows to have ended.
Firm(t) ==
    /\ task[t].attempts = 0 => disk[t].gen = 0
    /\ disk[t].gen = rec[t].gen /\ Ended(disk[t]) => Ended(rec[t])

LaunchGuarded ==
    drv.pc = "launch" => Guarded(drv.cur, drv.snap[drv.cur].attempts)

\* Before any fault every process is tracked, and the records tell of it.
Faultless ==
    /\ \A t \in Tasks : Firm(t)
    /\ \A t \in Tasks, n \in Attempts :
          Alive(t, n) => stream[t].attempt = n /\ Guarded(t, n)
    /\ LaunchGuarded

\* A live process is the only one of its task, no receipt is of it, and it is
\* tracked or the records tell of it.
Sole(t, n) ==
    /\ \A m \in Attempts : Alive(t, m) => m = n
    /\ task[t].receipt # n
    /\ drv.pc \in {"schedule", "reconcile", "settle"} => drv.snap[t].receipt # n
    /\ drv.pc = "launch" => drv.cur # t
    /\ \/ stream[t].attempt = n
       \/ Guarded(t, n) /\ (drv.pc # "down" => n <= rec[t].gen)

SoleInv ==
    /\ faults \in Nat
    /\ Ordered
    /\ faults = 0 => Faultless
    /\ faults <= 1 => \A t \in Tasks, n \in Attempts : Alive(t, n) => Sole(t, n)

-----------------------------------------------------------------------------
(* Records that tell of a process go on doing so. *)

LEMMA AttemptNumbers ==
  ASSUME NEW n \in Attempts
  PROVE  n \in Nat /\ n > 0
BY FleetAssumption DEF Attempts

LEMMA GuardsRecovered ==
  ASSUME NEW r, Good(r), NEW n, Guards(r, n)
  PROVE  Guards(Recovered(r), n)
<1>1. CASE ~r.prepared /\ r.status \in {"starting", "running"}
  <2>1. ASSUME NEW x, x = [r EXCEPT !.status = "interrupted", !.recint = TRUE]
        PROVE  x.gen = r.gen /\ x.started = r.started /\ x.recint /\ x.unsettled = r.unsettled
    BY <2>1 DEF Good, RecordType
  <2>2. PICK x : x = Recovered(r)
    OBVIOUS
  <2>3. x.gen = r.gen /\ x.started = r.started /\ x.recint /\ x.unsettled = r.unsettled
    BY <1>1, <2>1, <2>2 DEF Recovered
  <2> QED
    BY <2>2, <2>3 DEF Guards
<1>2. CASE ~(~r.prepared /\ r.status \in {"starting", "running"})
  BY <1>2 DEF Recovered
<1> QED
  BY <1>1, <1>2

\* Reconciliation takes only a receipt or evidence of the process for proof.
LEMMA GuardsProjected ==
  ASSUME NEW r, Good(r), NEW n \in Nat, Guards(r, n), NEW s, NEW ev,
         s.receipt # n, ev # n
  PROVE  Guards(Projected(r, s, ev), n)
<1>1. PICK c : c = Cleared(r, s, ev)
  OBVIOUS
<1>2. /\ c \in RecordType /\ c.gen = r.gen /\ c.status = r.status
      /\ c.started = r.started /\ c.recint = r.recint
      /\ c.unsettled = (r.unsettled /\ r.gen - 1 \notin {ev, s.receipt})
  <2>1. r \in RecordType
    BY DEF Good
  <2>2. PICK u : u = (r.unsettled /\ r.gen - 1 \notin {ev, s.receipt})
    OBVIOUS
  <2>3. c = [r EXCEPT !.unsettled = u]
    BY <1>1, <2>2 DEF Cleared
  <2>4. u \in BOOLEAN
    BY <2>2
  <2> QED
    BY <2>1, <2>2, <2>3, <2>4 DEF RecordType
<1>3. Guards(c, n)
  <2>1. CASE r.gen = n /\ r.started /\ (~Ended(r) \/ r.recint)
    BY <1>2, <2>1 DEF Guards, Ended
  <2>2. CASE r.gen = n + 1 /\ r.unsettled
    <3>1. r.gen - 1 = n
      BY <2>2
    <3>2. r.gen - 1 \notin {ev, s.receipt}
      BY <3>1
    <3> QED
      BY <1>2, <2>2, <3>2 DEF Guards
  <2> QED
    BY <2>1, <2>2 DEF Guards
<1> DEFINE keep == \/ c.unsettled \/ Unproven(c, s, ev)
                   \/ c.gen # s.attempts
                   \/ ~Closed(s) /\ c.status = "starting" /\ (c.prepared \/ ~c.started)
<1>4. CASE keep
  <2>1. Projected(r, s, ev) = c
    BY <1>1, <1>4 DEF Projected
  <2> QED
    BY <1>3, <2>1
<1>5. CASE ~keep
  <2>1. c.gen = n /\ c.started /\ (~Ended(c) \/ c.recint) /\ c.gen = s.attempts
    BY <1>3, <1>5 DEF Guards
  <2>2. ~Closed(s)
    <3>1. ~Unproven(c, s, ev)
      BY <1>5
    <3> QED
      BY <2>1, <3>1 DEF Unproven
  <2>3. ASSUME NEW b, NEW x, b,
               x = [c EXCEPT !.status = "running", !.prepared = FALSE, !.recint = FALSE,
                             !.started = b]
        PROVE  x.gen = c.gen /\ x.status = "running" /\ x.started
    BY <1>2, <2>3 DEF RecordType
  <2>4. Projected(r, s, ev) =
             [c EXCEPT !.status = "running", !.prepared = FALSE, !.recint = FALSE,
                       !.started = c.started \/ ~Closed(s)]
    BY <1>1, <1>5, <2>2 DEF Projected
  <2>5. PICK p : p = Projected(r, s, ev)
    OBVIOUS
  <2>6. c.started \/ ~Closed(s)
    BY <2>2
  <2>7. p.gen = c.gen /\ p.status = "running" /\ p.started
    BY <2>3, <2>4, <2>5, <2>6
  <2> QED
    BY <2>1, <2>5, <2>7 DEF Guards, Ended
<1> QED
  BY <1>4, <1>5

\* A record that has ended is reopened by no reconciliation that succeeds.
LEMMA ReopeningRefused ==
  ASSUME NEW r, Good(r), Ended(r), NEW s, NEW ev, ~Ended(Projected(r, s, ev))
  PROVE  Refused(r, s, ev)
<1>1. PICK c : c = Cleared(r, s, ev)
  OBVIOUS
<1>2. c \in RecordType /\ c.status = r.status
  BY <1>1, ClearedOK DEF Succeeds, Good
<1>3. Ended(c)
  BY <1>2 DEF Ended
<1> DEFINE keep == \/ c.unsettled \/ Unproven(c, s, ev)
                   \/ c.gen # s.attempts
                   \/ ~Closed(s) /\ c.status = "starting" /\ (c.prepared \/ ~c.started)
<1>4. ~keep
  BY <1>1, <1>3 DEF Projected
<1>5. ~Closed(s)
  <2>1. ASSUME Closed(s)
        PROVE  FALSE
    <3>1. ASSUME NEW b, NEW x,
                 x = [c EXCEPT !.status = "done", !.prepared = FALSE, !.recint = FALSE,
                               !.started = b]
          PROVE  x.status = "done"
      BY <1>2, <3>1 DEF RecordType
    <3>2. Projected(r, s, ev) =
             [c EXCEPT !.status = "done", !.prepared = FALSE, !.recint = FALSE,
                       !.started = c.started \/ ~Closed(s)]
      BY <1>1, <1>4, <2>1 DEF Projected
    <3> QED
      BY <3>1, <3>2 DEF Ended
  <2> QED
    BY <2>1
<1> QED
  BY <1>1, <1>3, <1>4, <1>5 DEF Refused

\* A restart of an attempt whose process is not proved gone says so.
LEMMA GuardsPrepared ==
  ASSUME NEW r, Good(r), NEW n \in Nat, Guards(r, n), NEW a, Preparable(r, a)
  PROVE  Guards(PreparedFor(r, a), n)
<1>1. CASE r.gen = a
  <2>1. r \in RecordType /\ r.gen \in Nat
    BY RecordFields, FleetAssumption DEF Good
  <2>2. a # a + 1
    BY <1>1, <2>1
  <2>3. ~r.unsettled /\ r.gen = n /\ r.started /\ (~Ended(r) \/ r.recint)
    BY <1>1, <2>2 DEF Preparable, Guards
  <2>4. ~Settled(r)
    BY <2>3 DEF Settled, Ended
  <2>5. ASSUME NEW u, NEW x, u,
               x = [r EXCEPT !.gen = r.gen + 1, !.status = "starting", !.prepared = TRUE,
                             !.recint = FALSE, !.started = FALSE, !.unsettled = u]
        PROVE  x.gen = r.gen + 1 /\ x.unsettled
    BY <2>1, <2>5 DEF RecordType
  <2>6. PreparedFor(r, a) =
             [r EXCEPT !.gen = r.gen + 1, !.status = "starting", !.prepared = TRUE,
                       !.recint = FALSE, !.started = FALSE,
                       !.unsettled = r.unsettled \/ ~Settled(r)]
    BY <1>1 DEF PreparedFor, Prepared
  <2>7. PICK p : p = PreparedFor(r, a)
    OBVIOUS
  <2>8. r.unsettled \/ ~Settled(r)
    BY <2>4
  <2>9. p.gen = r.gen + 1 /\ p.unsettled
    BY <2>5, <2>6, <2>7, <2>8
  <2> QED
    BY <2>3, <2>7, <2>9 DEF Guards
<1>2. CASE r.gen # a
  BY <1>2 DEF PreparedFor
<1> QED
  BY <1>1, <1>2

LEMMA GuardsActivated ==
  ASSUME NEW r, Good(r), NEW a, Launchable(r, a)
  PROVE  Guards(Activated(r), a) /\ ~Ended(Activated(r))
<1>1. r \in RecordType /\ r.gen = a /\ r.status = "starting"
  BY DEF Good, Launchable
<1>2. ASSUME NEW x, x = [r EXCEPT !.prepared = FALSE, !.recint = FALSE, !.started = TRUE]
      PROVE  x.gen = a /\ x.status = "starting" /\ x.started
  BY <1>1, <1>2 DEF RecordType
<1>3. PICK x : x = Activated(r)
  OBVIOUS
<1>4. x.gen = a /\ x.status = "starting" /\ x.started
  BY <1>2, <1>3 DEF Activated
<1> QED
  BY <1>3, <1>4 DEF Guards, Ended

\* Nothing is launched past a record that tells of a process.
LEMMA GuardsRefuse ==
  ASSUME NEW r, NEW n, Guards(r, n), NEW a
  PROVE  ~Launchable(r, a)
BY DEF Guards, Launchable

-----------------------------------------------------------------------------
(* Steps. *)

\* What a step leaves of a live process: it is still tracked, no receipt is of
\* it, and no snapshot that reconciliation will use.
Lasting(t, n) ==
    /\ Alive(t, n)
    /\ stream[t].attempt = n => stream'[t].attempt = n
    /\ Sole(t, n) =>
          /\ task'[t].receipt # n
          /\ drv'.pc \in {"schedule", "reconcile", "settle"} => drv'.snap[t].receipt # n

\* The records go on telling of it.
GuardLasts(t, n) ==
    /\ Guarded(t, n) => Guarded(t, n)'
    /\ Guarded(t, n) /\ (drv.pc # "down" => n <= rec[t].gen) =>
          (drv'.pc # "down" => n <= rec'[t].gen)

Nears == faults' \in {faults, faults + 1}

\* No process is started and none is lost.
LEMMA SoleStep ==
  ASSUME SoleInv, Nears, Ordered',
         \A t \in Tasks, n \in Attempts : Alive(t, n)' => Lasting(t, n),
         \A t \in Tasks, n \in Attempts :
             faults <= 1 /\ Alive(t, n)' /\ Sole(t, n) => GuardLasts(t, n),
         \A t \in Tasks, n \in Attempts :
             drv'.pc = "launch" /\ Alive(t, n)' /\ Sole(t, n) => drv'.cur # t,
         faults' = 0 => (\A t \in Tasks : Firm(t)') /\ LaunchGuarded'
  PROVE  SoleInv'
<1>1. faults \in Nat /\ faults' \in Nat /\ (faults' = 0 => faults = 0)
      /\ (faults' <= 1 => faults <= 1)
  BY DEF SoleInv, Nears
<1>2. ASSUME NEW t \in Tasks, NEW n \in Attempts, Alive(t, n)', faults' <= 1
      PROVE  Sole(t, n)' /\ Sole(t, n) /\ GuardLasts(t, n)
  <2>1. Lasting(t, n) /\ Alive(t, n) /\ faults <= 1
    BY <1>1, <1>2 DEF Lasting
  <2>2. Sole(t, n)
    BY <2>1 DEF SoleInv
  <2>3. GuardLasts(t, n)
    BY <1>2, <2>1, <2>2
  <2>4. \A m \in Attempts : Alive(t, m)' => m = n
    BY <2>2 DEF Lasting, Sole
  <2>5. /\ task'[t].receipt # n
        /\ drv'.pc \in {"schedule", "reconcile", "settle"} => drv'.snap[t].receipt # n
    BY <2>1, <2>2 DEF Lasting
  <2>6. drv'.pc = "launch" => drv'.cur # t
    BY <1>2, <2>2
  <2>7. \/ stream'[t].attempt = n
        \/ Guarded(t, n)' /\ (drv'.pc # "down" => n <= rec'[t].gen)
    <3>1. CASE stream[t].attempt = n
      BY <2>1, <3>1 DEF Lasting
    <3>2. CASE stream[t].attempt # n
      BY <2>2, <2>3, <3>2 DEF Sole, GuardLasts
    <3> QED
      BY <3>1, <3>2
  <2> QED
    BY <2>2, <2>3, <2>4, <2>5, <2>6, <2>7 DEF Sole
<1>3. ASSUME faults' = 0
      PROVE  Faultless'
  <2>1. ASSUME NEW t \in Tasks, NEW n \in Attempts, Alive(t, n)'
        PROVE  stream'[t].attempt = n /\ Guarded(t, n)'
    <3>1. Lasting(t, n) /\ GuardLasts(t, n) /\ Alive(t, n)
      BY <1>2, <1>3, <2>1 DEF Lasting
    <3>2. stream[t].attempt = n /\ Guarded(t, n)
      BY <1>1, <1>3, <3>1 DEF SoleInv, Faultless
    <3> QED
      BY <3>1, <3>2 DEF Lasting, GuardLasts
  <2> QED
    BY <1>3, <2>1 DEF Faultless
<1> QED
  BY <1>1, <1>2, <1>3 DEF SoleInv

\* The records are left alone.
LEMMA SoleFrame ==
  ASSUME SoleInv, UNCHANGED <<disk, rec>>, Nears, Ordered',
         \A t \in Tasks, n \in Attempts : Alive(t, n)' => Lasting(t, n),
         drv' = drv \/ (drv.pc # "down" /\ drv'.pc # "launch"),
         \A t \in Tasks : task'[t].attempts = 0 => task[t].attempts = 0
  PROVE  SoleInv'
<1>1. \A t \in Tasks, n \in Attempts : Guarded(t, n)' <=> Guarded(t, n)
  BY DEF Guarded, Refreshed
<1>2. \A t \in Tasks, n \in Attempts : GuardLasts(t, n)
  BY <1>1 DEF GuardLasts
<1>3. \A t \in Tasks, n \in Attempts :
             drv'.pc = "launch" /\ Alive(t, n)' /\ Sole(t, n) => drv'.cur # t
  BY DEF Sole
<1>4. ASSUME faults' = 0
      PROVE  (\A t \in Tasks : Firm(t)') /\ LaunchGuarded'
  <2>1. Faultless
    BY <1>4 DEF SoleInv, Nears
  <2>2. \A t \in Tasks : Firm(t)'
    BY <2>1 DEF Faultless, Firm
  <2>3. LaunchGuarded'
    <3>1. CASE drv' = drv
      BY <2>1, <3>1 DEF Faultless, LaunchGuarded, Guarded, Refreshed
    <3>2. CASE drv'.pc # "launch"
      BY <3>2 DEF LaunchGuarded
    <3> QED
      BY <3>1, <3>2
  <2> QED
    BY <2>2, <2>3
<1> QED
  BY <1>2, <1>3, <1>4, SoleStep

\* A task goes on: its attempt and its receipt stay, and it is not leased anew.
Keeps(s, e) ==
    /\ e.attempts = s.attempts /\ e.receipt = s.receipt
    /\ Leased(e) => Leased(s)

Calm == \A t \in Tasks : Keeps(task[t], task'[t])

LEMMA CalmNow ==
  ASSUME UNCHANGED task
  PROVE  Calm
BY DEF Calm, Keeps

\* An event, a heartbeat, or an end without a receipt.
LEMMA KeptFields ==
  ASSUME NEW s \in TaskType
  PROVE  /\ \A q, h : Keeps(s, [s EXCEPT !.seq = q, !.hb = h])
         /\ \A q : Keeps(s, [s EXCEPT !.seq = q])
         /\ \A h : Keeps(s, [s EXCEPT !.hb = h])
         /\ \A q : Keeps(s, [s EXCEPT !.status = "cancelled", !.seq = q])
         /\ \A q : Keeps(s, [s EXCEPT !.status = "failed", !.seq = q])
BY DEF Keeps, Leased, TaskType

LEMMA KeepsOne ==
  ASSUME FleetInv, NEW t \in Tasks, NEW e, Keeps(task[t], e), task' = [task EXCEPT ![t] = e]
  PROVE  Calm
<1>1. task \in [Tasks -> TaskType]
  BY TypeFacts DEF LedgerOK
<1> QED
  BY <1>1 DEF Calm, Keeps

LEMMA CalmOrder ==
  ASSUME Calm, Ordered
  PROVE  \A t \in Tasks : ReceiptOrder(t)'
BY DEF Calm, Keeps, Ordered, ReceiptOrder

\* An operator's step, and others that touch neither records nor driver.
LEMMA SoleAside ==
  ASSUME FleetInv, SoleInv, UNCHANGED <<disk, rec, drv>>, Nears, Calm,
         \A t \in Tasks : stream'[t].attempt = stream[t].attempt,
         \A t \in Tasks : OutcomeStopped(t)',
         \A t \in Tasks, n \in Attempts : Alive(t, n)' => Alive(t, n)
  PROVE  SoleInv'
<1>1. Ordered
  BY DEF SoleInv
<1>2. StartsFresh'
  <2>1. Tracked' = Tracked
    BY DEF Tracked
  <2>2. drv.pc \in {"start", "launch", "artifact"} => drv.todo \subseteq Tasks
    BY DriverFacts
  <2>3. \A t \in Tasks : task'[t].receipt = task[t].receipt
    BY DEF Calm, Keeps
  <2> QED
    BY <1>1, <2>1, <2>2, <2>3 DEF Ordered, StartsFresh
<1>3. Ordered'
  BY <1>1, <1>2, CalmOrder DEF Ordered
<1>4. \A t \in Tasks, n \in Attempts : Alive(t, n)' => Lasting(t, n)
  BY DEF Lasting, Sole, Calm, Keeps
<1>5. \A t \in Tasks : task'[t].attempts = 0 => task[t].attempts = 0
  BY DEF Calm, Keeps
<1> QED
  BY <1>3, <1>4, <1>5, SoleFrame

LEMMA SoleCall ==
  ASSUME FleetInv, SoleInv, UNCHANGED <<disk, rec, stream, proc, drv>>, Nears, Calm
  PROVE  SoleInv'
<1>1. \A t \in Tasks : OutcomeStopped(t)'
  BY DEF SoleInv, Ordered, OutcomeStopped
<1> QED
  BY <1>1, SoleAside DEF Alive

\* Where the driver is when it does not start anything.
LEMMA NotStarting ==
  ASSUME drv'.pc \notin {"start", "launch", "artifact"}
  PROVE  StartsFresh'
BY DEF StartsFresh

\* The driver moves, to a place where it neither starts nor reconciles.
LEMMA SoleDrive ==
  ASSUME SoleInv, UNCHANGED <<disk, rec>>, Nears, Calm,
         drv.pc # "down",
         drv'.pc \notin {"start", "launch", "artifact", "schedule", "reconcile", "settle"},
         \A t \in Tasks : OutcomeStopped(t)',
         \A t \in Tasks, n \in Attempts :
             Alive(t, n)' => Alive(t, n) /\ stream'[t].attempt = stream[t].attempt
  PROVE  SoleInv'
<1>1. Ordered'
  BY CalmOrder, NotStarting DEF SoleInv, Ordered
<1>2. \A t \in Tasks, n \in Attempts : Alive(t, n)' => Lasting(t, n)
  BY DEF Lasting, Sole, Calm, Keeps
<1>3. \A t \in Tasks : task'[t].attempts = 0 => task[t].attempts = 0
  BY DEF Calm, Keeps
<1> QED
  BY <1>1, <1>2, <1>3, SoleFrame

\* The driver looks at the ledger before it reconciles.
LEMMA ViewReceipts ==
  ASSUME FleetInv
  PROVE  \A t \in Tasks : View[t].receipt = task[t].receipt
<1> SUFFICES ASSUME NEW t \in Tasks
             PROVE  View[t].receipt = task[t].receipt
  OBVIOUS
<1>1. ASSUME NEW s \in TaskType, NEW x, x = [s EXCEPT !.seq = 0, !.hb = 0]
      PROVE  x.receipt = s.receipt
  BY <1>1 DEF TaskType
<1> QED
  BY <1>1, Numbers DEF View

LEMMA SoleLook ==
  ASSUME FleetInv, SoleInv, UNCHANGED <<task, disk, rec, stream, proc, faults>>,
         drv.pc # "down", drv'.pc \in {"schedule", "reconcile", "settle"}, drv'.snap = View
  PROVE  SoleInv'
<1>1. Nears /\ Calm
  BY CalmNow DEF Nears
<1>2. Ordered'
  BY <1>1, CalmOrder, NotStarting DEF SoleInv, Ordered, OutcomeStopped
<1>3. \A t \in Tasks, n \in Attempts : Alive(t, n)' => Lasting(t, n)
  BY ViewReceipts DEF Lasting, Sole, Alive
<1> QED
  BY <1>1, <1>2, <1>3, SoleFrame

-----------------------------------------------------------------------------
(* The driver's own steps. *)

LEMMA BeginTickSole ==
  ASSUME FleetInv, SoleInv, BeginTick
  PROVE  SoleInv'
<1>1. ASSUME NEW snap \in Snaps, NEW x, x = [Down EXCEPT !.pc = "schedule", !.snap = snap]
      PROVE  x.pc = "schedule" /\ x.snap = snap
  BY <1>1, DownOK DEF DriverType
<1>2. drv'.pc = "schedule" /\ drv'.snap = View /\ drv.pc # "down"
  BY <1>1, ViewOK DEF BeginTick, At
<1>3. UNCHANGED <<task, disk, rec, stream, proc, faults>>
  BY DEF BeginTick, ledgerVars, recordVars, hostVars, bounds
<1> QED
  BY <1>2, <1>3, SoleLook

LEMMA DriveSole ==
  ASSUME FleetInv, SoleInv, Drive
  PROVE  SoleInv'
<1>1. drv'.pc = "reconcile" /\ drv'.snap = View /\ drv.pc # "down"
  BY GotoOK, DriverFacts, ViewOK DEF Drive, PCs, At
<1>2. UNCHANGED <<task, disk, rec, stream, proc, faults>>
  BY DEF Drive, ledgerVars, recordVars, hostVars, bounds
<1> QED
  BY <1>1, <1>2, SoleLook

LEMMA EndWorkSole ==
  ASSUME FleetInv, SoleInv, EndWork
  PROVE  SoleInv'
<1>1. drv'.pc = "settle" /\ drv'.snap = View /\ drv.pc # "down"
  BY GotoOK, DriverFacts, ViewOK DEF EndWork, PCs, At
<1>2. UNCHANGED <<task, disk, rec, stream, proc, faults>>
  BY DEF EndWork, ledgerVars, recordVars, hostVars, bounds
<1> QED
  BY <1>1, <1>2, SoleLook

\* Only the driver moves.
LEMMA SoleMove ==
  ASSUME SoleInv, UNCHANGED <<task, disk, rec, stream, proc>>, Nears, drv.pc # "down",
         drv'.pc \notin {"start", "launch", "artifact", "schedule", "reconcile", "settle"}
  PROVE  SoleInv'
<1>1. \A t \in Tasks : OutcomeStopped(t)'
  BY DEF SoleInv, Ordered, OutcomeStopped
<1> QED
  BY <1>1, CalmNow, SoleDrive DEF Alive

LEMMA LeaseFailsSole ==
  ASSUME FleetInv, SoleInv, LeaseFails
  PROVE  SoleInv'
<1>1. drv'.pc = "drive"
  <2>1. "drive" \in {"idle", "drive", "end"} /\ TRUE \in BOOLEAN
    OBVIOUS
  <2>2. drv' = [Down EXCEPT !.pc = "drive", !.err = TRUE]
    BY DEF LeaseFails
  <2> QED
    BY <2>1, <2>2, FromDown
<1>2. drv'.pc = "drive" /\ drv.pc # "down"
  BY <1>1 DEF LeaseFails, At
<1>3. UNCHANGED <<task, disk, rec, stream, proc>> /\ Nears
  BY DEF LeaseFails, ledgerVars, recordVars, hostVars, Fault, Nears
<1> QED
  BY <1>2, <1>3, SoleMove

LEMMA EndStartingSole ==
  ASSUME FleetInv, SoleInv, EndStarting
  PROVE  SoleInv'
<1>1. drv'.pc = "work" /\ drv.pc # "down"
  BY GotoOK, DriverFacts, NoSnapOK, TrackedTasks DEF EndStarting, PCs, At
<1>2. UNCHANGED <<task, disk, rec, stream, proc>> /\ Nears
  BY DEF EndStarting, ledgerVars, recordVars, hostVars, bounds, Nears
<1> QED
  BY <1>1, <1>2, SoleMove

LEMMA AttendSole ==
  ASSUME FleetInv, SoleInv, NEW t \in Tasks, Attend(t)
  PROVE  SoleInv'
<1>1. ASSUME NEW d \in DriverType, NEW pc, NEW x, x = [d EXCEPT !.pc = pc, !.cur = t]
      PROVE  x.pc = pc
  BY <1>1 DEF DriverType
<1>2. drv'.pc \in {"poll", "publish"} /\ drv.pc # "down"
  <2>1. drv' = [drv EXCEPT !.pc = "poll", !.cur = t] \/ drv' = [drv EXCEPT !.pc = "publish", !.cur = t]
    BY DEF Attend
  <2> QED
    BY <1>1, <2>1, DriverFacts DEF Attend, At
<1>3. UNCHANGED <<task, disk, rec, stream, proc>> /\ Nears
  BY DEF Attend, ledgerVars, recordVars, hostVars, bounds, Nears
<1> QED
  BY <1>2, <1>3, SoleMove

LEMMA AppendFailsSole ==
  ASSUME FleetInv, SoleInv, AppendFails
  PROVE  SoleInv'
<1>1. drv'.pc = "end" /\ drv.pc # "down"
  <2>1. "end" \in {"idle", "drive", "end"} /\ TRUE \in BOOLEAN
    OBVIOUS
  <2>2. drv' = [Down EXCEPT !.pc = "end", !.err = TRUE]
    BY DEF AppendFails
  <2> QED
    BY <2>1, <2>2, FromDown DEF AppendFails, At
<1>2. UNCHANGED <<task, disk, rec, stream, proc>> /\ Nears
  BY DEF AppendFails, ledgerVars, recordVars, hostVars, Fault, Nears
<1> QED
  BY <1>1, <1>2, SoleMove

LEMMA GiveUpSole ==
  ASSUME FleetInv, SoleInv, GiveUp
  PROVE  SoleInv'
<1>1. drv'.pc = "down" /\ drv.pc # "down"
  BY DownOK DEF GiveUp, At
<1>2. UNCHANGED <<task, disk, rec, stream, proc>> /\ Nears
  BY DEF GiveUp, ledgerVars, recordVars, hostVars, bounds, Nears
<1> QED
  BY <1>1, <1>2, SoleMove

LEMMA CheckSole ==
  ASSUME FleetInv, SoleInv, Check
  PROVE  SoleInv'
<1>1. /\ UNCHANGED <<task, disk, rec, stream, proc, faults>> /\ drv.pc # "down"
      /\ Nears /\ Calm
  BY CalmNow DEF Check, ledgerVars, recordVars, hostVars, bounds, Nears, At
<1>2. CASE Abort
  BY <1>1, <1>2, AbortOK, SoleMove
<1>3. CASE Goto("start", {t \in Tasks \ Tracked : Leased(task[t])}, View)
  <2>1. /\ drv'.pc = "start" /\ drv'.snap = View
        /\ drv'.todo = {t \in Tasks \ Tracked : Leased(task[t])}
    BY <1>3, GotoOK, DriverFacts, ViewOK DEF PCs
  <2>2. ASSUME NEW t \in drv'.todo
        PROVE  task'[t].receipt # drv'.snap[t].attempts /\ t \notin Tracked'
    <3>1. t \in Tasks /\ t \notin Tracked /\ Leased(task[t])
      BY <2>1
    <3>2. task[t].receipt < task[t].attempts
      BY <3>1 DEF SoleInv, Ordered, ReceiptOrder
    <3>3. task[t].receipt \in Nat /\ task[t].attempts \in Nat
      BY <3>1, Numbers, TaskFields, FleetAssumption
    <3>4. task[t].receipt # task[t].attempts
      BY <3>2, <3>3
    <3>5. Tracked' = Tracked
      BY <1>1 DEF Tracked
    <3> QED
      BY <1>1, <2>1, <3>1, <3>4, <3>5, ViewOK
  <2>3. Ordered'
    BY <1>1, <2>2, CalmOrder DEF SoleInv, Ordered, OutcomeStopped, StartsFresh
  <2>4. \A t \in Tasks, n \in Attempts : Alive(t, n)' => Lasting(t, n)
    BY <1>1, <2>1 DEF Lasting, Sole, Alive
  <2> QED
    BY <1>1, <2>1, <2>3, <2>4, SoleFrame
<1>4. CASE Goto("work", Tracked, NoSnap)
  <2>1. drv'.pc = "work"
    BY <1>4, GotoOK, DriverFacts, NoSnapOK, TrackedTasks DEF PCs
  <2> QED
    BY <1>1, <2>1, SoleMove
<1> QED
  BY <1>2, <1>3, <1>4 DEF Check

\* Events and heartbeats.
LEMMA BeatCalm ==
  ASSUME FleetInv, NEW t \in Tasks, NEW h \in 0..MaxTime,
         \/ task' = [task EXCEPT ![t].hb = h]
         \/ task' = [task EXCEPT ![t].seq = @ + 1]
  PROVE  Calm
<1>1. PICK e : Keeps(task[t], e) /\ task' = [task EXCEPT ![t] = e]
  <2>1. \/ task' = [task EXCEPT ![t] = [task[t] EXCEPT !.hb = h]]
        \/ task' = [task EXCEPT ![t] = [task[t] EXCEPT !.seq = task[t].seq + 1]]
    BY TypeFacts DEF LedgerOK
  <2> QED
    BY <2>1, KeptFields, Numbers
<1> QED
  BY <1>1, KeepsOne

\* The driver writes an event or a heartbeat and moves to another place.
LEMMA SoleBeat ==
  ASSUME SoleInv, UNCHANGED <<disk, rec, stream, proc>>, Nears, Calm, drv.pc # "down",
         drv'.pc \notin {"start", "launch", "artifact", "schedule", "reconcile", "settle"}
  PROVE  SoleInv'
<1>1. \A t \in Tasks : OutcomeStopped(t)'
  BY DEF SoleInv, Ordered, OutcomeStopped
<1> QED
  BY <1>1, SoleDrive DEF Alive

LEMMA ReadLeasesSole ==
  ASSUME FleetInv, SoleInv, ReadLeases
  PROVE  SoleInv'
<1>1. drv'.pc = "beating" /\ drv.pc # "down"
  <2>1. ASSUME NEW d \in DriverType, NEW todo, NEW snap
        PROVE  [d EXCEPT !.pc = "beating", !.todo = todo, !.snap = snap].pc = "beating"
    BY DEF DriverType
  <2> QED
    BY <2>1, DriverFacts DEF ReadLeases, Goto, At
<1>2. UNCHANGED <<task, disk, rec, stream, proc>> /\ Nears
  BY DEF ReadLeases, ledgerVars, recordVars, hostVars, bounds, Nears
<1> QED
  BY <1>1, <1>2, SoleMove

LEMMA BeatSole ==
  ASSUME FleetInv, SoleInv, NEW t \in Tasks, Beat(t)
  PROVE  SoleInv'
<1>1. drv.snap[t].hb \in 0..MaxTime
  BY DriverFacts, TaskFields DEF Snaps
<1>2. Calm
  BY <1>1, BeatCalm DEF Beat
<1>3. drv'.pc = "beating" /\ drv.pc # "down"
  BY GotoOK, DriverFacts DEF Beat, PCs, At
<1>4. UNCHANGED <<disk, rec, stream, proc>> /\ Nears
  BY DEF Beat, recordVars, hostVars, bounds, Nears
<1> QED
  BY <1>2, <1>3, <1>4, SoleBeat

LEMMA EndBeatSole ==
  ASSUME FleetInv, SoleInv, EndBeat
  PROVE  SoleInv'
<1>1. drv'.pc = "lease" /\ drv.pc # "down"
  BY GotoOK, NoSnapOK DEF EndBeat, PCs, At
<1>2. UNCHANGED <<task, disk, rec, stream, proc>> /\ Nears
  BY DEF EndBeat, ledgerVars, recordVars, hostVars, bounds, Nears
<1> QED
  BY <1>1, <1>2, SoleMove

LEMMA ReportSole ==
  ASSUME FleetInv, SoleInv, Report
  PROVE  SoleInv'
<1>1. drv.pc = "poll" /\ drv.cur \in Tasks
  BY InHand DEF Report, At
<1>2. Calm
  BY <1>1, BeatCalm, TypeFacts DEF Report
<1>3. drv'.pc = "stamp"
  BY <1>1, StaysWith DEF Report, hostVars
<1>4. UNCHANGED <<disk, rec, stream, proc>> /\ Nears
  BY DEF Report, recordVars, hostVars, bounds, Nears
<1> QED
  BY <1>1, <1>2, <1>3, <1>4, SoleBeat

LEMMA StampSole ==
  ASSUME FleetInv, SoleInv, Stamp
  PROVE  SoleInv'
<1>1. drv.pc = "stamp" /\ drv.cur \in Tasks
  BY InHand DEF Stamp, At
<1>2. Calm
  BY <1>1, BeatCalm, TypeFacts DEF Stamp
<1>3. drv'.pc = "poll"
  BY <1>1, StaysWith DEF Stamp, hostVars
<1>4. UNCHANGED <<disk, rec, stream, proc>> /\ Nears
  BY DEF Stamp, recordVars, hostVars, bounds, Nears
<1> QED
  BY <1>1, <1>2, <1>3, <1>4, SoleBeat

LEMMA RunningSole ==
  ASSUME FleetInv, SoleInv, Running
  PROVE  SoleInv'
<1>1. UNCHANGED <<task, disk, rec, stream, proc>> /\ Nears /\ drv.pc = "poll"
  BY DEF Running, At, ledgerVars, recordVars, hostVars, bounds, Nears
<1>2. drv'.pc = "limit"
  BY <1>1, StaysWith DEF Running
<1> QED
  BY <1>1, <1>2, SoleMove

LEMMA WithinLimitSole ==
  ASSUME FleetInv, SoleInv, WithinLimit
  PROVE  SoleInv'
<1>1. UNCHANGED <<task, disk, rec, stream, proc>> /\ Nears /\ drv.pc = "limit"
  BY DEF WithinLimit, At, ledgerVars, recordVars, hostVars, bounds, Nears
<1>2. drv'.pc = "work"
  BY AttendedOK DEF WithinLimit
<1> QED
  BY <1>1, <1>2, SoleMove

\* What is left to be started is as fresh as it was.
LEMMA StartsOn ==
  ASSUME FleetInv, SoleInv, drv.pc \in {"start", "launch", "artifact"},
         drv'.pc = "start", drv'.snap = drv.snap,
         NEW gone, drv'.todo \subseteq drv.todo \ {gone}, drv.pc = "artifact" => gone = drv.cur,
         \A u \in Tasks : u # gone =>
             task'[u].receipt = task[u].receipt /\ stream'[u].attempt = stream[u].attempt
  PROVE  StartsFresh'
<1> SUFFICES ASSUME NEW u \in drv'.todo
             PROVE  task'[u].receipt # drv.snap[u].attempts /\ u \notin Tracked'
  BY DEF StartsFresh
<1>1. u \in drv.todo /\ u # gone /\ u \in Tasks
  BY DriverFacts
<1>2. task[u].receipt # drv.snap[u].attempts /\ u \notin Tracked
  BY <1>1 DEF SoleInv, Ordered, StartsFresh
<1> QED
  BY <1>1, <1>2 DEF Tracked

\* The receipt of an attempt that is over.
LEMMA FinalReceipt ==
  ASSUME FleetInv, NEW t \in Tasks, NEW n, NEW status \in {"completed", "failed"},
         task' = Finalized(t, n, status)
  PROVE  /\ \A u \in Tasks : task'[u].attempts = task[u].attempts
         /\ \A u \in Tasks : Leased(task'[u]) => Leased(task[u])
         /\ \A u \in Tasks :
               \/ task'[u].receipt = task[u].receipt
               \/ /\ u = t /\ task'[u].receipt = n /\ n = task[u].attempts
                  /\ ~Leased(task'[u])
<1>1. task \in [Tasks -> TaskType] /\ task[t] \in TaskType
  BY TypeFacts DEF LedgerOK
<1>2. CASE LeasedFor(t, n)
  <2> DEFINE e == [task[t] EXCEPT !.status = status, !.seq = task[t].seq + 1, !.receipt = n]
  <2>1. ASSUME NEW s \in TaskType, NEW x,
               x = [s EXCEPT !.status = status, !.seq = s.seq + 1, !.receipt = n]
        PROVE  x.attempts = s.attempts /\ x.status = status /\ x.receipt = n
    BY <2>1 DEF TaskType
  <2>2. e.attempts = task[t].attempts /\ e.status = status /\ e.receipt = n
    BY <1>1, <2>1
  <2>3. task' = [task EXCEPT ![t] = e]
    BY <1>1, <1>2 DEF Finalized
  <2>4. task[t].attempts = n
    BY <1>2 DEF LeasedFor
  <2> HIDE DEF e
  <2> QED
    BY <1>1, <2>2, <2>3, <2>4 DEF Leased
<1>3. CASE ~LeasedFor(t, n)
  BY <1>3 DEF Finalized
<1> QED
  BY <1>2, <1>3

LEMMA SoleFinal ==
  ASSUME FleetInv, SoleInv, NEW t \in Tasks, NEW n, NEW status \in {"completed", "failed"},
         task' = Finalized(t, n, status), UNCHANGED <<disk, rec, stream, proc>>, Nears,
         drv.pc # "down", drv'.pc \in {"start", "work"}, StartsFresh',
         \A m \in Attempts : Alive(t, m) /\ Sole(t, m) => m # n
  PROVE  SoleInv'
<1>1. ASSUME NEW u \in Tasks
      PROVE  ReceiptOrder(u)'
  <2>1. ReceiptOrder(u) /\ task[u].attempts \in Nat
    BY Numbers DEF SoleInv, Ordered
  <2>2. CASE task'[u].receipt = task[u].receipt
    BY <2>1, <2>2, FinalReceipt DEF ReceiptOrder
  <2>3. CASE /\ task'[u].receipt = n /\ n = task[u].attempts
             /\ ~Leased(task'[u])
    BY <2>1, <2>3, FinalReceipt DEF ReceiptOrder
  <2> QED
    BY <2>2, <2>3, FinalReceipt
<1>2. Ordered'
  BY <1>1 DEF SoleInv, Ordered, OutcomeStopped
<1>3. \A u \in Tasks, m \in Attempts : Alive(u, m)' => Lasting(u, m)
  <2> SUFFICES ASSUME NEW u \in Tasks, NEW m \in Attempts, Alive(u, m)
               PROVE  Lasting(u, m)
    BY DEF Alive
  <2>1. Sole(u, m) => task'[u].receipt # m
    BY FinalReceipt DEF Sole
  <2> QED
    BY <2>1 DEF Lasting
<1>4. \A u \in Tasks : task'[u].attempts = 0 => task[u].attempts = 0
  BY FinalReceipt
<1> QED
  BY <1>2, <1>3, <1>4, SoleFrame

\* An attempt is rejected when the record is of another one; the process of
\* the attempt would have a record.
LEMMA RejectLaunchSole ==
  ASSUME FleetInv, SoleInv, NEW t \in Tasks, RejectLaunch(t)
  PROVE  SoleInv'
<1>1. PICK n : n = drv.snap[t].attempts
  OBVIOUS
<1>2. /\ drv.pc = "start" /\ t \in drv.todo
      /\ ~rec[t].unsettled /\ rec[t].gen # n
      /\ task' = Finalized(t, n, "failed")
      /\ Goto("start", drv.todo \ {t}, drv.snap)
      /\ UNCHANGED <<disk, rec, stream, proc>> /\ Nears
  BY <1>1 DEF RejectLaunch, At, recordVars, hostVars, bounds, Nears
<1>3. drv'.pc = "start" /\ drv'.snap = drv.snap /\ drv'.todo = drv.todo \ {t}
  <2>1. drv.todo \ {t} \subseteq Tasks /\ drv.snap \in Snaps
    BY DriverFacts
  <2> QED
    BY <1>2, <2>1, GotoOK DEF PCs
<1>4. StartsFresh'
  <2>1. \A u \in Tasks : u # t => task'[u].receipt = task[u].receipt
    BY <1>2, FinalReceipt
  <2> QED
    BY <1>2, <1>3, <2>1, StartsOn
<1>5. ASSUME NEW m \in Attempts, Alive(t, m), Sole(t, m), m = n
      PROVE  FALSE
  <2>1. t \notin Tracked /\ m \in Nat /\ m > 0
    BY <1>2, AttemptNumbers DEF SoleInv, Ordered, StartsFresh
  <2>2. stream[t].attempt # m
    BY <2>1 DEF Tracked
  <2>3. Guards(disk[t], m) /\ Guards(Refreshed(t), m) /\ m <= rec[t].gen
    <3>1. drv.pc # "down"
      BY <1>2
    <3>2. stream[t].attempt = m
          \/ (Guarded(t, m) /\ (drv.pc # "down" => m <= rec[t].gen))
      BY <1>5, Zenon DEF Sole
    <3>3. Guarded(t, m) /\ m <= rec[t].gen
      BY <2>2, <3>1, <3>2
    <3> QED
      BY <3>3 DEF Guarded
  <2>4. /\ rec[t].gen \in Nat /\ disk[t].gen \in Nat /\ rec[t].gen <= disk[t].gen
        /\ disk[t].gen = m \/ disk[t].gen = m + 1
    BY <2>3, Numbers DEF Guards
  <2>5. rec[t].gen = m + 1 /\ disk[t].gen = m + 1
    BY <1>2, <1>5, <2>1, <2>3, <2>4
  <2>6. Refreshed(t) = rec[t]
    BY <2>4, <2>5 DEF Refreshed
  <2>7. m # m + 1
    BY <2>1
  <2> QED
    BY <1>2, <2>3, <2>5, <2>6, <2>7 DEF Guards
<1> QED
  BY <1>2, <1>3, <1>4, <1>5, SoleFinal

LEMMA LaunchFailsSole ==
  ASSUME FleetInv, SoleInv, LaunchFails
  PROVE  SoleInv'
<1>1. PICK t : t = drv.cur
  OBVIOUS
<1>2. PICK n : n = drv.snap[t].attempts
  OBVIOUS
<1>3. /\ drv.pc = "launch" /\ t \in Tasks
      /\ task' = Finalized(t, n, "failed")
      /\ drv' = [drv EXCEPT !.pc = "start", !.todo = drv.todo \ {t}, !.cur = NoTask]
      /\ UNCHANGED <<disk, rec, stream, proc>> /\ Nears
  BY <1>1, <1>2, InHand DEF LaunchFails, At, recordVars, hostVars, Nears, Fault
<1>4. drv'.pc = "start" /\ drv'.snap = drv.snap /\ drv'.todo = drv.todo \ {t}
  BY <1>3, DriverFacts DEF DriverType
<1>5. StartsFresh'
  <2>1. \A u \in Tasks : u # t => task'[u].receipt = task[u].receipt
    BY <1>3, FinalReceipt
  <2> QED
    BY <1>3, <1>4, <2>1, StartsOn
<1>6. \A m \in Attempts : ~Sole(t, m)
  BY <1>1, <1>3 DEF Sole
<1> QED
  BY <1>3, <1>4, <1>5, <1>6, SoleFinal

LEMMA PublishSole ==
  ASSUME FleetInv, SoleInv, Publish
  PROVE  SoleInv'
<1>1. PICK t : t = drv.cur
  OBVIOUS
<1>2. PICK n : n = stream[t].attempt
  OBVIOUS
<1>3. /\ drv.pc = "publish" /\ t \in Tasks /\ n > 0 /\ n \in Attempts
      /\ stream[t].pending \in {"completed", "failed"}
      /\ task' = Finalized(t, n, stream[t].pending)
      /\ UNCHANGED <<disk, rec, stream, proc>> /\ Nears
  BY <1>1, <1>2, InHand, TypeFacts
     DEF Publish, At, recordVars, hostVars, bounds, Nears, DriverOK
<1>4. drv'.pc = "work"
  BY AttendedOK DEF Publish
<1>5. stream[t].stopped
  BY <1>3 DEF SoleInv, Ordered, OutcomeStopped
<1>6. ~Alive(t, n)
  BY <1>2, <1>3, <1>5, TypeFacts DEF StreamTrue, ExitOf, Alive
<1>7. StartsFresh'
  BY <1>4, NotStarting
<1> QED
  BY <1>3, <1>4, <1>6, <1>7, SoleFinal

-----------------------------------------------------------------------------
(* Processes that end. *)

LEMMA AliveOnly ==
  ASSUME ProcEnds
  PROVE  \A t \in Tasks, n \in Attempts : Alive(t, n)' => Alive(t, n)
BY DEF ProcEnds, Ends, Alive

\* The tracked process of one task, and what is tracked of it.
LEMMA TrackedChange ==
  ASSUME FleetInv, SoleInv, NEW t \in Tasks, NEW e \in StreamType,
         stream' = [stream EXCEPT ![t] = e], e.attempt = stream[t].attempt,
         e.pending # "none" => e.stopped
  PROVE  /\ \A u \in Tasks : stream'[u].attempt = stream[u].attempt
         /\ \A u \in Tasks : OutcomeStopped(u)'
<1>1. stream \in [Tasks -> StreamType]
  BY TypeFacts DEF HostOK
<1> QED
  BY <1>1 DEF SoleInv, Ordered, OutcomeStopped

LEMMA FenceSole ==
  ASSUME FleetInv, SoleInv, NEW t \in Tasks, Fence(t)
  PROVE  SoleInv'
<1>1. /\ UNCHANGED <<task, disk, rec, faults>> /\ Nears /\ Calm
      /\ drv.pc # "down" /\ t \in drv.todo
      /\ proc' = Killed(t) /\ stream' = [stream EXCEPT ![t].stopped = TRUE]
  BY CalmNow DEF Fence, ledgerVars, recordVars, bounds, Nears, At
<1>2. drv'.pc = "work"
  <2>1. drv.todo \ {t} \subseteq Tasks
    BY DriverFacts
  <2> QED
    BY <2>1, GotoOK, NoSnapOK DEF Fence, PCs
<1>3. stream[t].attempt > 0
  BY <1>1, TypeFacts DEF Fence, At, DriverOK, Tracked
<1>4. ProcEnds
  BY <1>1, <1>3, KilledOK
<1> DEFINE e == [stream[t] EXCEPT !.stopped = TRUE]
<1>5. stream \in [Tasks -> StreamType]
  BY TypeFacts DEF HostOK
<1>6. ASSUME NEW s \in StreamType, NEW x, x = [s EXCEPT !.stopped = TRUE]
      PROVE  x \in StreamType /\ x.attempt = s.attempt /\ x.stopped
  BY <1>6 DEF StreamType
<1>7. e \in StreamType /\ e.attempt = stream[t].attempt /\ e.stopped
      /\ stream' = [stream EXCEPT ![t] = e]
  BY <1>1, <1>5, <1>6
<1> HIDE DEF e
<1>8. /\ \A u \in Tasks : stream'[u].attempt = stream[u].attempt
      /\ \A u \in Tasks : OutcomeStopped(u)'
  BY <1>7, TrackedChange
<1> QED
  BY <1>1, <1>2, <1>4, <1>8, AliveOnly, SoleDrive

LEMMA ObserveSole ==
  ASSUME FleetInv, SoleInv, Observe
  PROVE  SoleInv'
<1>1. PICK t : t = drv.cur
  OBVIOUS
<1>2. /\ UNCHANGED <<task, disk, rec, proc, faults>> /\ Nears /\ Calm
      /\ drv.pc = "poll" /\ t \in Tasks
  BY <1>1, CalmNow, InHand DEF Observe, ledgerVars, recordVars, bounds, Nears, At
<1>3. drv'.pc \in {"publish", "work"}
  <2>1. ASSUME NEW d \in DriverType, NEW x, x = [d EXCEPT !.pc = "publish"]
        PROVE  x.pc = "publish"
    BY <2>1 DEF DriverType
  <2>2. drv' = [drv EXCEPT !.pc = "publish"] \/ Attended
    BY DEF Observe
  <2> QED
    BY <2>1, <2>2, AttendedOK, DriverFacts
<1>4. PICK p \in {"observed", "completed", "failed"} :
          stream' = [stream EXCEPT ![t].stopped = TRUE, ![t].pending = p]
  BY <1>1 DEF Observe
<1> DEFINE e == [stream[t] EXCEPT !.stopped = TRUE, !.pending = p]
<1>5. stream \in [Tasks -> StreamType]
  BY TypeFacts DEF HostOK
<1>6. ASSUME NEW s \in StreamType, NEW x, x = [s EXCEPT !.stopped = TRUE, !.pending = p]
      PROVE  x \in StreamType /\ x.attempt = s.attempt /\ x.stopped
  BY <1>6 DEF StreamType
<1>7. e \in StreamType /\ e.attempt = stream[t].attempt /\ e.stopped
      /\ stream' = [stream EXCEPT ![t] = e]
  BY <1>2, <1>4, <1>5, <1>6
<1> HIDE DEF e
<1>8. /\ \A u \in Tasks : stream'[u].attempt = stream[u].attempt
      /\ \A u \in Tasks : OutcomeStopped(u)'
  BY <1>2, <1>7, TrackedChange
<1> QED
  BY <1>2, <1>3, <1>8, SoleDrive DEF Alive

LEMMA TimeoutSole ==
  ASSUME FleetInv, SoleInv, Timeout
  PROVE  SoleInv'
<1>1. PICK t : t = drv.cur
  OBVIOUS
<1>2. /\ UNCHANGED <<task, disk, rec, faults>> /\ Nears /\ Calm
      /\ drv.pc = "limit" /\ t \in Tasks /\ stream[t].attempt > 0
      /\ proc' = Killed(t)
  BY <1>1, CalmNow, InHand DEF Timeout, ledgerVars, recordVars, bounds, Nears, At
<1>3. drv'.pc \in {"publish", "work"}
  <2>1. ASSUME NEW d \in DriverType, NEW x, x = [d EXCEPT !.pc = "publish"]
        PROVE  x.pc = "publish"
    BY <2>1 DEF DriverType
  <2>2. drv' = [drv EXCEPT !.pc = "publish"] \/ Attended
    BY DEF Timeout
  <2> QED
    BY <2>1, <2>2, AttendedOK, DriverFacts
<1>4. ProcEnds
  BY <1>2, KilledOK
<1>5. stream \in [Tasks -> StreamType]
  BY TypeFacts DEF HostOK
<1>6. PICK p \in {"none", "observed", "completed", "failed"} :
          stream' = [stream EXCEPT ![t].stopped = TRUE, ![t].pending = p]
  <2>1. stream[t].pending \in {"none", "observed", "completed", "failed"}
    BY <1>2, <1>5 DEF StreamType
  <2> DEFINE p == IF LeasedFor(t, stream[t].attempt) THEN "failed" ELSE stream[t].pending
  <2>2. p \in {"none", "observed", "completed", "failed"}
    BY <2>1
  <2>3. stream' = [stream EXCEPT ![t].stopped = TRUE, ![t].pending = p]
    BY <1>1, <1>2, <1>5 DEF Timeout
  <2> QED
    BY <2>2, <2>3
<1> DEFINE e == [stream[t] EXCEPT !.stopped = TRUE, !.pending = p]
<1>7. ASSUME NEW s \in StreamType, NEW x, x = [s EXCEPT !.stopped = TRUE, !.pending = p]
      PROVE  x \in StreamType /\ x.attempt = s.attempt /\ x.stopped
  BY <1>7 DEF StreamType
<1>8. e \in StreamType /\ e.attempt = stream[t].attempt /\ e.stopped
      /\ stream' = [stream EXCEPT ![t] = e]
  BY <1>2, <1>5, <1>6, <1>7
<1> HIDE DEF e
<1>9. /\ \A u \in Tasks : stream'[u].attempt = stream[u].attempt
      /\ \A u \in Tasks : OutcomeStopped(u)'
  BY <1>2, <1>8, TrackedChange
<1> QED
  BY <1>2, <1>3, <1>4, <1>9, AliveOnly, SoleDrive

LEMMA ExitSole ==
  ASSUME FleetInv, SoleInv, NEW t \in Tasks, Exit(t) \/ OrphanDies(t)
  PROVE  SoleInv'
<1>1. UNCHANGED <<task, disk, rec, drv, stream, faults>> /\ Nears /\ Calm
  BY CalmNow DEF Exit, OrphanDies, ledgerVars, recordVars, bounds, Nears
<1>2. PICK n \in Attempts, how \in {"ok", "bad"} :
          proc[t][n] = "alive" /\ proc' = [proc EXCEPT ![t][n] = how]
  BY DEF Exit, OrphanDies
<1>3. Ends(proc[t][n], how)
  BY <1>2 DEF Ends
<1>4. ProcEnds
  BY <1>2, <1>3, ProcSet
<1>5. \A u \in Tasks : OutcomeStopped(u)'
  BY <1>1 DEF SoleInv, Ordered, OutcomeStopped
<1> QED
  BY <1>1, <1>4, <1>5, AliveOnly, SoleAside

-----------------------------------------------------------------------------
(* Starting a worker. *)

LEMMA ArtifactSole ==
  ASSUME FleetInv, SoleInv, Artifact
  PROVE  SoleInv'
<1>1. PICK t : t = drv.cur
  OBVIOUS
<1>2. /\ UNCHANGED <<disk, rec>> /\ Nears /\ drv.pc = "artifact"
      /\ drv' = [drv EXCEPT !.pc = "start", !.todo = drv.todo \ {t}, !.cur = NoTask]
      /\ t \in Tasks /\ stream[t].attempt > 0 /\ stream[t].attempt \in Attempts
  BY <1>1, InHand DEF Artifact, At, recordVars, bounds, Nears
<1>3. drv'.pc = "start" /\ drv'.snap = drv.snap /\ drv'.todo = drv.todo \ {t}
  BY <1>2, DriverFacts DEF DriverType
<1>4. task \in [Tasks -> TaskType] /\ stream \in [Tasks -> StreamType]
  BY TypeFacts DEF LedgerOK, HostOK
<1>5. CASE LeasedFor(t, stream[t].attempt)
  <2>1. task' = [task EXCEPT ![t].seq = @ + 1] /\ UNCHANGED <<stream, proc>>
    BY <1>1, <1>5 DEF Artifact, hostVars
  <2> DEFINE e == [task[t] EXCEPT !.seq = task[t].seq + 1]
  <2>2. Keeps(task[t], e) /\ task' = [task EXCEPT ![t] = e]
    BY <1>2, <1>4, <2>1, KeptFields
  <2> HIDE DEF e
  <2>3. Calm
    BY <1>2, <2>2, KeepsOne
  <2>4. StartsFresh'
    BY <1>1, <1>2, <1>3, <2>1, <2>3, StartsOn DEF Calm, Keeps
  <2>5. Ordered'
    BY <2>1, <2>3, <2>4, CalmOrder DEF SoleInv, Ordered, OutcomeStopped
  <2>6. \A u \in Tasks, n \in Attempts : Alive(u, n)' => Lasting(u, n)
    BY <1>3, <2>1, <2>3 DEF Lasting, Sole, Calm, Keeps, Alive
  <2>7. \A u \in Tasks : task'[u].attempts = 0 => task[u].attempts = 0
    BY <2>3 DEF Calm, Keeps
  <2> QED
    BY <1>2, <1>3, <2>5, <2>6, <2>7, SoleFrame
<1>6. CASE ~LeasedFor(t, stream[t].attempt)
  <2>1. proc' = Killed(t) /\ stream' = [stream EXCEPT ![t] = NoStream] /\ UNCHANGED task
    BY <1>1, <1>6 DEF Artifact
  <2>2. /\ stream'[t] = NoStream /\ \A u \in Tasks : u # t => stream'[u] = stream[u]
    BY <1>2, <1>4, <2>1
  <2>3. ProcEnds /\ proc'[t][stream[t].attempt] # "alive"
    BY <1>2, <2>1, KilledOK
  <2>4. StartsFresh'
    BY <1>1, <1>2, <1>3, <2>1, <2>2, StartsOn
  <2>5. \A u \in Tasks : OutcomeStopped(u)'
    BY <2>2 DEF SoleInv, Ordered, OutcomeStopped, NoStream
  <2>6. Ordered'
    BY <2>1, <2>4, <2>5, CalmNow, CalmOrder DEF SoleInv, Ordered
  <2>7. ASSUME NEW u \in Tasks, NEW n \in Attempts, Alive(u, n)'
        PROVE  Lasting(u, n)
    <3>1. Alive(u, n)
      BY <2>3, <2>7, AliveOnly
    <3>2. stream[u].attempt = n => stream'[u].attempt = n
      <4>1. CASE u = t
        <5>1. n # stream[t].attempt
          BY <2>3, <2>7, <4>1 DEF Alive
        <5> QED
          BY <4>1, <5>1
      <4>2. CASE u # t
        BY <2>2, <4>2
      <4> QED
        BY <4>1, <4>2
    <3> QED
      BY <1>3, <2>1, <3>1, <3>2 DEF Lasting, Sole
  <2> QED
    BY <1>2, <1>3, <2>1, <2>6, <2>7, SoleFrame
<1> QED
  BY <1>5, <1>6

LEMMA LaunchSole ==
  ASSUME FleetInv, SoleInv, Launch
  PROVE  SoleInv'
<1>1. PICK t : t = drv.cur
  OBVIOUS
<1>2. PICK n : n = drv.snap[t].attempts
  OBVIOUS
<1>3. /\ UNCHANGED <<task, disk, rec, faults>> /\ drv.pc = "launch"
      /\ proc' = [proc EXCEPT ![t][n] = "alive"]
      /\ stream' = [stream EXCEPT ![t] = [NoStream EXCEPT !.attempt = n]]
      /\ drv' = [drv EXCEPT !.pc = "artifact"]
  BY <1>1, <1>2 DEF Launch, At, ledgerVars, recordVars, bounds
<1>4. t \in Tasks /\ t \in drv.todo /\ n \in Attempts /\ n > 0 /\ n \in 0..(MaxCalls + 1)
  BY <1>1, <1>2, <1>3, InHand, LaunchFacts
<1>5. proc \in [Tasks -> [Attempts -> {"none", "alive", "ok", "bad"}]]
      /\ stream \in [Tasks -> StreamType]
  BY TypeFacts DEF HostOK
<1>6. \A u \in Tasks, m \in Attempts : u # t \/ m # n => (Alive(u, m)' <=> Alive(u, m))
  BY <1>3, <1>4, <1>5 DEF Alive
<1>7. /\ \A u \in Tasks : u # t => stream'[u] = stream[u]
      /\ stream'[t].attempt = n /\ stream'[t].pending = "none"
  <2>1. ASSUME NEW x, x = [NoStream EXCEPT !.attempt = n]
        PROVE  x.attempt = n /\ x.pending = "none"
    BY <1>4, <2>1 DEF NoStream
  <2> QED
    BY <1>3, <1>4, <1>5, <2>1
<1>8. drv'.pc = "artifact" /\ drv'.snap = drv.snap /\ drv'.todo = drv.todo /\ drv'.cur = t
  BY <1>1, <1>3, DriverFacts DEF DriverType
<1>9. ASSUME NEW u \in drv.todo
      PROVE  task[u].receipt # drv.snap[u].attempts /\ u \notin Tracked /\ u \in Tasks
  <2>1. u \in Tasks
    BY DriverFacts
  <2> QED
    BY <1>3, <2>1 DEF SoleInv, Ordered, StartsFresh
<1>10. StartsFresh'
  <2>1. \A u \in drv.todo : u \in Tracked' => u = t
    BY <1>7, <1>9 DEF Tracked
  <2> QED
    BY <1>3, <1>8, <1>9, <2>1 DEF StartsFresh
<1>11. \A u \in Tasks : OutcomeStopped(u)'
  BY <1>7 DEF SoleInv, Ordered, OutcomeStopped
<1>12. Ordered'
  BY <1>3, <1>10, <1>11, CalmNow, CalmOrder DEF SoleInv, Ordered
<1>13. \A u \in Tasks, m \in Nat : Guarded(u, m)' <=> Guarded(u, m)
  BY <1>3 DEF Guarded, Refreshed
<1>14. \A m \in Attempts : m \in Nat
  BY AttemptNumbers
<1>15. ASSUME faults <= 1, NEW u \in Tasks, NEW m \in Attempts, Alive(u, m)'
       PROVE  Sole(u, m)'
  <2>1. CASE u = t
    <3>1. ASSUME NEW k \in Attempts, Alive(t, k)'
          PROVE  k = n
      <4>1. ASSUME k # n
            PROVE  FALSE
        <5>1. Alive(t, k)
          BY <1>4, <1>6, <3>1, <4>1
        <5>2. Sole(t, k)
          BY <1>4, <1>15, <5>1 DEF SoleInv
        <5> QED
          BY <1>1, <1>3, <5>2 DEF Sole
      <4> QED
        BY <4>1
    <3>2. m = n
      BY <1>15, <2>1, <3>1
    <3>3. task'[t].receipt # n
      BY <1>2, <1>3, <1>4, <1>9
    <3> QED
      BY <1>7, <1>8, <2>1, <3>1, <3>2, <3>3 DEF Sole
  <2>2. CASE u # t
    <3>1. Alive(u, m)
      BY <1>6, <1>15, <2>2
    <3>2. Sole(u, m)
      BY <1>15, <3>1 DEF SoleInv
    <3>3. \A k \in Attempts : Alive(u, k)' => k = m
      BY <1>6, <2>2, <3>2 DEF Sole
    <3>4. \/ stream'[u].attempt = m
          \/ (Guarded(u, m)' /\ (drv'.pc # "down" => m <= rec'[u].gen))
      <4>1. CASE stream[u].attempt = m
        BY <1>7, <2>2, <4>1
      <4>2. CASE stream[u].attempt # m
        <5>1. Guarded(u, m) /\ (drv.pc # "down" => m <= rec[u].gen)
          BY <3>2, <4>2, Zenon DEF Sole
        <5>2. Guarded(u, m)'
          BY <1>13, <1>14, <5>1
        <5> QED
          BY <1>3, <5>1, <5>2
      <4> QED
        BY <4>1, <4>2
    <3>5. task'[u].receipt # m
      BY <1>3, <3>2 DEF Sole
    <3> QED
      BY <1>8, <3>3, <3>4, <3>5 DEF Sole
  <2> QED
    BY <2>1, <2>2
<1>16. ASSUME faults = 0
       PROVE  Faultless'
  <2>1. Faultless
    BY <1>16 DEF SoleInv
  <2>2. ASSUME NEW u \in Tasks, NEW m \in Attempts, Alive(u, m)'
        PROVE  stream'[u].attempt = m /\ Guarded(u, m)'
    <3>1. CASE u = t /\ m = n
      <4>1. Guarded(u, m)
        BY <1>1, <1>2, <1>3, <2>1, <3>1 DEF Faultless, LaunchGuarded
      <4> QED
        BY <1>7, <1>13, <1>14, <3>1, <4>1
    <3>2. CASE ~(u = t /\ m = n)
      <4>1. stream[u].attempt = m /\ Guarded(u, m) /\ Alive(u, m)
        BY <1>6, <2>1, <2>2, <3>2 DEF Faultless
      <4>2. u # t
        <5>1. CASE u = t
          <6>1. Sole(t, m)
            BY <1>16, <4>1, <5>1 DEF SoleInv
          <6> QED
            BY <1>1, <1>3, <6>1 DEF Sole
        <5> QED
          BY <5>1
      <4> QED
        BY <1>7, <1>13, <1>14, <4>1, <4>2
    <3> QED
      BY <3>1, <3>2
  <2>3. \A u \in Tasks : Firm(u)'
    BY <1>3, <2>1 DEF Faultless, Firm
  <2>4. LaunchGuarded'
    BY <1>8 DEF LaunchGuarded
  <2> QED
    BY <2>2, <2>3, <2>4 DEF Faultless
<1> QED
  BY <1>3, <1>12, <1>15, <1>16 DEF SoleInv

\* The record offers a launch: no process is left that it would tell of.
LEMMA ActivateSole ==
  ASSUME FleetInv, SoleInv, NEW t \in Tasks, Activate(t)
  PROVE  SoleInv'
<1>1. PICK r : r = Refreshed(t)
  OBVIOUS
<1>2. PICK n : n = drv.snap[t].attempts
  OBVIOUS
<1>3. PICK a : a = Activated(r)
  OBVIOUS
<1>4. /\ UNCHANGED <<task, stream, proc, faults>> /\ Nears /\ Calm
      /\ drv.pc = "start" /\ t \in drv.todo /\ Launchable(r, n) /\ rec[t].gen = n
      /\ rec' = [rec EXCEPT ![t] = a] /\ disk' = [disk EXCEPT ![t] = Merged(disk[t], a)]
      /\ drv' = [drv EXCEPT !.pc = "launch", !.cur = t]
  BY <1>1, <1>2, <1>3, CalmNow
     DEF Activate, At, ledgerVars, hostVars, bounds, Nears
<1>5. Good(r) /\ r.gen = disk[t].gen /\ r.gen = n /\ r.status = "starting"
  BY <1>1, <1>4, RefreshedOK DEF Heir, Launchable
<1>6. Guards(a, n) /\ ~Ended(a) /\ a.gen = n
  BY <1>3, <1>4, <1>5, GuardsActivated, ActivatedOK DEF Succeeds
<1>7. disk \in [Tasks -> RecordType] /\ rec \in [Tasks -> RecordType]
  BY TypeFacts DEF RecordsOK
<1>8. /\ disk'[t] = Merged(disk[t], a) /\ rec'[t] = a
      /\ \A u \in Tasks : u # t => disk'[u] = disk[u] /\ rec'[u] = rec[u]
  BY <1>4, <1>7
<1>9. drv'.pc = "launch" /\ drv'.snap = drv.snap /\ drv'.todo = drv.todo /\ drv'.cur = t
  BY <1>4, DriverFacts DEF DriverType
<1>10. drv.todo \subseteq Tasks
  BY DriverFacts
<1>11. \A u \in drv.todo : task[u].receipt # drv.snap[u].attempts /\ u \notin Tracked
  BY <1>4 DEF SoleInv, Ordered, StartsFresh
<1>12. Ordered'
  <2>1. Tracked' = Tracked
    BY <1>4 DEF Tracked
  <2>2. StartsFresh'
    BY <1>4, <1>9, <1>11, <2>1 DEF StartsFresh
  <2> QED
    BY <1>4, <2>2, CalmOrder DEF SoleInv, Ordered, OutcomeStopped
<1>13. \A u \in Tasks, m \in Attempts : Alive(u, m)' => Lasting(u, m)
  BY <1>4, <1>9 DEF Lasting, Sole, Alive
<1>14. ASSUME NEW m \in Attempts, Sole(t, m)
       PROVE  FALSE
  <2>1. m \in Nat /\ m > 0
    BY AttemptNumbers
  <2>2. stream[t].attempt # m
    BY <1>4, <1>11, <2>1 DEF Tracked
  <2>3. Guarded(t, m)
    BY <1>14, <2>2, Zenon DEF Sole
  <2> QED
    BY <1>1, <1>4, <2>3, GuardsRefuse DEF Guarded
<1>15. ASSUME NEW u \in Tasks, NEW m \in Attempts, Sole(u, m)
       PROVE  u # t /\ GuardLasts(u, m)
  <2>1. u # t
    BY <1>14, <1>15
  <2>2. disk'[u] = disk[u] /\ rec'[u] = rec[u]
    BY <1>8, <2>1
  <2> QED
    BY <1>4, <2>1, <2>2 DEF GuardLasts, Guarded, Refreshed
<1>16. ASSUME faults' = 0
       PROVE  (\A u \in Tasks : Firm(u)') /\ LaunchGuarded'
  <2>1. Faultless
    BY <1>4, <1>16 DEF SoleInv
  <2>2. r = rec[t] /\ ~Ended(r)
    BY <1>1, <1>4, <1>5, Numbers DEF Refreshed, Ended
  <2>3. ~Ended(disk[t])
    BY <1>4, <1>5, <2>1, <2>2 DEF Faultless, Firm
  <2>4. disk'[t] = a
    BY <1>8, <2>3 DEF Merged
  <2>5. task[t].attempts # 0
    <3>1. n > 0
      BY <1>2, <1>4, TypeFacts DEF DriverOK
    <3>2. n <= task[t].attempts /\ n \in Nat
      BY <1>2, DriverFacts, TaskFields DEF Snaps, Behind
    <3> QED
      BY <3>1, <3>2, Numbers
  <2>6. ASSUME NEW u \in Tasks
        PROVE  Firm(u)'
    <3>1. CASE u = t
      BY <1>4, <1>8, <2>4, <2>5, <3>1 DEF Firm
    <3>2. CASE u # t
      BY <1>4, <1>8, <2>1, <3>2 DEF Faultless, Firm
    <3> QED
      BY <3>1, <3>2
  <2>7. LaunchGuarded'
    <3>1. ASSUME NEW m, m = n
          PROVE  Guarded(t, m)'
      BY <1>6, <1>8, <2>4, <3>1 DEF Guarded, Refreshed
    <3>2. Guarded(t, n)'
      BY <3>1
    <3>3. drv'.snap[drv'.cur].attempts = n
      BY <1>2, <1>9
    <3> QED
      BY <1>9, <3>2, <3>3 DEF LaunchGuarded, Guarded, Refreshed
  <2> QED
    BY <2>6, <2>7
<1>17. \A u \in Tasks, m \in Attempts :
          drv'.pc = "launch" /\ Alive(u, m)' /\ Sole(u, m) => drv'.cur # u
  BY <1>9, <1>15
<1> QED
  BY <1>4, <1>12, <1>13, <1>15, <1>16, <1>17, SoleStep

LEMMA RefuseLaunchSole ==
  ASSUME FleetInv, SoleInv, NEW t \in Tasks, RefuseLaunch(t)
  PROVE  SoleInv'
<1>1. /\ UNCHANGED <<task, disk, stream, proc, faults>> /\ Nears /\ Calm /\ Abort
      /\ rec' = rec \/ rec' = disk
      /\ drv.pc = "start"
  BY CalmNow DEF RefuseLaunch, ledgerVars, hostVars, bounds, Nears, At
<1>2. drv'.pc = "end"
  BY <1>1, AbortOK
<1>3. Ordered'
  BY <1>1, <1>2, CalmOrder, NotStarting DEF SoleInv, Ordered, OutcomeStopped
<1>4. \A u \in Tasks, m \in Attempts : Alive(u, m)' => Lasting(u, m)
  BY <1>1, <1>2 DEF Lasting, Sole, Alive
<1>5. ASSUME NEW u \in Tasks, NEW m \in Attempts
      PROVE  GuardLasts(u, m)
  <2>1. CASE rec' = rec
    BY <1>1, <2>1 DEF GuardLasts, Guarded, Refreshed
  <2>2. CASE rec' = disk
    <3>1. Refreshed(u)' = disk[u] /\ rec'[u] = disk[u]
      BY <1>1, <2>2 DEF Refreshed
    <3>2. Guarded(u, m) => Guarded(u, m)'
      BY <1>1, <3>1 DEF Guarded
    <3>3. m \in Nat /\ rec[u].gen \in Nat /\ disk[u].gen \in Nat /\ rec[u].gen <= disk[u].gen
      BY Numbers, AttemptNumbers
    <3>4. m <= rec[u].gen => m <= rec'[u].gen
      BY <3>1, <3>3
    <3> QED
      BY <1>1, <3>2, <3>4 DEF GuardLasts
  <2> QED
    BY <1>1, <2>1, <2>2
<1>6. ASSUME faults' = 0
      PROVE  (\A u \in Tasks : Firm(u)') /\ LaunchGuarded'
  BY <1>1, <1>2, <1>6 DEF SoleInv, Faultless, Firm, LaunchGuarded
<1> QED
  BY <1>1, <1>2, <1>3, <1>4, <1>5, <1>6, SoleStep

-----------------------------------------------------------------------------
(* Reconciling. *)

\* Reconciliation without proof that a process is gone keeps the records that
\* tell of it, and reopens no record that has ended.
LEMMA ReconcileKeeps ==
  ASSUME FleetInv, NEW snap \in [Tasks -> TaskType], Behind(snap), NEW ev,
         Reconcile(snap, ev), UNCHANGED task, NEW t \in Tasks
  PROVE  /\ \A n \in Nat : Guarded(t, n) /\ snap[t].receipt # n /\ ev[t] # n => Guarded(t, n)'
         /\ Firm(t) => Firm(t)'
         /\ rec'[t].gen = disk[t].gen
<1> DEFINE new(u) == IF u \in Recorded(snap) THEN Projected(Refreshed(u), snap[u], ev[u])
                     ELSE Refreshed(u)
<1>1. PICK r : r = Refreshed(t)
  OBVIOUS
<1>2. PICK w : w = new(t)
  OBVIOUS
<1>3. r \in {disk[t], rec[t]} /\ Good(r) /\ r.gen = disk[t].gen
  BY <1>1, RefreshedOK DEF Heir
<1>4. disk'[t].gen = disk[t].gen /\ rec'[t].gen = disk[t].gen
  BY ReconcileOK
<1>5. \/ /\ RefusedIn(snap, ev) = {} /\ rec'[t] = w /\ disk'[t] = Merged(disk[t], w)
      \/ rec'[t] = disk'[t] /\ disk'[t] \in {disk[t], w}
  <2>1. CASE RefusedIn(snap, ev) = {}
    <3>1. /\ rec' = [u \in Tasks |-> new(u)]
          /\ disk' = [u \in Tasks |-> Merged(disk[u], new(u))]
      BY <2>1 DEF Reconcile
    <3> HIDE DEF new
    <3> QED
      BY <1>2, <2>1, <3>1
  <2>2. CASE RefusedIn(snap, ev) # {}
    <3>1. PICK written :
             /\ disk' = [u \in Tasks |->
                           IF u \in written THEN Merged(disk[u], new(u)) ELSE disk[u]]
             /\ rec' = disk'
      BY <2>2 DEF Reconcile
    <3> HIDE DEF new
    <3>2. disk'[t] = Merged(disk[t], w) \/ disk'[t] = disk[t]
      BY <1>2, <3>1
    <3>3. disk'[t] \in {disk[t], w}
      BY <3>2, MergedOne
    <3> QED
      BY <3>1, <3>3
  <2> QED
    BY <2>1, <2>2
<1>6. w = Projected(r, snap[t], ev[t]) \/ w = r
  BY <1>1, <1>2
<1>7. ASSUME NEW n \in Nat, Guarded(t, n), snap[t].receipt # n, ev[t] # n
      PROVE  Guarded(t, n)'
  <2>1. Guards(disk[t], n) /\ Guards(r, n)
    BY <1>1, <1>7 DEF Guarded
  <2>2. Guards(w, n)
    BY <1>3, <1>6, <1>7, <2>1, GuardsProjected
  <2>3. Guards(disk'[t], n) /\ Guards(rec'[t], n)
    BY <1>5, <2>1, <2>2, MergedOne
  <2>4. Refreshed(t)' \in {disk'[t], rec'[t]}
    BY DEF Refreshed
  <2>5. Guards(Refreshed(t)', n)
    BY <2>3, <2>4
  <2> QED
    BY <2>3, <2>5 DEF Guarded, Guards, Ended
<1>8. ASSUME Firm(t)
      PROVE  Firm(t)'
  <2>1. ASSUME Ended(disk'[t])
        PROVE  Ended(rec'[t])
    <3>1. CASE rec'[t] = disk'[t]
      BY <2>1, <3>1
    <3>2. CASE /\ RefusedIn(snap, ev) = {} /\ rec'[t] = w /\ disk'[t] = Merged(disk[t], w)
      <4>1. ASSUME ~Ended(w)
            PROVE  FALSE
        <5>1. Ended(disk[t])
          BY <2>1, <3>2, <4>1 DEF Merged
        <5>2. Ended(r)
          BY <1>3, <1>8, <5>1 DEF Firm
        <5>3. w = Projected(r, snap[t], ev[t]) /\ t \in Recorded(snap)
          BY <1>1, <1>2, <4>1, <5>2
        <5>4. Refused(r, snap[t], ev[t])
          BY <1>3, <4>1, <5>2, <5>3, ReopeningRefused
        <5>5. t \in RefusedIn(snap, ev)
          BY <1>1, <5>3, <5>4 DEF RefusedIn
        <5> QED
          BY <3>2, <5>5
      <4> QED
        BY <3>2, <4>1
    <3> QED
      BY <1>5, <3>1, <3>2
  <2>2. task'[t].attempts = 0 => disk'[t].gen = 0
    BY <1>4, <1>8 DEF Firm
  <2> QED
    BY <2>1, <2>2 DEF Firm, Ended
<1> QED
  BY <1>4, <1>7, <1>8

LEMMA SoleReconcile ==
  ASSUME FleetInv, SoleInv, UNCHANGED <<task, proc, faults>>,
         NEW snap \in [Tasks -> TaskType], Behind(snap), NEW ev, Reconcile(snap, ev),
         drv.pc # "down",
         drv'.pc \notin {"start", "launch", "artifact", "schedule", "reconcile", "settle"},
         \A t \in Tasks : OutcomeStopped(t)',
         \A t \in Tasks, n \in Attempts : Alive(t, n) =>
             /\ stream[t].attempt = n => stream'[t].attempt = n
             /\ ev[t] # n
             /\ Sole(t, n) => snap[t].receipt # n
  PROVE  SoleInv'
<1>1. Nears /\ Calm
  BY CalmNow DEF Nears
<1>2. Ordered'
  BY <1>1, CalmOrder, NotStarting DEF SoleInv, Ordered
<1>3. \A t \in Tasks, n \in Attempts : Alive(t, n)' => Lasting(t, n)
  <2> SUFFICES ASSUME NEW t \in Tasks, NEW n \in Attempts, Alive(t, n)
               PROVE  Lasting(t, n)
    BY DEF Alive
  <2> QED
    BY DEF Lasting, Sole
<1>4. ASSUME NEW t \in Tasks, NEW n \in Attempts, Alive(t, n)', Sole(t, n)
      PROVE  GuardLasts(t, n)
  <2>1. n \in Nat /\ rec[t].gen \in Nat /\ disk[t].gen \in Nat /\ rec[t].gen <= disk[t].gen
    BY AttemptNumbers, Numbers
  <2>2. ev[t] # n /\ snap[t].receipt # n
    BY <1>4 DEF Alive
  <2>3. (Guarded(t, n) => Guarded(t, n)') /\ rec'[t].gen = disk[t].gen
    BY <2>1, <2>2, ReconcileKeeps
  <2>4. n <= rec[t].gen => n <= rec'[t].gen
    BY <2>1, <2>3
  <2> QED
    BY <2>3, <2>4 DEF GuardLasts
<1>5. ASSUME faults' = 0
      PROVE  (\A t \in Tasks : Firm(t)') /\ LaunchGuarded'
  <2>1. \A t \in Tasks : Firm(t)
    BY <1>5 DEF SoleInv, Faultless
  <2>2. \A t \in Tasks : Firm(t)'
    BY <2>1, ReconcileKeeps
  <2> QED
    BY <2>2 DEF LaunchGuarded
<1> QED
  BY <1>1, <1>2, <1>3, <1>4, <1>5, SoleStep

\* What is evidence is true.
LEMMA EvidenceTrue ==
  ASSUME FleetInv, NEW t \in Tasks, NEW n \in Attempts, Alive(t, n)
  PROVE  /\ NoEvidence[t] # n /\ Evidence[t] # n
         /\ stream[t].attempt = n => ~stream[t].stopped
<1>1. n \in Nat /\ n > 0
  BY AttemptNumbers
<1>2. stream[t].attempt = n => ~stream[t].stopped
  BY <1>1, TypeFacts DEF StreamTrue, ExitOf, Alive
<1> QED
  BY <1>1, <1>2 DEF NoEvidence, Evidence

LEMMA ScheduleSole ==
  ASSUME FleetInv, SoleInv, Schedule
  PROVE  SoleInv'
<1> DEFINE pc == IF Verdict(drv.snap, NoEvidence) = "ready" THEN "beat" ELSE "drive"
           e == Verdict(drv.snap, NoEvidence) = "error"
<1>1. pc \in {"beat", "drive"}
  OBVIOUS
<1>2. drv' = [drv EXCEPT !.pc = pc, !.snap = NoSnap, !.err = e]
  BY Zenon DEF Schedule
<1> HIDE DEF pc, e
<1>3. drv'.pc = pc
  BY <1>2, DriverFacts DEF DriverType
<1>4. Reconcile(drv.snap, NoEvidence) /\ UNCHANGED <<task, proc, stream, faults>>
      /\ drv.pc = "schedule"
  BY DEF Schedule, ledgerVars, hostVars, bounds, At
<1>5. drv.snap \in [Tasks -> TaskType] /\ Behind(drv.snap)
  BY DriverFacts DEF Snaps
<1>6. \A t \in Tasks : OutcomeStopped(t)'
  BY <1>4 DEF SoleInv, Ordered, OutcomeStopped
<1>7. \A t \in Tasks, n \in Attempts : Sole(t, n) => drv.snap[t].receipt # n
  BY <1>4 DEF Sole
<1> QED
  BY <1>1, <1>3, <1>4, <1>5, <1>6, <1>7, EvidenceTrue, SoleReconcile

LEMMA DriveReconcileSole ==
  ASSUME FleetInv, SoleInv, DriveReconcile
  PROVE  SoleInv'
<1> DEFINE r == Verdict(drv.snap, Evidence) = "ready"
           e == drv.err \/ Verdict(drv.snap, Evidence) = "error"
<1>1. drv' = [drv EXCEPT !.pc = "check", !.snap = NoSnap, !.ready = r, !.err = e]
  BY Zenon DEF DriveReconcile
<1> HIDE DEF r, e
<1>2. drv'.pc = "check"
  BY <1>1, DriverFacts DEF DriverType
<1>3. Reconcile(drv.snap, Evidence) /\ UNCHANGED <<task, proc, stream, faults>>
      /\ drv.pc = "reconcile"
  BY DEF DriveReconcile, ledgerVars, hostVars, bounds, At
<1>4. drv.snap \in [Tasks -> TaskType] /\ Behind(drv.snap)
  BY DriverFacts DEF Snaps
<1>5. \A t \in Tasks : OutcomeStopped(t)'
  BY <1>3 DEF SoleInv, Ordered, OutcomeStopped
<1>6. \A t \in Tasks, n \in Attempts : Sole(t, n) => drv.snap[t].receipt # n
  BY <1>3 DEF Sole
<1> QED
  BY <1>2, <1>3, <1>4, <1>5, <1>6, EvidenceTrue, SoleReconcile

LEMMA SettleSole ==
  ASSUME FleetInv, SoleInv, Settle
  PROVE  SoleInv'
<1> DEFINE e == drv.err \/ Verdict(drv.snap, Evidence) = "error"
           ready == Verdict(drv.snap, Evidence) = "ready"
<1>1. e \in BOOLEAN /\ "end" \in {"idle", "end"}
  OBVIOUS
<1>2. drv' = [Down EXCEPT !.pc = "end", !.err = e]
  BY Zenon DEF Settle
<1>3. /\ Reconcile(drv.snap, Evidence) /\ UNCHANGED <<task, proc, faults>>
      /\ drv.pc = "settle"
      /\ stream' = [t \in Tasks |-> IF stream[t].stopped /\ ready THEN NoStream ELSE stream[t]]
  BY DEF Settle, ledgerVars, bounds, At
<1> HIDE DEF e, ready
<1>4. drv'.pc = "end"
  BY <1>1, <1>2, FromDown
<1>5. drv.snap \in [Tasks -> TaskType] /\ Behind(drv.snap)
  BY DriverFacts DEF Snaps
<1>6. \A t \in Tasks : OutcomeStopped(t)'
  BY <1>3 DEF SoleInv, Ordered, OutcomeStopped, NoStream
<1>7. \A t \in Tasks, n \in Attempts : Sole(t, n) => drv.snap[t].receipt # n
  BY <1>3 DEF Sole
<1>8. \A t \in Tasks : stream'[t].attempt = stream[t].attempt \/ stream[t].stopped
  BY <1>3
<1> QED
  BY <1>3, <1>4, <1>5, <1>6, <1>7, <1>8, EvidenceTrue, SoleReconcile

LEMMA FinishSole ==
  ASSUME FleetInv, SoleInv, Finish
  PROVE  SoleInv'
<1>1. Reconcile(task, NoEvidence) /\ UNCHANGED <<task, proc, stream, faults>>
      /\ drv.pc = "end"
  BY DEF Finish, ledgerVars, hostVars, bounds, At
<1>2. drv'.pc \in {"idle", "down"}
  <2>1. "idle" \in {"idle", "end"} /\ TRUE \in BOOLEAN
    OBVIOUS
  <2>2. drv' = [Down EXCEPT !.pc = "idle"] \/ drv' = Down
    BY DEF Finish
  <2> QED
    BY <2>1, <2>2, FromDown, DownOK
<1>3. task \in [Tasks -> TaskType] /\ Behind(task)
  BY TypeFacts, Numbers DEF LedgerOK, Behind
<1>4. \A t \in Tasks : OutcomeStopped(t)'
  BY <1>1 DEF SoleInv, Ordered, OutcomeStopped
<1>5. \A t \in Tasks, n \in Attempts : Sole(t, n) => task[t].receipt # n
  BY DEF Sole
<1> QED
  BY <1>1, <1>2, <1>3, <1>4, <1>5, EvidenceTrue, SoleReconcile

-----------------------------------------------------------------------------
(* Leases and restarts. *)

\* A lease leaves the receipt behind.
LEMMA LeasedReceipt ==
  ASSUME FleetInv, NEW t \in Tasks, NEW now, task' = Leasing(t, now)
  PROVE  /\ \A u \in Tasks : u # t => task'[u] = task[u]
         /\ task'[t].receipt = task[t].receipt
         /\ task'[t].attempts = task[t].attempts + 1
<1> DEFINE e == [task[t] EXCEPT !.status = "leased", !.attempts = task[t].attempts + 1,
                                !.seq = task[t].seq + 1, !.hb = now]
<1>1. ASSUME NEW s \in TaskType, NEW x,
             x = [s EXCEPT !.status = "leased", !.attempts = s.attempts + 1,
                           !.seq = s.seq + 1, !.hb = now]
      PROVE  x.attempts = s.attempts + 1 /\ x.receipt = s.receipt
  BY <1>1 DEF TaskType
<1>2. e.attempts = task[t].attempts + 1 /\ e.receipt = task[t].receipt
  BY <1>1, Numbers
<1>3. task' = [task EXCEPT ![t] = e]
  BY QuietNow DEF Leasing
<1> HIDE DEF e
<1> QED
  BY <1>2, <1>3, QuietNow

LEMMA LeasingOrder ==
  ASSUME FleetInv, SoleInv, UNCHANGED <<drv, stream>>,
         NEW t \in Tasks, NEW now, task' = Leasing(t, now)
  PROVE  Ordered'
<1>1. ASSUME NEW u \in Tasks
      PROVE  ReceiptOrder(u)'
  <2>1. ReceiptOrder(u)
    BY DEF SoleInv, Ordered
  <2>2. CASE u = t
    <3>1. task[t].receipt \in Nat /\ task[t].attempts \in Nat
      BY Numbers, TaskFields, FleetAssumption
    <3>2. task[t].receipt <= task[t].attempts
      BY <2>1, <2>2 DEF ReceiptOrder
    <3>3. /\ task'[t].receipt = task[t].receipt
          /\ task'[t].attempts = task[t].attempts + 1
      BY LeasedReceipt
    <3>4. task'[t].receipt < task'[t].attempts /\ task'[t].receipt <= task'[t].attempts
      BY <3>1, <3>2, <3>3
    <3> QED
      BY <2>2, <3>4 DEF ReceiptOrder
  <2>3. CASE u # t
    BY <2>1, <2>3, LeasedReceipt DEF ReceiptOrder
  <2> QED
    BY <2>2, <2>3
<1>2. \A u \in Tasks : task'[u].receipt = task[u].receipt
  BY LeasedReceipt
<1>3. StartsFresh'
  <2>1. Tracked' = Tracked
    BY DEF Tracked
  <2>2. drv.todo \subseteq Tasks
    BY DriverFacts
  <2> QED
    BY <1>2, <2>1, <2>2 DEF SoleInv, Ordered, StartsFresh
<1> QED
  BY <1>1, <1>3 DEF SoleInv, Ordered, OutcomeStopped

LEMMA LeaseSole ==
  ASSUME FleetInv, SoleInv, NEW t \in Tasks, Lease(t)
  PROVE  SoleInv'
<1>1. PICK m : m = Merged(disk[t], Registered)
  OBVIOUS
<1>2. /\ UNCHANGED <<stream, proc, drv, faults>> /\ Nears /\ drv.pc = "lease"
      /\ t \in Admissible
      /\ rec' = [rec EXCEPT ![t] = Registered] /\ disk' = [disk EXCEPT ![t] = m]
      /\ task' = Leasing(t, clock)
  BY <1>1 DEF Lease, At, hostVars, bounds, Nears
<1>3. task[t].attempts = 0 /\ \A n \in Attempts : ~Alive(t, n)
  BY <1>2, Unstarted DEF Alive
<1>4. disk \in [Tasks -> RecordType] /\ rec \in [Tasks -> RecordType]
  BY TypeFacts DEF RecordsOK
<1>5. /\ disk'[t] = m /\ rec'[t] = Registered
      /\ \A u \in Tasks : u # t => disk'[u] = disk[u] /\ rec'[u] = rec[u]
  BY <1>2, <1>4
<1>6. Ordered'
  BY <1>2, LeasingOrder
<1>7. \A u \in Tasks, n \in Attempts : Alive(u, n)' => Lasting(u, n)
  <2>1. \A u \in Tasks : task'[u].receipt = task[u].receipt
    BY <1>2, LeasedReceipt
  <2> QED
    BY <1>2, <2>1 DEF Lasting, Sole, Alive
<1>8. ASSUME NEW u \in Tasks, NEW n \in Attempts, Alive(u, n)'
      PROVE  GuardLasts(u, n)
  <2>1. u # t
    BY <1>2, <1>3, <1>8 DEF Alive
  <2>2. disk'[u] = disk[u] /\ rec'[u] = rec[u]
    BY <1>5, <2>1
  <2> QED
    BY <1>2, <2>2 DEF GuardLasts, Guarded, Refreshed
<1>9. ASSUME faults' = 0
      PROVE  (\A u \in Tasks : Firm(u)') /\ LaunchGuarded'
  <2>1. \A u \in Tasks : Firm(u)
    BY <1>2, <1>9 DEF SoleInv, Faultless
  <2>2. m = Registered
    <3>1. disk[t].gen = 0 /\ Registered.gen = 1
      BY <1>3, <2>1, NoRecOK DEF Firm
    <3> QED
      BY <1>1, <3>1 DEF Merged
  <2>3. task'[t].attempts # 0
    <3>1. task'[t].attempts = 1
      BY <1>2, <1>3, LeasedReceipt
    <3> QED
      BY <3>1
  <2>4. ASSUME NEW u \in Tasks
        PROVE  Firm(u)'
    <3>1. CASE u = t
      BY <1>5, <2>2, <2>3, <3>1 DEF Firm
    <3>2. CASE u # t
      <4>1. task'[u] = task[u]
        BY <1>2, <3>2, LeasedReceipt
      <4> QED
        BY <1>5, <2>1, <3>2, <4>1 DEF Firm
    <3> QED
      BY <3>1, <3>2
  <2>5. LaunchGuarded'
    BY <1>2 DEF LaunchGuarded
  <2> QED
    BY <2>4, <2>5
<1>10. \A u \in Tasks, n \in Attempts :
          drv'.pc = "launch" /\ Alive(u, n)' /\ Sole(u, n) => drv'.cur # u
  BY <1>2
<1> QED
  BY <1>2, <1>6, <1>7, <1>8, <1>9, <1>10, SoleStep

\* The next generation is prepared, and its lease published or not.
LEMMA PrepareSole ==
  ASSUME FleetInv, SoleInv, UNCHANGED <<rec, stream, proc, drv>>, Nears,
         NEW t \in Tasks, NEW o \in Operators, Wants(op[o], t),
         NEW a, a = task[t].attempts, a > 0, Preparable(Found(t), a),
         NEW r, r = PreparedFor(Found(t), a), disk' = [disk EXCEPT ![t] = r],
         NEW now, task' = task \/ task' = Leasing(t, now)
  PROVE  SoleInv'
<1>0. o \in Restarting(t)
  BY DEF Restarting, Wants
<1>1. PICK f : f = Found(t)
  OBVIOUS
<1>2. /\ Good(f) /\ f.gen = disk[t].gen /\ f \in {disk[t], Recovered(disk[t])}
      /\ f.gen > a => f.prepared
  <2>1. Heir(t, f) /\ f.gen = disk[t].gen
    BY <1>1, FoundOK
  <2>2. f \in {disk[t], Recovered(disk[t])}
    BY <1>1 DEF Found
  <2> QED
    BY <2>1, <2>2 DEF Heir, PreparedAhead
<1>3. /\ r.gen = a + 1 /\ a \in Nat
      /\ rec[t].gen \in Nat /\ disk[t].gen \in Nat /\ rec[t].gen <= disk[t].gen
      /\ disk[t].gen = a \/ disk[t].gen = a + 1
  BY <1>0, PreparingOK, Numbers
<1>4. disk \in [Tasks -> RecordType]
  BY TypeFacts DEF RecordsOK
<1>5. disk'[t] = r /\ \A u \in Tasks : u # t => disk'[u] = disk[u]
  BY <1>4
<1>6. Refreshed(t)' = r \/ (Refreshed(t)' = rec[t] /\ Refreshed(t) = rec[t])
  <2>1. CASE rec[t].gen < a + 1
    BY <1>3, <1>5, <2>1 DEF Refreshed
  <2>2. CASE ~(rec[t].gen < a + 1)
    BY <1>3, <1>5, <2>2 DEF Refreshed
  <2> QED
    BY <2>1, <2>2
<1>7. ASSUME NEW u \in Tasks, NEW n \in Nat, Guarded(u, n)
      PROVE  Guarded(u, n)'
  <2>1. CASE u = t
    <3>1. Guards(disk[t], n) /\ Good(disk[t])
      BY <1>7, <2>1, TypeFacts DEF Guarded
    <3>2. Guards(f, n)
      BY <1>2, <3>1, GuardsRecovered
    <3>3. Guards(r, n)
      BY <1>1, <1>2, <3>2, GuardsPrepared
    <3>4. Guards(Refreshed(t)', n)
      BY <1>6, <1>7, <2>1, <3>3 DEF Guarded
    <3> QED
      BY <1>5, <2>1, <3>3, <3>4 DEF Guarded, Guards, Ended
  <2>2. CASE u # t
    BY <1>5, <1>7, <2>2 DEF Guarded, Refreshed
  <2> QED
    BY <2>1, <2>2
<1>8. ASSUME NEW u \in Tasks, NEW n \in Attempts
      PROVE  GuardLasts(u, n)
  BY <1>7, AttemptNumbers DEF GuardLasts
<1>9. Ordered'
  <2>1. CASE task' = task
    <3>1. Tracked' = Tracked
      BY DEF Tracked
    <3>2. StartsFresh'
      BY <2>1, <3>1 DEF SoleInv, Ordered, StartsFresh
    <3> QED
      BY <2>1, <3>2, CalmNow, CalmOrder DEF SoleInv, Ordered, OutcomeStopped
  <2>2. CASE task' = Leasing(t, now)
    BY <2>2, LeasingOrder
  <2> QED
    BY <2>1, <2>2
<1>10. \A u \in Tasks, n \in Attempts : Alive(u, n)' => Lasting(u, n)
  <2>1. \A u \in Tasks : task'[u].receipt = task[u].receipt
    BY LeasedReceipt
  <2> QED
    BY <2>1 DEF Lasting, Sole, Alive
<1>11. ASSUME faults' = 0
       PROVE  (\A u \in Tasks : Firm(u)') /\ LaunchGuarded'
  <2>1. Faultless
    BY <1>11 DEF SoleInv, Nears
  <2>2. ASSUME NEW u \in Tasks
        PROVE  Firm(u)'
    <3>1. CASE u = t
      <4>1. task'[t].attempts # 0
        <5>1. CASE task' = task
          BY <1>3, <5>1
        <5>2. CASE task' = Leasing(t, now)
          <6>1. task'[t].attempts = a + 1
            BY <5>2, LeasedReceipt
          <6> QED
            BY <1>3, <6>1
        <5> QED
          BY <5>1, <5>2
      <4>2. ASSUME disk'[t].gen = rec'[t].gen, Ended(disk'[t])
            PROVE  Ended(rec'[t])
        <5>1. CASE f.gen = a
          <6>1. ASSUME NEW b \in RecordType, NEW v, NEW x,
                       x = [b EXCEPT !.gen = b.gen + 1, !.status = "starting",
                                     !.prepared = TRUE, !.recint = FALSE,
                                     !.started = FALSE, !.unsettled = v]
                PROVE  x.status = "starting"
            BY <6>1 DEF RecordType
          <6>2. r.status = "starting"
            BY <1>1, <1>2, <5>1, <6>1, ZenonT(30) DEF PreparedFor, Prepared, Good
          <6> QED
            BY <1>5, <4>2, <6>2 DEF Ended
        <5>2. CASE f.gen # a
          <6>1. r = f /\ f.prepared
            <7>1. f.gen = a + 1
              BY <1>2, <1>3, <5>2
            <7>2. f.gen > a
              BY <1>3, <7>1
            <7> QED
              BY <1>1, <1>2, <5>2, <7>2 DEF PreparedFor
          <6>2. disk[t].prepared
            BY <1>2, <6>1, TypeFacts, RecoveredOK
          <6>3. f = disk[t]
            BY <1>2, <6>2 DEF Recovered
          <6> QED
            BY <1>5, <2>1, <4>2, <6>1, <6>3 DEF Faultless, Firm
        <5> QED
          BY <5>1, <5>2
      <4> QED
        BY <3>1, <4>1, <4>2 DEF Firm, Ended
    <3>2. CASE u # t
      <4>1. task'[u] = task[u]
        BY <3>2, LeasedReceipt
      <4> QED
        BY <1>5, <2>1, <3>2, <4>1 DEF Faultless, Firm
    <3> QED
      BY <3>1, <3>2
  <2>3. LaunchGuarded'
    <3>1. CASE drv.pc = "launch"
      <4>1. PICK u : u = drv.cur
        OBVIOUS
      <4>2. PICK n : n = drv.snap[u].attempts
        OBVIOUS
      <4>3. u \in Tasks /\ n \in Nat
        BY <3>1, <4>1, <4>2, LaunchFacts, AttemptNumbers
      <4>4. Guarded(u, n)
        BY <2>1, <3>1, <4>1, <4>2 DEF Faultless, LaunchGuarded
      <4>5. Guarded(u, n)'
        BY <1>7, <4>3, <4>4
      <4> QED
        BY <4>1, <4>2, <4>5 DEF LaunchGuarded, Guarded, Refreshed
    <3>2. CASE drv.pc # "launch"
      BY <3>2 DEF LaunchGuarded
    <3> QED
      BY <3>1, <3>2
  <2> QED
    BY <2>2, <2>3
<1>12. \A u \in Tasks, n \in Attempts :
          drv'.pc = "launch" /\ Alive(u, n)' /\ Sole(u, n) => drv'.cur # u
  BY DEF Sole
<1> QED
  BY <1>8, <1>9, <1>10, <1>11, <1>12, SoleStep

-----------------------------------------------------------------------------
(* The operators' calls. *)

LEMMA RestartCommitSole ==
  ASSUME FleetInv, SoleInv, NEW o \in Operators, RestartCommit(o)
  PROVE  SoleInv'
<1>1. PICK t \in op[o].todo :
          IF Unchanged(t, op[o].snap[t]) /\ Preparable(Found(t), op[o].snap[t].attempts)
          THEN Restarted(t, op[o].snap[t], clock)
          ELSE UNCHANGED <<task, disk>>
  BY DEF RestartCommit
<1>2. UNCHANGED <<rec, stream, proc, drv>> /\ Nears /\ op[o].call = "restart"
  BY DEF RestartCommit, hostVars, bounds, Nears
<1>3. CASE Unchanged(t, op[o].snap[t]) /\ Preparable(Found(t), op[o].snap[t].attempts)
  <2>1. PICK a : a = task[t].attempts
    OBVIOUS
  <2>2. t \in Tasks /\ Wants(op[o], t) /\ a = op[o].snap[t].attempts /\ a > 0
    BY <1>2, <1>3, <2>1, RestartFacts
  <2>3. PICK r : r = PreparedFor(Found(t), a)
    OBVIOUS
  <2>4. /\ disk' = [disk EXCEPT ![t] = r] /\ task' = Leasing(t, clock)
        /\ Preparable(Found(t), a)
    BY <1>1, <1>3, <2>2, <2>3 DEF Restarted
  <2> QED
    BY <1>2, <2>1, <2>2, <2>3, <2>4, PrepareSole
<1>4. CASE ~(Unchanged(t, op[o].snap[t]) /\ Preparable(Found(t), op[o].snap[t].attempts))
  BY <1>1, <1>2, <1>4, CalmNow, SoleCall
<1> QED
  BY <1>3, <1>4

LEMMA RestartTornSole ==
  ASSUME FleetInv, SoleInv, NEW o \in Operators, RestartTorn(o)
  PROVE  SoleInv'
<1>1. PICK t \in op[o].todo :
          /\ Unchanged(t, op[o].snap[t]) /\ Preparable(Found(t), op[o].snap[t].attempts)
          /\ disk' = [disk EXCEPT ![t] = PreparedFor(Found(t), op[o].snap[t].attempts)]
  BY DEF RestartTorn
<1>2. UNCHANGED <<task, rec, stream, proc, drv>> /\ Nears /\ op[o].call = "restart"
  BY DEF RestartTorn, ledgerVars, hostVars, Fault, Nears
<1>3. PICK a : a = task[t].attempts
  OBVIOUS
<1>4. t \in Tasks /\ Wants(op[o], t) /\ a = op[o].snap[t].attempts /\ a > 0
  BY <1>1, <1>2, <1>3, RestartFacts
<1>5. PICK r : r = PreparedFor(Found(t), a)
  OBVIOUS
<1>6. disk' = [disk EXCEPT ![t] = r] /\ Preparable(Found(t), a)
  BY <1>1, <1>4, <1>5
<1> QED
  BY <1>2, <1>3, <1>4, <1>5, <1>6, PrepareSole

LEMMA EventCalm ==
  ASSUME FleetInv, NEW t \in Tasks, task' = [task EXCEPT ![t].seq = @ + 1]
  PROVE  Calm
<1> DEFINE e == [task[t] EXCEPT !.seq = task[t].seq + 1]
<1>1. Keeps(task[t], e) /\ task' = [task EXCEPT ![t] = e]
  BY Numbers, QuietNow, KeptFields
<1> HIDE DEF e
<1> QED
  BY <1>1, KeepsOne

LEMMA ResumeRetrySole ==
  ASSUME FleetInv, SoleInv, NEW o \in Operators, ResumeRetry(o)
  PROVE  SoleInv'
<1>1. PICK t : t = op[o].cur
  OBVIOUS
<1>2. PICK s : s = op[o].snap[t]
  OBVIOUS
<1>3. UNCHANGED <<rec, stream, proc, drv>> /\ Nears /\ op[o].call = "retry"
  BY DEF ResumeRetry, hostVars, bounds, Nears
<1>4. \/ Unchanged(t, s) /\ Preparable(Found(t), s.attempts) /\ Restarted(t, s, op[o].now)
      \/ task' = [task EXCEPT ![t].status = "failed", ![t].seq = @ + 1] /\ UNCHANGED disk
      \/ UNCHANGED <<task, disk>>
  BY <1>1, <1>2 DEF ResumeRetry
<1>5. t \in op[o].todo /\ t \in Tasks /\ Wants(op[o], t)
  BY <1>1, <1>3, CallFacts DEF CallOK, Wants
<1>6. CASE Unchanged(t, s) /\ Preparable(Found(t), s.attempts) /\ Restarted(t, s, op[o].now)
  <2>1. PICK a : a = task[t].attempts
    OBVIOUS
  <2>2. a = s.attempts /\ a > 0
    BY <1>2, <1>3, <1>5, <1>6, <2>1, RestartFacts
  <2>3. PICK r : r = PreparedFor(Found(t), a)
    OBVIOUS
  <2>4. /\ disk' = [disk EXCEPT ![t] = r] /\ task' = Leasing(t, op[o].now)
        /\ Preparable(Found(t), a)
    BY <1>6, <2>2, <2>3 DEF Restarted
  <2> QED
    BY <1>3, <1>5, <2>1, <2>2, <2>3, <2>4, PrepareSole
<1>7. CASE task' = [task EXCEPT ![t].status = "failed", ![t].seq = @ + 1] /\ UNCHANGED disk
  <2> DEFINE e == [task[t] EXCEPT !.status = "failed", !.seq = task[t].seq + 1]
  <2>1. Keeps(task[t], e)
    BY <1>5, Numbers, KeptFields
  <2>2. task' = [task EXCEPT ![t] = e]
    BY <1>5, <1>7, QuietNow
  <2> HIDE DEF e
  <2> QED
    BY <1>3, <1>5, <1>7, <2>1, <2>2, KeepsOne, SoleCall
<1>8. CASE UNCHANGED <<task, disk>>
  BY <1>3, <1>8, CalmNow, SoleCall
<1> QED
  BY <1>4, <1>6, <1>7, <1>8

LEMMA CancelCalm ==
  ASSUME FleetInv, NEW t \in Tasks, task' = Canceling(t)
  PROVE  Calm
<1>1. CASE Active(task[t])
  <2> DEFINE e == [task[t] EXCEPT !.status = "cancelled", !.seq = task[t].seq + 1]
  <2>1. Keeps(task[t], e)
    BY Numbers, KeptFields
  <2>2. task' = [task EXCEPT ![t] = e]
    BY <1>1, QuietNow DEF Canceling
  <2> HIDE DEF e
  <2> QED
    BY <2>1, <2>2, KeepsOne
<1>2. CASE ~Active(task[t])
  BY <1>2, CalmNow DEF Canceling
<1> QED
  BY <1>1, <1>2

\* What an operator does to a task without restarting it.
LEMMA CallsSole ==
  ASSUME FleetInv, SoleInv, NEW o \in Operators, NEW t \in Tasks,
         StopTask(o, t) \/ ResumeMark(o, t)
  PROVE  SoleInv'
<1>1. CASE StopTask(o, t)
  BY <1>1, CancelCalm, SoleCall DEF StopTask, recordVars, hostVars, bounds, Nears
<1>2. CASE ResumeMark(o, t)
  <2>1. task' = [task EXCEPT ![t].seq = @ + 1] \/ UNCHANGED task
    BY <1>2 DEF ResumeMark
  <2>2. Calm
    BY <2>1, EventCalm, CalmNow
  <2> QED
    BY <1>2, <2>2, SoleCall DEF ResumeMark, recordVars, hostVars, bounds, Nears
<1> QED
  BY <1>1, <1>2

LEMMA ResumeAlertSole ==
  ASSUME FleetInv, SoleInv, NEW o \in Operators, ResumeAlert(o)
  PROVE  SoleInv'
<1>1. PICK t : t = op[o].cur
  OBVIOUS
<1>2. op[o].call = "alert" /\ UNCHANGED <<disk, rec, stream, proc, drv>> /\ Nears
  BY DEF ResumeAlert, recordVars, hostVars, bounds, Nears
<1>3. t \in Tasks
  BY <1>1, <1>2, CallFacts DEF CallOK
<1>4. task' = [task EXCEPT ![t].seq = @ + 1] \/ UNCHANGED task
  BY <1>1 DEF ResumeAlert
<1> QED
  BY <1>2, <1>3, <1>4, EventCalm, CalmNow, SoleCall

-----------------------------------------------------------------------------
(* Crashes and restarts of the driver. *)

\* The driver starts again: the records it adopts tell of every process.
LEMMA StartDriverSole ==
  ASSUME FleetInv, SoleInv, StartDriver
  PROVE  SoleInv'
<1>1. /\ UNCHANGED <<task, stream, proc, faults>> /\ Nears /\ Calm
      /\ disk' = [t \in Tasks |-> Recovered(disk[t])] /\ rec' = disk'
      /\ drv' = [Down EXCEPT !.pc = "idle"] /\ drv.pc = "down"
  BY CalmNow DEF StartDriver, ledgerVars, hostVars, bounds, Nears, At
<1>2. drv'.pc = "idle"
  <2>1. "idle" \in {"idle", "end"} /\ TRUE \in BOOLEAN
    OBVIOUS
  <2> QED
    BY <1>1, <2>1, FromDown
<1>3. ASSUME NEW t \in Tasks
      PROVE  /\ disk'[t] = Recovered(disk[t]) /\ rec'[t] = disk'[t]
             /\ Good(disk[t]) /\ disk'[t].gen = disk[t].gen
             /\ Refreshed(t)' = disk'[t]
  BY <1>1, TypeFacts, RecoveredOK DEF Succeeds, Refreshed
<1>4. ASSUME NEW t \in Tasks, NEW n \in Attempts
      PROVE  GuardLasts(t, n)
  <2>1. ASSUME Guarded(t, n)
        PROVE  Guarded(t, n)' /\ n <= rec'[t].gen
    <3>1. Guards(disk[t], n) /\ n \in Nat /\ disk[t].gen \in Nat
      BY <2>1, AttemptNumbers, Numbers DEF Guarded
    <3>2. Guards(disk'[t], n)
      BY <1>3, <3>1, GuardsRecovered
    <3>3. disk[t].gen = n \/ disk[t].gen = n + 1
      BY <3>1 DEF Guards
    <3>4. n <= rec'[t].gen
      BY <1>3, <3>1, <3>3
    <3>5. Guards(Refreshed(t)', n)
      BY <1>3, <3>2
    <3> QED
      BY <3>2, <3>4, <3>5 DEF Guarded, Guards, Ended
  <2> QED
    BY <2>1 DEF GuardLasts
<1>5. Ordered'
  BY <1>1, <1>2, CalmOrder, NotStarting DEF SoleInv, Ordered, OutcomeStopped
<1>6. \A t \in Tasks, n \in Attempts : Alive(t, n)' => Lasting(t, n)
  BY <1>1, <1>2 DEF Lasting, Sole, Alive
<1>7. ASSUME faults' = 0
      PROVE  (\A t \in Tasks : Firm(t)') /\ LaunchGuarded'
  <2>1. \A t \in Tasks : Firm(t)
    BY <1>1, <1>7 DEF SoleInv, Faultless
  <2>2. \A t \in Tasks : Firm(t)'
    BY <1>1, <1>3, <2>1 DEF Firm
  <2> QED
    BY <1>2, <2>2 DEF LaunchGuarded
<1> QED
  BY <1>1, <1>2, <1>4, <1>5, <1>6, <1>7, SoleStep

\* The driver dies.  When it is the first fault, every process that it leaves
\* is the only one of its task and has a record.
LEMMA CrashSole ==
  ASSUME FleetInv, SoleInv, Crash
  PROVE  SoleInv'
<1>1. /\ UNCHANGED <<task, proc>> /\ drv' = Down /\ faults' = faults + 1
      /\ stream' = [t \in Tasks |-> NoStream] /\ rec' = [t \in Tasks |-> NoRec]
  BY DEF Crash, ledgerVars, Fault
<1>2. disk' = disk \/ \E t \in Admissible : disk' = [disk EXCEPT ![t] = Merged(disk[t], Registered)]
  BY DEF Crash
<1>3. faults \in Nat /\ faults' \in Nat /\ faults' # 0 /\ (faults' <= 1 => faults = 0)
  BY <1>1 DEF SoleInv
<1>4. drv'.pc = "down"
  BY <1>1, DownOK
<1>5. Ordered'
  <2>1. \A t \in Tasks : OutcomeStopped(t)'
    BY <1>1 DEF OutcomeStopped, NoStream
  <2> QED
    BY <1>1, <1>4, <2>1, CalmNow, CalmOrder, NotStarting DEF SoleInv, Ordered
<1>6. ASSUME faults = 0, NEW t \in Tasks, NEW n \in Attempts, Alive(t, n)'
      PROVE  Sole(t, n)'
  <2>1. Alive(t, n) /\ n \in Nat /\ n > 0
    BY <1>1, <1>6, AttemptNumbers DEF Alive
  <2>2. Sole(t, n) /\ Guarded(t, n)
    BY <1>6, <2>1 DEF SoleInv, Faultless
  <2>3. disk'[t] = disk[t]
    <3>1. CASE disk' = disk
      BY <3>1
    <3>2. CASE disk' # disk
      <4>1. PICK u \in Admissible : disk' = [disk EXCEPT ![u] = Merged(disk[u], Registered)]
        BY <1>2, <3>2
      <4>2. u # t
        BY <2>1, Unstarted DEF Alive
      <4>3. disk \in [Tasks -> RecordType]
        BY TypeFacts DEF RecordsOK
      <4> QED
        BY <4>1, <4>2, <4>3
    <3> QED
      BY <3>1, <3>2
  <2>4. Guards(disk[t], n) /\ disk[t].gen \in Nat
    BY <2>2, Numbers DEF Guarded
  <2>5. disk[t].gen > 0
    <3>1. disk[t].gen = n \/ disk[t].gen = n + 1
      BY <2>4 DEF Guards
    <3> QED
      BY <2>1, <2>4, <3>1
  <2>6. Refreshed(t)' = disk[t]
    BY <1>1, <2>3, <2>5, NoRecOK DEF Refreshed
  <2>7. Guarded(t, n)'
    BY <2>3, <2>4, <2>6 DEF Guarded, Guards, Ended
  <2>8. \A m \in Attempts : Alive(t, m)' => m = n
    BY <1>1, <2>2 DEF Sole, Alive
  <2>9. task'[t].receipt # n
    BY <1>1, <2>2 DEF Sole
  <2> QED
    BY <1>4, <2>7, <2>8, <2>9 DEF Sole
<1> QED
  BY <1>3, <1>5, <1>6 DEF SoleInv

-----------------------------------------------------------------------------
(* One process, from SoleInv. *)

LEMMA InitSole == Init => SoleInv
<1> SUFFICES ASSUME Init
             PROVE  SoleInv
  OBVIOUS
<1>1. /\ task = [t \in Tasks |-> NewTask]
      /\ disk = [t \in Tasks |-> NoRec] /\ rec = [t \in Tasks |-> NoRec]
      /\ stream = [t \in Tasks |-> NoStream]
      /\ proc = [t \in Tasks |-> [n \in Attempts |-> "none"]]
      /\ drv = [Down EXCEPT !.pc = "idle"] /\ faults = 0
  BY DEF Init
<1>2. drv.pc = "idle"
  <2>1. "idle" \in {"idle", "end"} /\ TRUE \in BOOLEAN
    OBVIOUS
  <2> QED
    BY <1>1, <2>1, FromDown
<1>3. Ordered
  BY <1>1, <1>2
     DEF Ordered, ReceiptOrder, OutcomeStopped, StartsFresh, NewTask, NoStream, Leased
<1>4. \A t \in Tasks, n \in Attempts : ~Alive(t, n)
  BY <1>1 DEF Alive
<1>5. Faultless
  BY <1>1, <1>2, <1>4, NoRecOK DEF Faultless, Firm, LaunchGuarded
<1> QED
  BY <1>1, <1>3, <1>4, <1>5 DEF SoleInv

LEMMA StepsSole ==
  ASSUME FleetInv, SoleInv, [Next]_fleetVars
  PROVE  SoleInv'
<1>1. ASSUME Driver
      PROVE  SoleInv'
  <2>1. CASE \E t \in Tasks : Beat(t) \/ Lease(t) \/ RejectLaunch(t) \/ Activate(t)
                              \/ RefuseLaunch(t) \/ Fence(t) \/ Attend(t)
    BY <2>1, BeatSole, LeaseSole, RejectLaunchSole, ActivateSole, RefuseLaunchSole,
       FenceSole, AttendSole
  <2>2. CASE \/ BeginTick \/ Schedule \/ ReadLeases \/ EndBeat \/ LeaseFails \/ Drive
             \/ DriveReconcile \/ Check \/ Launch \/ LaunchFails \/ Artifact \/ EndStarting
    BY <2>2, BeginTickSole, ScheduleSole, ReadLeasesSole, EndBeatSole, LeaseFailsSole, DriveSole,
       DriveReconcileSole, CheckSole, LaunchSole, LaunchFailsSole, ArtifactSole,
       EndStartingSole
  <2>3. CASE \/ Observe \/ Report \/ Stamp \/ Running \/ WithinLimit \/ Timeout
             \/ Publish \/ AppendFails \/ EndWork \/ Settle \/ GiveUp \/ Finish
    BY <2>3, ObserveSole, ReportSole, StampSole, RunningSole, WithinLimitSole, TimeoutSole,
       PublishSole, AppendFailsSole,
       EndWorkSole, SettleSole, GiveUpSole, FinishSole
  <2> QED
    BY <1>1, <2>1, <2>2, <2>3 DEF Driver
<1>2. ASSUME UNCHANGED <<task, disk, rec, stream, proc, drv, faults>>
      PROVE  SoleInv'
  BY <1>2, CalmNow, SoleCall DEF Nears
<1>3. ASSUME NEW o \in Operators, Operator(o)
      PROVE  SoleInv'
  <2>1. CASE RestartCommit(o) \/ RestartTorn(o) \/ ResumeRetry(o) \/ ResumeAlert(o)
    BY <2>1, RestartCommitSole, RestartTornSole, ResumeRetrySole, ResumeAlertSole
  <2>2. CASE ResumeRead(o)
    BY <1>2, <2>2 DEF ResumeRead, ledgerVars, recordVars, hostVars, bounds
  <2>3. CASE \E t \in Tasks : StopTask(o, t) \/ ResumeMark(o, t)
    BY <2>3, CallsSole
  <2> QED
    BY <1>3, <2>1, <2>2, <2>3 DEF Operator
<1>4. ASSUME Request
      PROVE  SoleInv'
  <2>1. CASE \E t \in Tasks : Interrupt(t)
    BY <2>1, CancelCalm, SoleCall DEF Interrupt, recordVars, hostVars, Nears
  <2>2. CASE \E o \in Operators : StopRun(o) \/ ResumeRun(o)
                                  \/ \E t \in Tasks : RestartWorker(o, t)
    BY <1>2, <2>2
       DEF StopRun, ResumeRun, RestartWorker, ledgerVars, recordVars, hostVars
  <2> QED
    BY <1>4, <2>1, <2>2 DEF Request
<1>5. ASSUME Environment
      PROVE  SoleInv'
  <2>1. CASE Crash \/ StartDriver
    BY <2>1, CrashSole, StartDriverSole
  <2>2. CASE Clock
    BY <1>2, <2>2 DEF Clock, ledgerVars, recordVars, hostVars
  <2>3. CASE \E o \in Operators : OperatorDies(o)
    BY <2>3, CalmNow, SoleCall
       DEF OperatorDies, ledgerVars, recordVars, hostVars, Fault, Nears
  <2>4. CASE \E t \in Tasks : Exit(t) \/ OrphanDies(t)
    BY <2>4, ExitSole
  <2> QED
    BY <1>5, <2>1, <2>2, <2>3, <2>4 DEF Environment
<1>6. ASSUME UNCHANGED fleetVars
      PROVE  SoleInv'
  BY <1>2, <1>6 DEF fleetVars, ledgerVars, recordVars, hostVars, bounds
<1> QED
  BY <1>1, <1>3, <1>4, <1>5, <1>6 DEF Next

LEMMA SoleIsOne ==
  ASSUME FleetInv, SoleInv, faults <= 1
  PROVE  OneProcess
<1> SUFFICES ASSUME NEW t \in Tasks
             PROVE  /\ Cardinality({n \in Attempts : proc[t][n] = "alive"}) <= 1
                    /\ task[t].receipt > 0 => proc[t][task[t].receipt] # "alive"
  BY DEF OneProcess
<1>1. \A n \in Attempts : Alive(t, n) => Sole(t, n)
  BY DEF SoleInv
<1>2. Cardinality({n \in Attempts : proc[t][n] = "alive"}) <= 1
  <2>1. CASE {n \in Attempts : proc[t][n] = "alive"} = {}
    BY <2>1, FS_EmptySet
  <2>2. CASE {n \in Attempts : proc[t][n] = "alive"} # {}
    <3>1. PICK n \in Attempts : Alive(t, n)
      BY <2>2 DEF Alive
    <3>2. {m \in Attempts : proc[t][m] = "alive"} = {n}
      BY <1>1, <3>1 DEF Sole, Alive
    <3> QED
      BY <3>2, FS_Singleton
  <2> QED
    BY <2>1, <2>2
<1>3. ASSUME task[t].receipt > 0
      PROVE  proc[t][task[t].receipt] # "alive"
  <2>1. task[t].receipt \in Attempts
    BY <1>3, Numbers, TaskFields, FleetAssumption DEF Attempts
  <2> QED
    BY <1>1, <2>1 DEF Sole, Alive
<1> QED
  BY <1>2, <1>3

\* Until a second fault a task never has two live worker processes, and no
\* receipt is of one that lives, for any tasks, operators and calls
\* (start_leased_workers, prepare_registered_restart_generation,
\* reconcile_coordination_worker_statuses).
THEOREM OneProcessUntilTwoFaults == Spec => [](faults <= 1 => OneProcess)
<1>1. FleetInv /\ SoleInv /\ [Next]_fleetVars => SoleInv'
  BY StepsSole
<1>2. FleetInv /\ SoleInv => (faults <= 1 => OneProcess)
  BY SoleIsOne
<1> QED
  BY <1>1, <1>2, InitSole, FleetInvariant, PTL DEF Spec

-----------------------------------------------------------------------------
(* What the store and the driver's memory hold for a lease. *)

\* What a record of task s may be: an interrupted one is a recovery's, one
\* ahead of the ledger is of a worker that never ran, the one of a lease is not
\* of a finished worker.
Sound(s, r) ==
    /\ r.gen = 0 => r = NoRec
    /\ r.status = "interrupted" => r.recint
    /\ r.gen > s.attempts => ~r.started /\ r.status # "done"
    /\ Leased(s) /\ r.gen = s.attempts => r.status # "done"

\* The driver's memory and the store agree on a generation.
Agree(t) == rec[t].gen = disk[t].gen => rec[t] = disk[t] \/ ClosedAtLease(disk[t])

\* No lease is taken to be over by someone who looked before.
Current(snap) ==
    \A t \in Tasks :
        Leased(task[t]) /\ snap[t].attempts = task[t].attempts => ~Closed(snap[t])

Looking == {"schedule", "reconcile", "settle"}

RecordInv ==
    /\ \A t \in Tasks : Sound(task[t], disk[t]) /\ Sound(task[t], rec[t]) /\ Agree(t)
    /\ drv.pc \in Looking => Current(drv.snap)

\* A lease that goes on was a lease.
LEMMA LeaseGoesOn ==
  ASSUME FleetInv, StepOK, NEW t \in Tasks,
         Leased(task'[t]), task'[t].attempts = task[t].attempts
  PROVE  Leased(task[t])
<1>1. LedgerOK /\ LedgerOK'
  BY TypeFacts DEF StepOK, FleetInv, FleetTypeOK
<1>2. task'[t].attempts # 0
  BY <1>1 DEF LedgerOK, Leased
<1>3. task[t].status # "enqueued"
  BY <1>1, <1>2 DEF LedgerOK
<1>4. ~Closed(task[t])
  <2>1. task[t].attempts \in Nat
    BY Numbers
  <2> QED
    BY <2>1 DEF StepOK, KeepsOutcome, Leased, Closed
<1>5. task[t].status \in {"enqueued", "leased", "completed", "failed", "cancelled"}
  BY Numbers, TaskFields
<1> QED
  BY <1>3, <1>4, <1>5 DEF Leased, Closed

\* What a record may be outlasts what others do to the ledger.
LEMMA SoundLasts ==
  ASSUME FleetInv, StepOK, NEW t \in Tasks, NEW r, r.gen \in Nat, Sound(task[t], r)
  PROVE  Sound(task'[t], r)
<1>1. /\ task[t].attempts \in Nat /\ task'[t].attempts \in Nat
      /\ task[t].attempts <= task'[t].attempts
  <2>1. LedgerOK'
    BY DEF StepOK, FleetInv, FleetTypeOK
  <2> QED
    BY <2>1, Numbers, TaskFields DEF LedgerOK, StepOK, Grows
<1>2. r.gen > task'[t].attempts => r.gen > task[t].attempts
  BY <1>1
<1>3. ASSUME Leased(task'[t]), r.gen = task'[t].attempts
      PROVE  r.status # "done"
  <2>1. CASE task'[t].attempts = task[t].attempts
    BY <1>3, <2>1, LeaseGoesOn DEF Sound
  <2>2. CASE task'[t].attempts # task[t].attempts
    <3>1. r.gen > task[t].attempts
      BY <1>1, <1>3, <2>2
    <3> QED
      BY <3>1 DEF Sound
  <2> QED
    BY <2>1, <2>2
<1> QED
  BY <1>2, <1>3 DEF Sound

LEMMA CurrentLasts ==
  ASSUME FleetInv, StepOK, NEW snap \in Snaps, Behind(snap), Current(snap)
  PROVE  Current(snap)'
<1> SUFFICES ASSUME NEW t \in Tasks, Leased(task'[t]), snap[t].attempts = task'[t].attempts
             PROVE  ~Closed(snap[t])
  BY DEF Current
<1>1. task[t].attempts \in Nat /\ task'[t].attempts \in Nat /\ snap[t].attempts \in Nat
  <2>1. LedgerOK'
    BY DEF StepOK, FleetInv, FleetTypeOK
  <2> QED
    BY <2>1, Numbers, TaskFields DEF LedgerOK, Snaps
<1>2. task[t].attempts <= task'[t].attempts /\ snap[t].attempts <= task[t].attempts
  BY DEF StepOK, Grows, Behind
<1>3. task'[t].attempts = task[t].attempts
  BY <1>1, <1>2
<1> QED
  BY <1>3, LeaseGoesOn DEF Current

\* Clearing leaves alone what the store's promises are about.
LEMMA ClearedFields ==
  ASSUME NEW r \in RecordType, NEW s, NEW ev, NEW c, c = Cleared(r, s, ev)
  PROVE  /\ c.gen = r.gen /\ c.status = r.status
         /\ c.recint = r.recint /\ c.started = r.started
BY DEF Cleared, RecordType

LEMMA ProjectedSound ==
  ASSUME FleetInv, NEW t \in Tasks, NEW r, Good(r), Sound(task[t], r), r.gen > 0,
         NEW s \in TaskType, s.attempts <= task[t].attempts,
         Leased(task[t]) /\ s.attempts = task[t].attempts => ~Closed(s), NEW ev
  PROVE  Sound(task[t], Projected(r, s, ev))
<1>1. PICK c : c = Cleared(r, s, ev)
  OBVIOUS
<1>2. r \in RecordType
  BY DEF Good
<1>3. /\ c.gen = r.gen /\ c.status = r.status
      /\ c.recint = r.recint /\ c.started = r.started
  BY <1>1, <1>2, ClearedFields
<1>4. c \in RecordType
  BY <1>1, ClearedOK DEF Succeeds, Good
<1>5. c.gen # 0 /\ r.gen \in Nat
  BY <1>2, <1>3, RecordFields, FleetAssumption
<1> DEFINE keep == \/ c.unsettled \/ Unproven(c, s, ev)
                   \/ c.gen # s.attempts
                   \/ ~Closed(s) /\ c.status = "starting" /\ (c.prepared \/ ~c.started)
<1>6. CASE keep
  <2>1. Projected(r, s, ev) = c
    BY <1>1, <1>6 DEF Projected
  <2> QED
    BY <1>3, <1>5, <2>1 DEF Sound
<1>7. CASE ~keep
  <2>1. PICK p : p = Projected(r, s, ev)
    OBVIOUS
  <2>2. p = [c EXCEPT !.status = IF Closed(s) THEN "done" ELSE "running",
                      !.prepared = FALSE, !.recint = FALSE, !.started = c.started \/ ~Closed(s)]
    BY <1>1, <1>7, <2>1 DEF Projected
  <2>3. p.gen = c.gen /\ p.status = IF Closed(s) THEN "done" ELSE "running"
    BY <1>4, <2>2 DEF RecordType
  <2>4. c.gen = s.attempts
    BY <1>7
  <2>5. task[t].attempts \in Nat /\ s.attempts \in Nat
    BY Numbers, TaskFields
  <2>6. ~(p.gen > task[t].attempts) /\ p.gen # 0
    BY <1>5, <2>3, <2>4, <2>5
  <2>7. Leased(task[t]) /\ p.gen = task[t].attempts => p.status # "done"
    BY <2>3, <2>4
  <2>8. p.status # "interrupted"
    BY <2>3
  <2> QED
    BY <2>1, <2>6, <2>7, <2>8 DEF Sound
<1> QED
  BY <1>6, <1>7

\* What the driver publishes of a task is what the store then holds, unless the
\* store keeps the record that was closed before its lease.
LEMMA PublishedAgrees ==
  ASSUME FleetInv, RecordInv, NEW t \in Tasks, NEW p,
         Ended(Refreshed(t)) => Ended(p), NEW m, m = Merged(disk[t], p)
  PROVE  m = p \/ (m = disk[t] /\ ClosedAtLease(m))
<1> SUFFICES ASSUME m # p
             PROVE  m = disk[t] /\ ClosedAtLease(disk[t])
  OBVIOUS
<1>1. m = disk[t] /\ Ended(disk[t]) /\ ~Ended(p)
  BY DEF Merged
<1>2. Refreshed(t) # disk[t]
  BY <1>1
<1>3. ~(disk[t].gen > rec[t].gen) /\ rec[t] # disk[t]
  BY <1>2 DEF Refreshed
<1>4. rec[t].gen = disk[t].gen
  BY <1>3, Numbers
<1> QED
  BY <1>1, <1>3, <1>4 DEF RecordInv, Agree

LEMMA RefreshedSound ==
  ASSUME FleetInv, RecordInv, NEW t \in Tasks
  PROVE  Sound(task[t], Refreshed(t)) /\ Good(Refreshed(t))
BY RefreshedOK DEF RecordInv, Heir

\* Reconciliation with a ledger of the past.
LEMMA ReconcileRecords ==
  ASSUME FleetInv, RecordInv, NEW snap \in Snaps, Behind(snap), Current(snap), NEW ev,
         Reconcile(snap, ev)
  PROVE  \A t \in Tasks : /\ Sound(task[t], disk'[t]) /\ Sound(task[t], rec'[t])
                          /\ disk'[t] = rec'[t] \/ ClosedAtLease(disk'[t])
<1> DEFINE new(t) == IF t \in Recorded(snap) THEN Projected(Refreshed(t), snap[t], ev[t])
                     ELSE Refreshed(t)
<1>1. ASSUME NEW t \in Tasks
      PROVE  Sound(task[t], new(t))
  <2>1. Sound(task[t], Refreshed(t)) /\ Good(Refreshed(t))
    BY RefreshedSound
  <2>2. CASE t \in Recorded(snap)
    <3>1. /\ Refreshed(t).gen > 0 /\ snap[t] \in TaskType
          /\ snap[t].attempts <= task[t].attempts
          /\ Leased(task[t]) /\ snap[t].attempts = task[t].attempts => ~Closed(snap[t])
      BY <2>2 DEF Recorded, Snaps, Behind, Current
    <3> QED
      BY <2>1, <2>2, <3>1, ProjectedSound
  <2>3. CASE t \notin Recorded(snap)
    BY <2>1, <2>3
  <2> QED
    BY <2>2, <2>3
<1>2. ASSUME NEW t \in Tasks, t \notin RefusedIn(snap, ev), Ended(Refreshed(t))
      PROVE  Ended(new(t))
  <2>1. CASE t \in Recorded(snap)
    <3>1. ~Refused(Refreshed(t), snap[t], ev[t])
      BY <1>2, <2>1 DEF RefusedIn
    <3> QED
      BY <1>2, <2>1, <3>1, RefreshedSound, ReopeningRefused
  <2>2. CASE t \notin Recorded(snap)
    BY <1>2, <2>2
  <2> QED
    BY <2>1, <2>2
<1>3. ASSUME NEW t \in Tasks
      PROVE  Sound(task[t], Merged(disk[t], new(t))) /\ Sound(task[t], disk[t])
  BY <1>1, MergedOne DEF RecordInv
<1>4. \/ /\ RefusedIn(snap, ev) = {}
         /\ rec' = [t \in Tasks |-> new(t)]
         /\ disk' = [t \in Tasks |-> Merged(disk[t], new(t))]
      \/ \E written :
            /\ disk' = [t \in Tasks |->
                          IF t \in written THEN Merged(disk[t], new(t)) ELSE disk[t]]
            /\ rec' = disk'
  <2>1. CASE RefusedIn(snap, ev) = {}
    BY <2>1 DEF Reconcile
  <2>2. CASE RefusedIn(snap, ev) # {}
    BY <2>2 DEF Reconcile
  <2> QED
    BY <2>1, <2>2
<1> HIDE DEF new
<1>5. CASE /\ RefusedIn(snap, ev) = {}
           /\ rec' = [t \in Tasks |-> new(t)]
           /\ disk' = [t \in Tasks |-> Merged(disk[t], new(t))]
  <2>1. ASSUME NEW t \in Tasks
        PROVE  /\ Sound(task[t], disk'[t]) /\ Sound(task[t], rec'[t])
               /\ disk'[t] = rec'[t] \/ ClosedAtLease(disk'[t])
    <3>1. Ended(Refreshed(t)) => Ended(new(t))
      BY <1>2, <1>5
    <3>2. PICK m : m = Merged(disk[t], new(t))
      OBVIOUS
    <3>3. m = new(t) \/ ClosedAtLease(m)
      BY <3>1, <3>2, PublishedAgrees
    <3>4. disk'[t] = m /\ rec'[t] = new(t)
      BY <1>5, <3>2
    <3>5. Sound(task[t], m) /\ Sound(task[t], new(t))
      BY <1>1, <1>3, <3>2
    <3> QED
      BY <3>3, <3>4, <3>5
  <2> QED
    BY <2>1
<1>6. CASE \E written :
              /\ disk' = [t \in Tasks |->
                            IF t \in written THEN Merged(disk[t], new(t)) ELSE disk[t]]
              /\ rec' = disk'
  <2>1. ASSUME NEW t \in Tasks
        PROVE  Sound(task[t], disk'[t]) /\ rec'[t] = disk'[t]
    <3>1. disk'[t] = Merged(disk[t], new(t)) \/ disk'[t] = disk[t]
      BY <1>6
    <3>2. rec'[t] = disk'[t]
      BY <1>6
    <3> QED
      BY <1>3, <3>1, <3>2
  <2> QED
    BY <2>1
<1> QED
  BY <1>4, <1>5, <1>6

LEMMA ViewCurrent ==
  ASSUME FleetInv
  PROVE  Current(View)
<1> SUFFICES ASSUME NEW t \in Tasks, Leased(task[t])
             PROVE  ~Closed(View[t])
  BY DEF Current
<1>1. ASSUME NEW s \in TaskType, NEW x, x = [s EXCEPT !.seq = 0, !.hb = 0]
      PROVE  x.status = s.status
  BY <1>1 DEF TaskType
<1>2. View[t].status = task[t].status
  BY <1>1, Numbers DEF View
<1> QED
  BY <1>2 DEF Closed, Leased

\* Who looks at the ledger to reconcile looks at it now, or goes on from where
\* it looked.
LEMMA LookStep ==
  ASSUME FleetInv, [Next]_fleetVars
  PROVE  drv' = drv \/ drv'.pc \notin Looking \/ (drv'.snap = View /\ UNCHANGED task)
<1> USE DEF Looking
<1>0. drv \in DriverType /\ Down \in DriverType /\ Down.pc = "down"
  BY DriverFacts, DownOK
<1>1. CASE BeginTick
  BY <1>0, <1>1 DEF BeginTick, DriverType, ledgerVars
<1>2. CASE Drive
  BY <1>0, <1>2 DEF Drive, Goto, DriverType, ledgerVars
<1>3. CASE EndWork
  BY <1>0, <1>3 DEF EndWork, Goto, DriverType, ledgerVars
<1>4. CASE LeaseFails \/ AppendFails \/ GiveUp \/ Crash
  BY <1>0, <1>4 DEF LeaseFails, AppendFails, GiveUp, Crash, DriverType
<1>5. CASE Settle
  BY <1>0, <1>5 DEF Settle, DriverType
<1>6. CASE Finish \/ StartDriver
  BY <1>0, <1>6 DEF Finish, StartDriver, DriverType
<1>7. CASE Schedule
  BY <1>0, <1>7 DEF Schedule, DriverType
<1>8. CASE DriveReconcile
  BY <1>0, <1>8 DEF DriveReconcile, DriverType
<1>9. CASE ReadLeases \/ EndBeat \/ EndStarting
  BY <1>0, <1>9 DEF ReadLeases, EndBeat, EndStarting, Goto, DriverType
<1>10. CASE Check
  BY <1>0, <1>10 DEF Check, Goto, Abort, DriverType
<1>11. CASE Launch \/ LaunchFails \/ Artifact
  BY <1>0, <1>11 DEF Launch, LaunchFails, Artifact, DriverType
<1>12. CASE Observe \/ Timeout
  BY <1>0, <1>12 DEF Observe, Timeout, Attended, DriverType
<1>13. CASE Report \/ Stamp \/ Running \/ WithinLimit \/ Publish
  BY <1>0, <1>13 DEF Report, Stamp, Running, WithinLimit, Publish, Attended,
             DriverType
<1>14. CASE \E t \in Tasks : Lease(t) \/ Beat(t) \/ RejectLaunch(t) \/ Fence(t)
  BY <1>0, <1>14 DEF Lease, Beat, RejectLaunch, Fence, Goto, DriverType
<1>15. CASE \E t \in Tasks : Activate(t) \/ RefuseLaunch(t) \/ Attend(t)
  BY <1>0, <1>15 DEF Activate, RefuseLaunch, Attend, Abort, DriverType
<1>16. CASE Request \/ (\E o \in Operators : Operator(o))
  BY <1>16 DEF Request, Interrupt, StopRun, ResumeRun, RestartWorker, Operator, RestartCommit,
     RestartTorn, ResumeRead, ResumeRetry, ResumeAlert, StopTask, ResumeMark
<1>17. CASE Clock \/ (\E o \in Operators : OperatorDies(o))
            \/ (\E t \in Tasks : Exit(t) \/ OrphanDies(t)) \/ UNCHANGED fleetVars
  BY <1>17 DEF Clock, OperatorDies, Exit, OrphanDies, fleetVars
<1> QED
  BY <1>1, <1>2, <1>3, <1>4, <1>5, <1>6, <1>7, <1>8, <1>9, <1>10, <1>11, <1>12, <1>13,
     <1>14, <1>15, <1>16, <1>17 DEF Next, Driver, Environment

\* What a step has to show for the records.
LEMMA RecordsNext ==
  ASSUME FleetInv, RecordInv, [Next]_fleetVars,
         \A t \in Tasks : /\ Sound(task'[t], disk'[t]) /\ Sound(task'[t], rec'[t])
                          /\ Agree(t)'
  PROVE  RecordInv'
<1>1. StepOK
  BY StepsOK
<1>2. ASSUME drv'.pc \in Looking
      PROVE  Current(drv.snap)'
  <2>1. CASE drv' = drv
    <3>1. drv.snap \in Snaps /\ Behind(drv.snap) /\ Current(drv.snap)
      BY <1>2, <2>1, DriverFacts DEF RecordInv
    <3>2. ASSUME NEW t \in Tasks, Leased(task'[t]), drv.snap[t].attempts = task'[t].attempts
          PROVE  ~Closed(drv.snap[t])
      BY <1>1, <3>1, <3>2, CurrentLasts DEF Current
    <3> QED
      BY <2>1, <3>2 DEF Current
  <2>2. CASE drv'.snap = View /\ UNCHANGED task
    BY <2>2, ViewCurrent DEF Current
  <2> QED
    BY <1>2, <2>1, <2>2, LookStep
<1> QED
  BY <1>2 DEF RecordInv
LEMMA RecordsStay ==
  ASSUME FleetInv, RecordInv, [Next]_fleetVars, UNCHANGED <<disk, rec>>
  PROVE  RecordInv'
<1>1. ASSUME NEW t \in Tasks
      PROVE  /\ Sound(task'[t], disk[t]) /\ Sound(task'[t], rec[t])
  BY StepsOK, SoundLasts, Numbers DEF RecordInv
<1>2. \A t \in Tasks : Agree(t)'
  BY DEF RecordInv, Agree
<1> QED
  BY <1>1, <1>2, RecordsNext

\* The driver reconciles with a snapshot that is not ahead of the ledger.
LEMMA ReconcilingRecords ==
  ASSUME FleetInv, RecordInv, [Next]_fleetVars, UNCHANGED task,
         NEW snap \in Snaps, Behind(snap), Current(snap), NEW ev, Reconcile(snap, ev)
  PROVE  RecordInv'
<1>1. \A t \in Tasks : /\ Sound(task[t], disk'[t]) /\ Sound(task[t], rec'[t])
                       /\ disk'[t] = rec'[t] \/ ClosedAtLease(disk'[t])
  BY ReconcileRecords
<1>2. \A t \in Tasks : Agree(t)'
  BY <1>1 DEF Agree
<1> QED
  BY <1>1, <1>2, RecordsNext

LEMMA TaskSnapshot ==
  ASSUME FleetInv
  PROVE  task \in Snaps /\ Behind(task) /\ Current(task)
<1>1. task \in Snaps
  BY TypeFacts DEF LedgerOK, Snaps
<1>2. Behind(task)
  BY Numbers DEF Behind
<1>3. Current(task)
  BY DEF Current, Leased, Closed
<1> QED
  BY <1>1, <1>2, <1>3

LEMMA ReconcilersRecords ==
  ASSUME FleetInv, RecordInv, [Next]_fleetVars,
         Schedule \/ DriveReconcile \/ Settle \/ Finish
  PROVE  RecordInv'
<1>1. UNCHANGED task
  BY DEF Schedule, DriveReconcile, Settle, Finish, ledgerVars
<1>2. ASSUME drv.pc \in Looking
      PROVE  drv.snap \in Snaps /\ Behind(drv.snap) /\ Current(drv.snap)
  BY <1>2, DriverFacts DEF RecordInv
<1>3. CASE Schedule
  BY <1>1, <1>2, <1>3, ReconcilingRecords DEF Schedule, At, Looking
<1>4. CASE DriveReconcile
  BY <1>1, <1>2, <1>4, ReconcilingRecords DEF DriveReconcile, At, Looking
<1>5. CASE Settle
  BY <1>1, <1>2, <1>5, ReconcilingRecords DEF Settle, At, Looking
<1>6. CASE Finish
  BY <1>1, <1>6, TaskSnapshot, ReconcilingRecords DEF Finish
<1> QED
  BY <1>3, <1>4, <1>5, <1>6

\* One task's records change.
LEMMA OneRecord ==
  ASSUME FleetInv, RecordInv, [Next]_fleetVars, NEW t \in Tasks, NEW d, NEW r,
         disk' = [disk EXCEPT ![t] = d], rec' = rec \/ rec' = [rec EXCEPT ![t] = r],
         rec'[t] = r, Sound(task'[t], d), Sound(task'[t], r),
         r.gen = d.gen => r = d \/ ClosedAtLease(d)
  PROVE  RecordInv'
<1>1. disk \in [Tasks -> RecordType] /\ rec \in [Tasks -> RecordType]
  BY TypeFacts DEF RecordsOK
<1>2. disk'[t] = d /\ \A u \in Tasks : u # t => disk'[u] = disk[u] /\ rec'[u] = rec[u]
  BY <1>1
<1>3. ASSUME NEW u \in Tasks
      PROVE  /\ Sound(task'[u], disk'[u]) /\ Sound(task'[u], rec'[u]) /\ Agree(u)'
  <2>1. CASE u = t
    BY <1>2, <2>1 DEF Agree
  <2>2. CASE u # t
    <3>1. Sound(task'[u], disk[u]) /\ Sound(task'[u], rec[u])
      BY StepsOK, SoundLasts, Numbers DEF RecordInv
    <3>2. Agree(u)
      BY DEF RecordInv
    <3> QED
      BY <1>2, <2>2, <3>1, <3>2 DEF Agree
  <2> QED
    BY <2>1, <2>2
<1> QED
  BY <1>3, RecordsNext

LEMMA RegisteredFields ==
  /\ Registered.gen = 1 /\ Registered.status = "starting" /\ ~Registered.started
  /\ ~Ended(Registered)
<1>1. NoRec \in [gen : {0}, status : {"done"}, prepared : {FALSE}, unsettled : {FALSE},
                 recint : {FALSE}, started : {FALSE}]
  BY DEF NoRec
<1>2. /\ Registered.gen = 1 /\ Registered.status = "starting"
      /\ Registered.started = NoRec.started
  BY <1>1 DEF Registered
<1> QED
  BY <1>1, <1>2 DEF Ended

\* What a registration leaves in the store of a task that was never leased.
LEMMA RegistrationKept ==
  ASSUME FleetInv, RecordInv, NEW t \in Tasks, task[t].attempts = 0,
         NEW m, m = Merged(disk[t], Registered)
  PROVE  \/ m = Registered
         \/ m = disk[t] /\ m.gen = 1 /\ m.status = "interrupted" /\ ClosedAtLease(m)
<1> SUFFICES ASSUME m # Registered
             PROVE  /\ m = disk[t] /\ disk[t].gen = 1 /\ disk[t].status = "interrupted"
                    /\ ClosedAtLease(disk[t])
  OBVIOUS
<1>1. m = disk[t] /\ Ended(disk[t]) /\ Registered.gen <= disk[t].gen
  BY DEF Merged
<1>2. disk[t].gen = 1
  BY <1>1, Numbers, RegisteredFields
<1>3. Sound(task[t], disk[t]) /\ disk[t].gen > task[t].attempts
  BY <1>2 DEF RecordInv
<1> QED
  BY <1>1, <1>2, <1>3 DEF Sound, Ended, ClosedAtLease

LEMMA LeaseRecords ==
  ASSUME FleetInv, RecordInv, [Next]_fleetVars, NEW t \in Tasks, Lease(t)
  PROVE  RecordInv'
<1>1. PICK m : m = Merged(disk[t], Registered)
  OBVIOUS
<1>2. /\ t \in Admissible /\ task[t].attempts = 0
      /\ rec' = [rec EXCEPT ![t] = Registered] /\ disk' = [disk EXCEPT ![t] = m]
      /\ task' = Leasing(t, clock)
  BY <1>1, Unstarted DEF Lease
<1>3. 0 + 1 \in 0..(MaxCalls + 1)
  BY FleetAssumption
<1>4. task'[t].attempts = 1
  BY <1>2, <1>3, LeasingOK, TypeFacts
<1>5. rec'[t] = Registered
  BY <1>2, TypeFacts DEF RecordsOK
<1>6. Sound(task'[t], Registered)
  BY <1>4, RegisteredFields DEF Sound
<1>7. \/ m = Registered
      \/ m.gen = 1 /\ m.status = "interrupted" /\ ClosedAtLease(m)
  BY <1>1, <1>2, RegistrationKept
<1>8. Sound(task'[t], m)
  BY <1>4, <1>6, <1>7 DEF Sound, ClosedAtLease
<1> QED
  BY <1>2, <1>5, <1>6, <1>7, <1>8, OneRecord

LEMMA ActivateRecords ==
  ASSUME FleetInv, RecordInv, [Next]_fleetVars, NEW t \in Tasks, Activate(t)
  PROVE  RecordInv'
<1>1. PICK r : r = Refreshed(t)
  OBVIOUS
<1>2. PICK p : p = Activated(r)
  OBVIOUS
<1>3. PICK m : m = Merged(disk[t], p)
  OBVIOUS
<1>4. /\ rec' = [rec EXCEPT ![t] = p] /\ disk' = [disk EXCEPT ![t] = m] /\ UNCHANGED task
      /\ Launchable(r, drv.snap[t].attempts) /\ t \in drv.todo /\ drv.pc = "start"
  BY <1>1, <1>2, <1>3 DEF Activate, At, ledgerVars
<1>5. drv.snap[t].attempts > 0 /\ drv.snap[t].attempts <= task[t].attempts
  BY <1>4, TypeFacts DEF DriverOK, Behind
<1>6. Sound(task[t], r) /\ Good(r)
  BY <1>1, RefreshedSound
<1>7. p.gen = r.gen /\ p.status = "starting"
  <2>1. r \in RecordType /\ r.status = "starting"
    BY <1>4, <1>6 DEF Good, Launchable
  <2> QED
    BY <1>2, <2>1 DEF Activated, RecordType
<1>8. r.gen = drv.snap[t].attempts /\ ~Ended(r)
  BY <1>4 DEF Launchable, Ended
<1>9. p.gen # 0 /\ ~(p.gen > task[t].attempts)
  BY <1>5, <1>7, <1>8, Numbers, DriverFacts, TaskFields DEF Snaps
<1>10. Sound(task[t], p)
  BY <1>7, <1>9 DEF Sound
<1>11. m = p \/ (m = disk[t] /\ ClosedAtLease(m))
  BY <1>1, <1>3, <1>8, PublishedAgrees
<1>12. Sound(task[t], m)
  BY <1>10, <1>11 DEF RecordInv
<1>13. rec'[t] = p
  BY <1>4, TypeFacts DEF RecordsOK
<1> QED
  BY <1>4, <1>10, <1>11, <1>12, <1>13, OneRecord

LEMMA RefuseLaunchRecords ==
  ASSUME FleetInv, RecordInv, [Next]_fleetVars, NEW t \in Tasks, RefuseLaunch(t)
  PROVE  RecordInv'
<1>1. UNCHANGED <<task, disk>> /\ (rec' = rec \/ rec' = disk)
  BY DEF RefuseLaunch, ledgerVars
<1>2. CASE rec' = rec
  BY <1>1, <1>2, RecordsStay
<1>3. CASE rec' = disk
  BY <1>1, <1>3, RecordsNext DEF RecordInv, Agree
<1> QED
  BY <1>1, <1>2, <1>3

LEMMA CrashRecords ==
  ASSUME FleetInv, RecordInv, [Next]_fleetVars, Crash
  PROVE  RecordInv'
<1>1. /\ UNCHANGED task /\ rec' = [t \in Tasks |-> NoRec]
      /\ disk' = disk \/ \E t \in Admissible :
                            disk' = [disk EXCEPT ![t] = Merged(disk[t], Registered)]
  BY DEF Crash, ledgerVars
<1>2. ASSUME NEW t \in Tasks
      PROVE  Sound(task[t], NoRec)
  <2>1. NoRec.gen = 0 /\ NoRec.status = "done"
    BY DEF NoRec
  <2>2. Leased(task[t]) => task[t].attempts # 0
    BY TypeFacts DEF LedgerOK, Leased
  <2> QED
    BY <2>1, <2>2, Numbers DEF Sound
<1>3. ASSUME NEW t \in Tasks
      PROVE  Sound(task[t], disk'[t])
  <2>1. Sound(task[t], disk[t])
    BY DEF RecordInv
  <2>2. CASE disk' = disk
    BY <2>1, <2>2
  <2>3. CASE disk' # disk
    <3>1. PICK u \in Admissible : disk' = [disk EXCEPT ![u] = Merged(disk[u], Registered)]
      BY <1>1, <2>3
    <3>2. u \in Tasks /\ task[u].attempts = 0
      BY Unstarted
    <3>3. Merged(disk[u], Registered) \in {disk[u], Registered}
      BY MergedOne
    <3>4. Sound(task[u], Registered)
      <4>1. ~Leased(task[u])
        BY <3>2, TypeFacts DEF LedgerOK, Leased
      <4> QED
        BY <4>1, RegisteredFields DEF Sound
    <3>5. CASE t = u
      <4>1. disk'[t] \in {disk[t], Registered}
        BY <3>1, <3>2, <3>3, <3>5, TypeFacts DEF RecordsOK
      <4> QED
        BY <2>1, <3>4, <3>5, <4>1
    <3>6. CASE t # u
      BY <2>1, <3>1, <3>6
    <3> QED
      BY <3>5, <3>6
  <2> QED
    BY <2>2, <2>3
<1>4. ASSUME NEW t \in Tasks
      PROVE  Agree(t)'
  BY <1>1, <1>3 DEF Agree, Sound, NoRec
<1> QED
  BY <1>1, <1>2, <1>3, <1>4, RecordsNext

LEMMA RecoveredSound ==
  ASSUME FleetInv, NEW t \in Tasks, NEW r, Good(r), Sound(task[t], r)
  PROVE  Sound(task[t], Recovered(r))
<1>1. CASE ~r.prepared /\ r.status \in {"starting", "running"}
  <2>1. PICK p : p = [r EXCEPT !.status = "interrupted", !.recint = TRUE]
    OBVIOUS
  <2>2. /\ p.gen = r.gen /\ p.status = "interrupted" /\ p.recint
        /\ p.started = r.started
    BY <2>1 DEF Good, RecordType
  <2>3. r.gen # 0
    BY <1>1 DEF Sound, NoRec
  <2>4. Recovered(r) = p
    BY <1>1, <2>1 DEF Recovered
  <2> QED
    BY <2>2, <2>3, <2>4 DEF Sound
<1>2. CASE ~(~r.prepared /\ r.status \in {"starting", "running"})
  BY <1>2 DEF Recovered
<1> QED
  BY <1>1, <1>2

LEMMA StartDriverRecords ==
  ASSUME FleetInv, RecordInv, [Next]_fleetVars, StartDriver
  PROVE  RecordInv'
<1>1. UNCHANGED task /\ disk' = [t \in Tasks |-> Recovered(disk[t])] /\ rec' = disk'
  BY DEF StartDriver, ledgerVars
<1>2. \A t \in Tasks : Sound(task[t], Recovered(disk[t]))
  BY RecoveredSound, TypeFacts DEF RecordInv
<1> QED
  BY <1>1, <1>2, RecordsNext DEF Agree

\* A restart prepares a generation that is ahead of the driver's memory, or
\* takes the one that was prepared.
LEMMA PrepareRecords ==
  ASSUME FleetInv, RecordInv, [Next]_fleetVars, UNCHANGED rec,
         NEW t \in Tasks, NEW a, a = task[t].attempts, a > 0,
         Preparable(Found(t), a), disk' = [disk EXCEPT ![t] = PreparedFor(Found(t), a)],
         NEW now \in 0..MaxTime, task' = task \/ task' = Leasing(t, now)
  PROVE  RecordInv'
<1>1. PICK f : f = Found(t)
  OBVIOUS
<1>2. PICK r : r = PreparedFor(f, a)
  OBVIOUS
<1>3. Heir(t, f) /\ Good(f) /\ f.gen = disk[t].gen /\ f \in RecordType
  BY <1>1, FoundOK DEF Heir, Good
<1>4. Sound(task[t], disk[t]) /\ Sound(task[t], rec[t]) /\ Agree(t)
  BY DEF RecordInv
<1>5. disk[t].gen \in Nat /\ rec[t].gen \in Nat /\ a \in Nat /\ rec[t].gen <= disk[t].gen
  BY Numbers
<1>6. CASE f.gen = a
  <2>1. r.gen = a + 1 /\ r.status = "starting" /\ ~r.started
    <3>1. r = [f EXCEPT !.gen = f.gen + 1, !.status = "starting", !.prepared = TRUE,
                        !.recint = FALSE, !.started = FALSE,
                        !.unsettled = f.unsettled \/ ~Settled(f)]
      BY <1>2, <1>6 DEF PreparedFor, Prepared
    <3> QED
      BY <1>3, <1>6, <3>1 DEF RecordType
  <2>2. r.gen # 0 /\ r.gen # rec[t].gen
    BY <1>3, <1>5, <1>6, <2>1
  <2>3. Sound(task'[t], r)
    BY <2>1, <2>2 DEF Sound
  <2>4. Sound(task'[t], rec'[t])
    BY <1>4, <1>5, StepsOK, SoundLasts
  <2> QED
    BY <1>1, <1>2, <2>2, <2>3, <2>4, OneRecord
<1>7. CASE f.gen = a + 1
  <2>1. f.prepared
    BY <1>3, <1>5, <1>7 DEF Heir, PreparedAhead
  <2>2. f = disk[t]
    <3>1. CASE Recovered(disk[t]) = f
      <4>1. Good(disk[t])
        BY TypeFacts
      <4>2. disk[t].prepared
        BY <2>1, <3>1, <4>1, RecoveredOK
      <4> QED
        BY <3>1, <4>2 DEF Recovered
    <3> QED
      BY <1>1, <3>1 DEF Found
  <2>3. r = f
    BY <1>2, <1>5, <1>7 DEF PreparedFor
  <2>4. disk' = disk
    BY <1>1, <1>2, <2>2, <2>3, TypeFacts DEF RecordsOK
  <2> QED
    BY <2>4, RecordsStay
<1> QED
  BY <1>1, <1>6, <1>7 DEF Preparable

LEMMA RestartRecords ==
  ASSUME FleetInv, RecordInv, [Next]_fleetVars, NEW o \in Operators,
         RestartCommit(o) \/ RestartTorn(o) \/ ResumeRetry(o)
  PROVE  RecordInv'
<1>1. UNCHANGED rec
  BY DEF RestartCommit, RestartTorn, ResumeRetry
<1>2. op[o].now \in 0..MaxTime /\ clock \in 0..MaxTime
  BY CallFacts, TypeFacts
<1>3. \/ UNCHANGED disk
      \/ \E t \in op[o].todo :
            /\ Unchanged(t, op[o].snap[t]) /\ Preparable(Found(t), op[o].snap[t].attempts)
            /\ disk' = [disk EXCEPT ![t] = PreparedFor(Found(t), op[o].snap[t].attempts)]
            /\ op[o].call \in {"restart", "mark", "retry"}
            /\ task' = task \/ task' = Leasing(t, clock) \/ task' = Leasing(t, op[o].now)
  <2>1. CASE RestartCommit(o)
    BY <2>1 DEF RestartCommit, Restarted
  <2>2. CASE RestartTorn(o)
    BY <2>2 DEF RestartTorn, ledgerVars
  <2>3. CASE ResumeRetry(o)
    <3>1. op[o].call = "retry" => op[o].cur \in op[o].todo
      BY CallFacts DEF CallOK
    <3> QED
      BY <2>3, <3>1 DEF ResumeRetry, Restarted
  <2> QED
    BY <2>1, <2>2, <2>3
<1>4. CASE UNCHANGED disk
  BY <1>1, <1>4, RecordsStay
<1>5. CASE ~UNCHANGED disk
  <2>1. PICK t \in op[o].todo :
            /\ Unchanged(t, op[o].snap[t]) /\ Preparable(Found(t), op[o].snap[t].attempts)
            /\ disk' = [disk EXCEPT ![t] = PreparedFor(Found(t), op[o].snap[t].attempts)]
            /\ op[o].call \in {"restart", "mark", "retry"}
            /\ task' = task \/ task' = Leasing(t, clock) \/ task' = Leasing(t, op[o].now)
    BY <1>3, <1>5
  <2>2. t \in Tasks /\ task[t].attempts = op[o].snap[t].attempts /\ task[t].attempts > 0
    BY <2>1, RestartFacts
  <2>3. PICK a : a = task[t].attempts
    OBVIOUS
  <2>4. /\ Preparable(Found(t), a) /\ a > 0
        /\ disk' = [disk EXCEPT ![t] = PreparedFor(Found(t), a)]
    BY <2>1, <2>2, <2>3
  <2> QED
    BY <1>1, <1>2, <2>1, <2>2, <2>3, <2>4, PrepareRecords
<1> QED
  BY <1>4, <1>5

LEMMA InitRecords == Init => RecordInv
<1> SUFFICES ASSUME Init
             PROVE  RecordInv
  OBVIOUS
<1>1. /\ task = [t \in Tasks |-> NewTask] /\ disk = [t \in Tasks |-> NoRec]
      /\ rec = [t \in Tasks |-> NoRec] /\ drv = [Down EXCEPT !.pc = "idle"]
  BY DEF Init
<1>2. /\ NewTask.status = "enqueued" /\ NewTask.attempts = 0
      /\ NoRec.gen = 0 /\ NoRec.status = "done"
  BY DEF NewTask, NoRec
<1>3. drv.pc = "idle"
  BY <1>1, DownOK DEF DriverType
<1> QED
  BY <1>1, <1>2, <1>3 DEF RecordInv, Sound, Agree, Leased, Looking

LEMMA RecordSteps ==
  ASSUME FleetInv, RecordInv, [Next]_fleetVars
  PROVE  RecordInv'
<1>1. CASE Schedule \/ DriveReconcile \/ Settle \/ Finish
  BY <1>1, ReconcilersRecords
<1>2. CASE Crash \/ StartDriver
  BY <1>2, CrashRecords, StartDriverRecords
<1>3. CASE \E t \in Tasks : Lease(t) \/ Activate(t) \/ RefuseLaunch(t)
  BY <1>3, LeaseRecords, ActivateRecords, RefuseLaunchRecords
<1>4. CASE \E o \in Operators : RestartCommit(o) \/ RestartTorn(o) \/ ResumeRetry(o)
  BY <1>4, RestartRecords
<1>5. CASE UNCHANGED recordVars
  BY <1>5, RecordsStay DEF recordVars
<1>6. ASSUME Driver
      PROVE  RecordInv'
  <2>1. CASE \/ BeginTick \/ ReadLeases \/ EndBeat \/ LeaseFails \/ Drive \/ Check \/ Launch
             \/ LaunchFails \/ Artifact \/ EndStarting \/ Observe \/ Report \/ Stamp
             \/ Running \/ WithinLimit \/ Timeout \/ Publish \/ AppendFails \/ EndWork \/ GiveUp
             \/ \E t \in Tasks : Beat(t) \/ RejectLaunch(t) \/ Fence(t) \/ Attend(t)
    BY <1>5, <2>1
       DEF BeginTick, ReadLeases, EndBeat, LeaseFails, Drive, Check, Launch, LaunchFails,
           Artifact, EndStarting, Observe, Report, Stamp, Running, WithinLimit, Timeout,
           Publish, AppendFails, EndWork, GiveUp, Beat, RejectLaunch, Fence, Attend, recordVars
  <2> QED
    BY <1>1, <1>3, <1>6, <2>1 DEF Driver
<1>7. ASSUME Request \/ (\E o \in Operators : Operator(o))
      PROVE  RecordInv'
  <2>1. CASE \/ Request
             \/ \E o \in Operators : ResumeRead(o) \/ ResumeAlert(o)
             \/ \E o \in Operators, t \in Tasks : StopTask(o, t) \/ ResumeMark(o, t)
    BY <1>5, <2>1
       DEF Request, Interrupt, StopRun, ResumeRun, RestartWorker, ResumeRead, ResumeAlert,
           StopTask, ResumeMark
  <2> QED
    BY <1>4, <1>7, <2>1 DEF Operator
<1>8. ASSUME Environment \/ UNCHANGED fleetVars
      PROVE  RecordInv'
  <2>1. CASE \/ Clock \/ UNCHANGED fleetVars
             \/ (\E o \in Operators : OperatorDies(o))
             \/ (\E t \in Tasks : Exit(t) \/ OrphanDies(t))
    BY <1>5, <2>1 DEF Clock, OperatorDies, Exit, OrphanDies, fleetVars
  <2> QED
    BY <1>2, <1>8, <2>1 DEF Environment
<1> QED
  BY <1>6, <1>7, <1>8 DEF Next

\* Whatever driver, operators and crashes do, a lease keeps a record of its own
\* generation that has not ended as a finished worker, and a driver's memory
\* differs from the store on a generation only where the store kept the record
\* that a recovery closed before the lease (start_worker_task,
\* restart_task_if_unchanged_with_callback, merge_publish).
THEOREM LeasesRecorded == Spec => []LeaseHasRecord
<1>1. FleetInv /\ RecordInv => LeaseHasRecord
  BY DEF FleetInv, RecordInv, LeaseNumbered, LeaseHasRecord, Sound, Agree
<1>2. FleetInv /\ FleetInv' /\ RecordInv /\ [Next]_fleetVars => RecordInv'
  BY RecordSteps
<1> QED
  BY <1>1, <1>2, InitRecords, FleetInvariant, PTL DEF Spec
=============================================================================
