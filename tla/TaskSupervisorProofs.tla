------------------------ MODULE TaskSupervisorProofs ------------------------
(***************************************************************************)
(* Theorems about one task execution, for every value of the limits.  They *)
(* rest on one inductive invariant, SupervisorInv: the types, the clocks   *)
(* of the supervisor's loop, and what is known of the channel, the blocked *)
(* event and the driver's sleep at each position of the two loops.         *)
(***************************************************************************)
EXTENDS TaskSupervisor, SequenceTheorems, TLAPS

-----------------------------------------------------------------------------
(* The inductive invariant. *)

\* A guard has a reason exactly when it has interrupted the execution.
ReasonNamed(g) == g.at = Never <=> g.reason = "none"

\* What the supervisor knows about its own deadlines.
Clocks ==
    /\ sup.guard.started = 0
    /\ ReasonNamed(sup.guard)
    /\ sup.guard.at <= now /\ asked <= now /\ sup.dirty <= now
    /\ sup.nextPoll <= now + Refresh
    /\ sup.persistAt <= now + PersistDebounce
    /\ sup.pc = "select" => now <= sup.wakeAt /\ sup.wakeAt <= now + Refresh

\* The wall time runs until the interrupt, the grace from there on.
WallClock ==
    /\ sup.guard.at <= WallTime + stalls
    /\ sup.pc = "select" =>
          sup.wakeAt <= (IF sup.guard.at = Never THEN WallTime
                         ELSE sup.guard.at + CancelGrace)
    /\ InLoop /\ sup.guard.at = Never => now <= WallTime + stalls
    /\ InLoop => now <= WallTime + CancelGrace + stalls

\* The instant by which a request has been seen.
SeenBy == asked + 2 * Refresh - 1 + stalls

\* A request is seen by the poll after next, and interrupts there.
CancelClock ==
    asked # Never =>
        /\ ~cancel => sup.nextPoll <= asked + Refresh
        /\ sup.guard.at <= SeenBy
        /\ InLoop /\ sup.guard.at = Never => now <= SeenBy
        /\ sup.pc = "select" /\ sup.guard.at = Never => sup.wakeAt <= SeenBy
        /\ sup.pc \in {"retry", "guard", "queued"} /\ sup.guard.at = Never /\ ~cancel
              => now <= asked + Refresh - 1 + stalls
        /\ InLoop => now <= SeenBy + CancelGrace

\* An unwritten change has its deadline from the next select on.
WriteClock ==
    InLoop /\ sup.dirty # Never /\ faults = 0 =>
        /\ sup.persistAt # Never =>
              sup.persistAt <= sup.dirty + PersistDebounce + stalls
        /\ sup.persistAt = Never => sup.pc # "select" /\ now <= sup.dirty + stalls
        /\ now <= sup.dirty + PersistDebounce + stalls

\* A refused event cancels the execution; a heartbeat is never refused.
Refusals ==
    /\ InLoop /\ sup.blocked # NoEvent => cancel
    /\ sup.blocked # NoEvent => sup.blocked.kind # "heartbeat"

HeartbeatQueued == \E i \in DOMAIN channel : channel[i].kind = "heartbeat"

\* The driver's guard and sleep, and the heartbeats of a running tool.
DriverClock ==
    /\ drv.guard.at <= now
    /\ drv.pc \in {"stop", "interrupt"} => drv.result \in InterruptReasons
    /\ drv.pc = "evaluate" => drv.guard.at <= drv.checked
    /\ drv.pc = "evaluate" /\ drv.sending = <<>> => sup.pc = "select"
    /\ drv.pc = "evaluate" /\ drv.tool =>
          \/ drv.sending = <<"heartbeat">>
          \/ drv.sending = <<>> /\ HeartbeatQueued
    /\ drv.pc = "sleep" =>
          now <= drv.wakeAt + stalls /\ drv.wakeAt <= now + DriverNap
    /\ drv.pc = "sleep" /\ drv.tool =>
          HeartbeatQueued \/ drv.wakeAt <= sup.guard.progress + DriverNap

\* The idle drain takes what was queued when it began.
DrainCount == sup.pc = "queued" => cancel \/ sup.left = Len(channel)

SupervisorInv ==
    /\ SupervisorTypeOK
    /\ Clocks /\ WallClock /\ CancelClock /\ WriteClock
    /\ Refusals /\ EventOrder
    /\ DriverClock /\ DrainCount

-----------------------------------------------------------------------------
(* The operators of the model. *)

\* The least of two and of three numbers.
LEMMA MinOfTwo ==
  ASSUME NEW a \in Int, NEW b \in Int
  PROVE  Min({a, b}) \in {a, b} /\ Min({a, b}) <= a /\ Min({a, b}) <= b
<1>1. \E x \in {a, b} : \A y \in {a, b} : x <= y
  <2>1. CASE a <= b
    BY <2>1
  <2>2. CASE b <= a
    BY <2>2
  <2> QED
    BY <2>1, <2>2
<1> QED
  BY <1>1 DEF Min

LEMMA MinOfThree ==
  ASSUME NEW a \in Int, NEW b \in Int, NEW c \in Int
  PROVE  /\ Min({a, b, c}) \in {a, b, c}
         /\ Min({a, b, c}) <= a /\ Min({a, b, c}) <= b /\ Min({a, b, c}) <= c
<1>1. \E x \in {a, b, c} : \A y \in {a, b, c} : x <= y
  <2>1. CASE a <= b /\ a <= c
    BY <2>1
  <2>2. CASE b <= a /\ b <= c
    BY <2>2
  <2>3. CASE c <= a /\ c <= b
    BY <2>3
  <2> QED
    BY <2>1, <2>2, <2>3
<1> QED
  BY <1>1 DEF Min

\* The limits are positive numbers.
LEMMA LimitsPositive ==
  /\ WallTime \in Nat /\ IdleProgress \in Nat /\ CancelGrace \in Nat
  /\ PersistDebounce \in Nat /\ Refresh \in Nat /\ BusyRetry \in Nat
  /\ ApprovalWindow \in Nat /\ ChannelCap \in Nat /\ Horizon \in Nat
  /\ MaxStalls \in Nat /\ MaxFaults \in Nat /\ MaxJournal \in Nat
  /\ WallTime > 0 /\ IdleProgress > 0 /\ CancelGrace > 0 /\ PersistDebounce > 0
  /\ Refresh > 0 /\ BusyRetry > 0 /\ ApprovalWindow > 0 /\ ChannelCap > 0
BY LimitsAssumption

\* The reason evaluate finds: none before both deadlines, and the idle
\* deadline only when it has passed, with no request to stop.
LEMMA ReasonFound ==
  ASSUME NEW g \in GuardType, NEW t \in Int, NEW canceled \in BOOLEAN,
         NEW stopping \in BOOLEAN
  PROVE  LET r == PendingReason(g, t, canceled, stopping)
         IN  /\ r \in InterruptReasons \cup {"none"}
             /\ r = "none" => /\ ~canceled /\ ~stopping
                              /\ t < g.started + WallTime
                              /\ t < g.progress + IdleProgress
             /\ r = "idle_timeout" => /\ ~canceled /\ ~stopping
                                      /\ t >= g.progress + IdleProgress
<1>1. g.started \in Int /\ g.progress \in Int
  BY LimitsPositive DEF GuardType, Time
<1>2. CASE stopping
  BY <1>2 DEF PendingReason, InterruptReasons
<1>3. CASE ~stopping /\ canceled
  BY <1>3 DEF PendingReason, InterruptReasons
<1>4. CASE ~stopping /\ ~canceled
  BY <1>1, <1>4, LimitsPositive DEF PendingReason, InterruptReasons
<1> QED
  BY <1>2, <1>3, <1>4

\* What evaluate says: run on until the next deadline, interrupt for a
\* reason, or end when the grace is spent.
Verdict(g, t, canceled, stopping, act) ==
    /\ act.do \in {"run", "interrupt", "terminalize"}
    /\ act.reason \in Reasons
    /\ act.wait \in Int
    /\ act.do = "run" =>
          /\ act.wait > 0
          /\ g.at # Never => act.wait = g.at + CancelGrace - t
          /\ g.at = Never => /\ ~canceled /\ ~stopping
                             /\ act.wait <= Refresh
                             /\ t + act.wait <= g.started + WallTime
    /\ act.do = "interrupt" =>
          /\ g.at = Never
          /\ act.reason \in InterruptReasons
          /\ act.reason = "idle_timeout" => /\ ~canceled /\ ~stopping
                                            /\ t >= g.progress + IdleProgress
    /\ act.do = "terminalize" => g.at # Never

LEMMA Evaluated ==
  ASSUME NEW g \in GuardType, NEW t \in Int, NEW canceled \in BOOLEAN,
         NEW stopping \in BOOLEAN
  PROVE  Verdict(g, t, canceled, stopping, Evaluate(g, t, canceled, stopping))
<1>1. g.started \in Int /\ g.progress \in Int /\ g.at \in Int
      /\ g.reason \in InterruptReasons \cup {"none"}
  BY LimitsPositive DEF GuardType, Time, Moment, Never
<1> SUFFICES ASSUME NEW act, act = Evaluate(g, t, canceled, stopping)
             PROVE  Verdict(g, t, canceled, stopping, act)
  OBVIOUS
<1>2. CASE g.at # Never /\ t - g.at >= CancelGrace
  <2>1. act = Terminalize(AfterGrace(g.reason))
    BY <1>2 DEF Evaluate
  <2>2. AfterGrace(g.reason) \in Reasons
    BY <1>1 DEF AfterGrace, Reasons, InterruptReasons
  <2> QED
    BY <1>2, <2>1, <2>2 DEF Verdict, Terminalize
<1>3. CASE g.at # Never /\ ~(t - g.at >= CancelGrace)
  <2>1. act = Run(CancelGrace - (t - g.at))
    BY <1>3 DEF Evaluate
  <2> QED
    BY <1>1, <1>3, <2>1, LimitsPositive DEF Verdict, Run, Reasons
<1>4. CASE g.at = Never
  <2> DEFINE r == PendingReason(g, t, canceled, stopping)
             wait == Min({g.started + WallTime - t,
                          g.progress + IdleProgress - t, Refresh})
  <2>1. act = IF r # "none" THEN Interrupt(r) ELSE Run(wait)
    BY <1>4 DEF Evaluate
  <2>2. /\ r \in InterruptReasons \cup {"none"}
        /\ r = "none" => /\ ~canceled /\ ~stopping
                         /\ t < g.started + WallTime
                         /\ t < g.progress + IdleProgress
        /\ r = "idle_timeout" => /\ ~canceled /\ ~stopping
                                 /\ t >= g.progress + IdleProgress
    BY ReasonFound
  <2>3. /\ wait \in {g.started + WallTime - t, g.progress + IdleProgress - t, Refresh}
        /\ wait <= g.started + WallTime - t /\ wait <= Refresh
    <3>1. /\ g.started + WallTime - t \in Int /\ g.progress + IdleProgress - t \in Int
          /\ Refresh \in Int
      BY <1>1, LimitsPositive
    <3> QED
      BY <3>1, MinOfThree, Zenon
  <2> HIDE DEF r, wait
  <2>4. CASE r # "none"
    BY <1>4, <2>1, <2>2, <2>4 DEF Verdict, Interrupt, Reasons
  <2>5. CASE r = "none"
    BY <1>1, <1>4, <2>1, <2>2, <2>3, <2>5, LimitsPositive DEF Verdict, Run, Reasons
  <2> QED
    BY <2>4, <2>5
<1> QED
  BY <1>2, <1>3, <1>4

\* The locals no task event touches.
Steady(s, t) ==
    /\ t.pc = s.pc /\ t.persistAt = s.persistAt /\ t.nextPoll = s.nextPoll
    /\ t.nextRetry = s.nextRetry /\ t.wakeAt = s.wakeAt /\ t.left = s.left
    /\ t.guard.started = s.guard.started /\ t.guard.at = s.guard.at
    /\ t.guard.reason = s.guard.reason

\* What process_execution_event does to the supervisor's locals: a heartbeat
\* is progress and nothing else, a refused event is kept, an accepted one is
\* the last applied.
Processed(s, e, a) ==
    /\ a.failed \in BOOLEAN /\ a.refused \in BOOLEAN
    /\ a.sup \in SupervisorType
    /\ Steady(s, a.sup)
    /\ a.sup.guard.progress \in {s.guard.progress, now}
    /\ \/ a.sup.dirty \in {s.dirty, Never}
       \/ s.dirty = Never /\ a.sup.dirty = now
    /\ e.kind = "heartbeat" =>
          /\ ~a.failed /\ ~a.refused
          /\ a.sup.guard.progress = now
          /\ a.sup.blocked = s.blocked /\ a.sup.applied = s.applied
    /\ e.kind # "heartbeat" /\ a.refused =>
          a.sup.blocked = e /\ a.sup.applied = s.applied
    /\ e.kind # "heartbeat" /\ ~a.refused =>
          a.sup.blocked = s.blocked /\ a.sup.applied = e.id

LEMMA EventProcessed ==
  ASSUME NEW s \in SupervisorType, NEW e \in Event, now \in Time,
         NEW a \in ProcessEvent(s, e)
  PROVE  Processed(s, e, a)
<1> DEFINE seen == IF e.kind \in ProgressEvents
                   THEN [s EXCEPT !.guard = NoteProgress(@)] ELSE s
           taken == [seen EXCEPT !.applied = e.id]
<1>1. /\ seen \in SupervisorType /\ Steady(s, seen)
      /\ seen.guard.progress \in {s.guard.progress, now}
      /\ seen.dirty = s.dirty /\ seen.blocked = s.blocked
      /\ seen.applied = s.applied
      /\ e.kind = "heartbeat" => seen.guard.progress = now
  <2>1. CASE e.kind \in ProgressEvents
    <3>1. NoteProgress(s.guard) \in GuardType
          /\ NoteProgress(s.guard).progress = now
          /\ NoteProgress(s.guard).started = s.guard.started
          /\ NoteProgress(s.guard).at = s.guard.at
          /\ NoteProgress(s.guard).reason = s.guard.reason
      BY DEF NoteProgress, GuardType, SupervisorType
    <3>2. seen = [s EXCEPT !.guard = NoteProgress(s.guard)]
      BY <2>1
    <3> HIDE DEF seen
    <3> QED
      BY <3>1, <3>2 DEF SupervisorType, Steady
  <2>2. CASE e.kind \notin ProgressEvents
    BY <2>2 DEF Steady, ProgressEvents
  <2> QED
    BY <2>1, <2>2
<1> HIDE DEF seen
<1>2. /\ taken \in SupervisorType /\ Steady(s, taken)
      /\ taken.guard = seen.guard /\ taken.dirty = s.dirty
      /\ taken.blocked = s.blocked /\ taken.applied = e.id
  BY <1>1 DEF SupervisorType, Event, Steady
<1> HIDE DEF taken
<1>3. /\ Cleaned(taken) \in SupervisorType /\ Steady(s, Cleaned(taken))
      /\ Cleaned(taken).guard = seen.guard /\ Cleaned(taken).dirty = Never
      /\ Cleaned(taken).blocked = s.blocked /\ Cleaned(taken).applied = e.id
  BY <1>2 DEF SupervisorType, Steady, Cleaned, Moment
<1>4. /\ Dirtied(taken) \in SupervisorType /\ Steady(s, Dirtied(taken))
      /\ Dirtied(taken).guard = seen.guard
      /\ \/ Dirtied(taken).dirty = s.dirty
         \/ s.dirty = Never /\ Dirtied(taken).dirty = now
      /\ Dirtied(taken).blocked = s.blocked /\ Dirtied(taken).applied = e.id
  <2>1. CASE taken.dirty = Never
    BY <1>2, <2>1 DEF SupervisorType, Steady, Dirtied, Moment
  <2>2. CASE taken.dirty # Never
    BY <1>2, <2>2 DEF Dirtied
  <2> QED
    BY <2>1, <2>2
<1>5. /\ [s EXCEPT !.blocked = e] \in SupervisorType
      /\ Steady(s, [s EXCEPT !.blocked = e])
      /\ [s EXCEPT !.blocked = e].guard = s.guard
      /\ [s EXCEPT !.blocked = e].dirty = s.dirty
      /\ [s EXCEPT !.blocked = e].blocked = e
      /\ [s EXCEPT !.blocked = e].applied = s.applied
  BY DEF SupervisorType, Steady
<1>6. a \in IF e.kind = "heartbeat" THEN {Answer(seen, FALSE, FALSE)}
            ELSE {Answer([s EXCEPT !.blocked = e], FALSE, TRUE),
                  Answer(Cleaned(taken), FALSE, FALSE),
                  Answer(Dirtied(taken), TRUE, FALSE)}
                 \cup (IF e.kind \in UrgentEvents THEN {}
                       ELSE {Answer(Dirtied(taken), FALSE, FALSE)})
  BY DEF ProcessEvent, seen, taken
<1>7. CASE e.kind = "heartbeat"
  <2>1. a.sup = seen /\ a.failed = FALSE /\ a.refused = FALSE
    BY <1>6, <1>7 DEF Answer
  <2> QED
    BY <1>1, <1>7, <2>1 DEF Processed
<1>8. CASE e.kind # "heartbeat" /\ a = Answer([s EXCEPT !.blocked = e], FALSE, TRUE)
  <2>1. a.sup = [s EXCEPT !.blocked = e] /\ a.failed = FALSE /\ a.refused = TRUE
    BY <1>8 DEF Answer
  <2> QED
    BY <1>5, <1>8, <2>1 DEF Processed
<1>9. CASE e.kind # "heartbeat" /\ a = Answer(Cleaned(taken), FALSE, FALSE)
  <2>1. a.sup = Cleaned(taken) /\ a.failed = FALSE /\ a.refused = FALSE
    BY <1>9 DEF Answer
  <2> QED
    BY <1>1, <1>3, <1>9, <2>1 DEF Processed
<1>10. CASE e.kind # "heartbeat" /\ a = Answer(Dirtied(taken), TRUE, FALSE)
  <2>1. a.sup = Dirtied(taken) /\ a.failed = TRUE /\ a.refused = FALSE
    BY <1>10 DEF Answer
  <2> QED
    BY <1>1, <1>4, <1>10, <2>1 DEF Processed
<1>11. CASE e.kind # "heartbeat" /\ a = Answer(Dirtied(taken), FALSE, FALSE)
  <2>1. a.sup = Dirtied(taken) /\ a.failed = FALSE /\ a.refused = FALSE
    BY <1>11 DEF Answer
  <2> QED
    BY <1>1, <1>4, <1>11, <2>1 DEF Processed
<1> QED
  BY <1>6, <1>7, <1>8, <1>9, <1>10, <1>11

-----------------------------------------------------------------------------
(* Numbers of the state, and what the untouched parts keep. *)

LEMMA SupervisorNumbers ==
  ASSUME NEW s \in SupervisorType
  PROVE  /\ s.guard \in GuardType
         /\ s.guard.started \in Int /\ s.guard.progress \in Int
         /\ s.guard.at \in Int /\ s.dirty \in Int /\ s.persistAt \in Int
         /\ s.nextPoll \in Int /\ s.nextRetry \in Int /\ s.wakeAt \in Int
         /\ s.left \in Nat /\ s.applied \in Nat
         /\ s.guard.at >= -1 /\ s.dirty >= -1
<1>1. s.guard \in GuardType /\ s.dirty \in Moment
  BY DEF SupervisorType
<1>2. /\ s.guard.started \in Int /\ s.guard.progress \in Int
      /\ s.guard.at \in Int /\ s.guard.at >= -1
  BY <1>1, LimitsPositive DEF GuardType, Moment, Time, Never
<1>3. s.dirty \in Int /\ s.dirty >= -1
  BY <1>1, LimitsPositive DEF Moment, Time, Never
<1> QED
  BY <1>1, <1>2, <1>3 DEF SupervisorType, Never

LEMMA DriverNumbers ==
  ASSUME NEW d \in DriverType
  PROVE  /\ d.guard \in GuardType
         /\ d.guard.started \in Int /\ d.guard.progress \in Int
         /\ d.guard.at \in Int /\ d.checked \in Int /\ d.wakeAt \in Int
<1>1. d.guard \in GuardType /\ d.checked \in Time
  BY DEF DriverType
<1>2. /\ d.guard.started \in Int /\ d.guard.progress \in Int /\ d.guard.at \in Int
  BY <1>1, LimitsPositive DEF GuardType, Moment, Time, Never
<1> QED
  BY <1>1, <1>2, LimitsPositive DEF DriverType, Time

LEMMA StateNumbers ==
  ASSUME SupervisorTypeOK
  PROVE  /\ now \in Int /\ now >= 0 /\ asked \in Int /\ stalls \in Int
         /\ stalls >= 0 /\ faults \in Nat /\ sent \in Nat
BY LimitsPositive DEF SupervisorTypeOK, Time, Moment, Never

\* The clocks depend on the supervisor's side alone.
LEMMA LoopFrame ==
  ASSUME Clocks, WallClock, CancelClock, WriteClock, Refusals,
         UNCHANGED <<now, sup, cancel, asked, stalls>>, faults' = 0 => faults = 0
  PROVE  Clocks' /\ WallClock' /\ CancelClock' /\ WriteClock' /\ Refusals'
<1>1. Clocks' /\ WallClock'
  BY DEF Clocks, WallClock, InLoop, ReasonNamed
<1>2. CancelClock' /\ WriteClock' /\ Refusals'
  BY DEF CancelClock, WriteClock, Refusals, InLoop, SeenBy
<1> QED
  BY <1>1, <1>2

\* The order of events depends on the channel, the number sent and the two
\* locals of the supervisor.
LEMMA OrderFrame ==
  ASSUME EventOrder, channel' = channel, sent' = sent,
         sup'.blocked = sup.blocked, sup'.applied = sup.applied,
         sup'.pc \in {"finish", "done"} => sup.pc \in {"finish", "done"}
  PROVE  EventOrder'
<1>1. Unblocked' = Unblocked /\ Queued' = Queued
  BY DEF Unblocked, Queued
<1> QED
  BY <1>1 DEF EventOrder

\* The driver is not between its heartbeat and its evaluation when the
\* supervisor moves.
LEMMA DriverPaused ==
  ASSUME SupervisorInv, SupervisorStep
  PROVE  ~(drv.pc = "evaluate" /\ drv.sending = <<>>)
<1>1. CASE sup.pc # "select"
  BY <1>1 DEF SupervisorInv, DriverClock
<1>2. CASE sup.pc = "select"
  <2>1. drv.pc = "returned" \/ Branching
    BY <1>2 DEF SupervisorStep, Poll, Retry, Guard, DrainQueued, ExecReturned,
                Flush, Receive, SeeShutdown, Timer, Drain, Finish
  <2> QED
    BY <2>1 DEF Branching, Polling
<1> QED
  BY <1>1, <1>2

LEMMA DriverFrame ==
  ASSUME SupervisorInv, ~(drv.pc = "evaluate" /\ drv.sending = <<>>),
         drv' = drv, now' = now, stalls' = stalls,
         sup'.guard.progress \in {sup.guard.progress, now},
         HeartbeatQueued => HeartbeatQueued' \/ sup'.guard.progress = now
  PROVE  DriverClock'
<1>1. DriverNap' = DriverNap /\ DriverNap \in Int
  BY LimitsPositive DEF DriverNap
<1>2. /\ drv.wakeAt \in Int /\ now \in Int /\ stalls \in Int
      /\ sup.guard.progress \in Int
  BY DriverNumbers, StateNumbers, SupervisorNumbers DEF SupervisorInv, SupervisorTypeOK
<1>3. /\ drv.pc = "sleep" =>
            now <= drv.wakeAt + stalls /\ drv.wakeAt <= now + DriverNap
      /\ drv.pc = "sleep" /\ drv.tool =>
            HeartbeatQueued \/ drv.wakeAt <= sup.guard.progress + DriverNap
  BY DEF SupervisorInv, DriverClock
<1>4. drv.pc = "sleep" /\ drv.tool =>
            HeartbeatQueued' \/ drv.wakeAt <= sup'.guard.progress + DriverNap
  BY <1>1, <1>2, <1>3
<1>5. /\ drv.guard.at <= now
      /\ drv.pc \in {"stop", "interrupt"} => drv.result \in InterruptReasons
      /\ drv.pc = "evaluate" => drv.guard.at <= drv.checked
      /\ drv.pc = "evaluate" /\ drv.tool => drv.sending = <<"heartbeat">>
  BY DEF SupervisorInv, DriverClock
<1> QED
  BY <1>1, <1>3, <1>4, <1>5 DEF DriverClock

-----------------------------------------------------------------------------
(* Events taken from the channel, or offered again. *)

\* A task event taken by the loop: a refused one cancels the execution.
Taken(s, e) ==
    /\ sup' \in SupervisorType
    /\ Steady(s, sup')
    /\ sup'.guard.progress \in {s.guard.progress, now}
    /\ \/ sup'.dirty \in {s.dirty, Never}
       \/ s.dirty = Never /\ sup'.dirty = now
    /\ cancel' \in BOOLEAN /\ (cancel => cancel')
    /\ faults' \in Nat /\ (faults' = 0 => faults = 0)
    /\ e.kind = "heartbeat" =>
          /\ sup'.guard.progress = now
          /\ sup'.blocked = s.blocked /\ sup'.applied = s.applied
    /\ e.kind # "heartbeat" =>
          \/ cancel' /\ sup'.blocked = e /\ sup'.applied = s.applied
          \/ sup'.blocked = s.blocked /\ sup'.applied = e.id

LEMMA EventTaken ==
  ASSUME SupervisorTypeOK, NEW s \in SupervisorType, NEW e \in Event, Takes(s, e)
  PROVE  Taken(s, e)
<1>1. now \in Time /\ cancel \in BOOLEAN /\ faults \in Nat
  BY DEF SupervisorTypeOK
<1>2. PICK a \in ProcessEvent(s, e) :
             /\ sup' = a.sup
             /\ Meets(a)
             /\ cancel' = (cancel \/ a.failed \/ a.refused)
  BY DEF Takes
<1>3. Processed(s, e, a)
  BY <1>1, EventProcessed
<1>4. faults' \in Nat /\ (faults' = 0 => faults = 0)
  BY <1>1, <1>2 DEF Meets, Fault
<1>5. cancel' \in BOOLEAN /\ (cancel => cancel') /\ (a.refused => cancel')
  BY <1>1, <1>2, <1>3 DEF Processed
<1>6. /\ e.kind = "heartbeat" =>
           /\ a.sup.guard.progress = now
           /\ a.sup.blocked = s.blocked /\ a.sup.applied = s.applied
      /\ e.kind # "heartbeat" =>
           \/ cancel' /\ a.sup.blocked = e /\ a.sup.applied = s.applied
           \/ a.sup.blocked = s.blocked /\ a.sup.applied = e.id
  BY <1>3, <1>5 DEF Processed
<1>7. /\ a.sup \in SupervisorType /\ Steady(s, a.sup)
      /\ a.sup.guard.progress \in {s.guard.progress, now}
      /\ \/ a.sup.dirty \in {s.dirty, Never}
         \/ s.dirty = Never /\ a.sup.dirty = now
  BY <1>3 DEF Processed
<1> QED
  BY <1>2, <1>4, <1>5, <1>6, <1>7 DEF Taken

\* The last event applied or taken once the first of the channel is out.
AfterHead == IF Head(channel).kind = "heartbeat" THEN sup.applied ELSE sup.applied + 1

\* Queue c, with its recorded events at the places Q, goes on after next.
GoesOn(c, Q, next) ==
    /\ Head(channel) \in Event /\ c \in Seq(Event) /\ Len(c) = Len(channel) - 1
    /\ Head(channel).kind # "heartbeat" => Head(channel).id = next
    /\ next \in Nat /\ next <= sent
    /\ {c[i].id : i \in Q} = (next + 1)..sent
    /\ \A i, j \in Q : i < j => c[i].id < c[j].id

\* The first event of the channel that is not a heartbeat is the next to be
\* applied; the others follow it.
LEMMA HeadIsNext ==
  ASSUME SupervisorTypeOK, EventOrder, sup.blocked = NoEvent, channel # <<>>,
         NEW c, c = Tail(channel), NEW next, next = AfterHead,
         NEW Q, Q = {i \in DOMAIN c : c[i].kind # "heartbeat"}
  PROVE  GoesOn(c, Q, next)
<1> USE DEF AfterHead
<1>1. /\ channel \in Seq(Event) /\ sup.applied \in Nat /\ sent \in Nat
  BY DEF SupervisorTypeOK, SupervisorType
<1>2. /\ Head(channel) = channel[1] /\ Head(channel) \in Event /\ c \in Seq(Event)
      /\ Len(c) = Len(channel) - 1 /\ Len(channel) \in Nat /\ Len(channel) > 0
      /\ DOMAIN channel = 1..Len(channel) /\ DOMAIN c = 1..Len(c)
      /\ \A i \in 1..Len(c) : c[i] = channel[i + 1]
  BY <1>1, HeadTailProperties, LenProperties
<1>3. Unblocked = sup.applied
  BY <1>1 DEF Unblocked
<1>4. /\ sup.applied <= sent
      /\ {channel[i].id : i \in Queued} = (sup.applied + 1)..sent
      /\ \A i, j \in Queued : i < j => channel[i].id < channel[j].id
  BY <1>3 DEF EventOrder
<1>5. \A i \in 1..Len(c) : i \in Q <=> i + 1 \in Queued
  BY <1>2 DEF Queued
<1>6. \A i, j \in Q : i < j => c[i].id < c[j].id
  <2> SUFFICES ASSUME NEW i \in Q, NEW j \in Q, i < j
               PROVE  c[i].id < c[j].id
    OBVIOUS
  <2>1. i \in 1..Len(c) /\ j \in 1..Len(c)
    BY <1>2
  <2>2. i + 1 \in Queued /\ j + 1 \in Queued /\ i + 1 < j + 1
    BY <1>2, <1>5, <2>1
  <2>3. c[i] = channel[i + 1] /\ c[j] = channel[j + 1]
    BY <1>2, <2>1
  <2> QED
    BY <1>4, <2>2, <2>3
<1>7. CASE Head(channel).kind = "heartbeat"
  <2>1. 1 \notin Queued /\ next = sup.applied
    BY <1>2, <1>7 DEF Queued
  <2>2. ASSUME NEW n \in {c[i].id : i \in Q}
        PROVE  n \in (next + 1)..sent
    <3>1. PICK i \in Q : n = c[i].id
      BY <2>2
    <3>2. i \in 1..Len(c)
      BY <1>2
    <3>3. i + 1 \in Queued /\ n = channel[i + 1].id
      BY <1>2, <1>5, <3>1, <3>2
    <3> QED
      BY <1>4, <2>1, <3>3
  <2>3. ASSUME NEW n \in (next + 1)..sent
        PROVE  n \in {c[i].id : i \in Q}
    <3>1. PICK k \in Queued : n = channel[k].id
      BY <1>4, <2>1, <2>3
    <3>2. k \in 1..Len(channel) /\ k # 1
      BY <1>2, <2>1, <3>1 DEF Queued
    <3>3. PICK i : i = k - 1
      OBVIOUS
    <3>4. i \in 1..Len(c) /\ i + 1 = k
      BY <1>2, <3>2, <3>3
    <3>5. i \in Q /\ c[i] = channel[k]
      BY <1>2, <1>5, <3>1, <3>4
    <3> QED
      BY <3>1, <3>5
  <2> QED
    BY <1>1, <1>2, <1>4, <1>6, <1>7, <2>1, <2>2, <2>3 DEF GoesOn
<1>8. CASE Head(channel).kind # "heartbeat"
  <2>1. 1 \in Queued /\ next = sup.applied + 1
    BY <1>2, <1>8 DEF Queued
  <2>2. channel[1].id = next /\ next <= sent
    <3>1. channel[1].id \in (sup.applied + 1)..sent
      BY <1>4, <2>1
    <3>2. next \in (sup.applied + 1)..sent
      BY <1>1, <2>1, <3>1
    <3>3. PICK k \in Queued : next = channel[k].id
      BY <1>4, <3>2
    <3>4. k \in 1..Len(channel)
      BY <1>2 DEF Queued
    <3>5. ~(1 < k)
      <4>1. 1 < k => channel[1].id < channel[k].id
        BY <1>4, <2>1
      <4> QED
        BY <1>1, <2>1, <3>1, <3>3, <4>1
    <3>6. k = 1
      BY <1>2, <3>4, <3>5
    <3> QED
      BY <3>2, <3>3, <3>6, <1>1
  <2>3. ASSUME NEW n \in {c[i].id : i \in Q}
        PROVE  n \in (next + 1)..sent
    <3>1. PICK i \in Q : n = c[i].id
      BY <2>3
    <3>2. i \in 1..Len(c)
      BY <1>2
    <3>3. i + 1 \in Queued /\ n = channel[i + 1].id /\ 1 < i + 1
      BY <1>2, <1>5, <3>1, <3>2
    <3>4. n \in (sup.applied + 1)..sent
      BY <1>4, <3>3
    <3>5. channel[1].id < n
      BY <1>4, <2>1, <3>3
    <3> QED
      BY <1>1, <2>1, <2>2, <3>4, <3>5
  <2>4. ASSUME NEW n \in (next + 1)..sent
        PROVE  n \in {c[i].id : i \in Q}
    <3>1. n \in (sup.applied + 1)..sent /\ n # next
      BY <1>1, <2>1, <2>4
    <3>2. PICK k \in Queued : n = channel[k].id
      BY <1>4, <3>1
    <3>3. k \in 1..Len(channel) /\ k # 1
      BY <1>2, <2>2, <3>1, <3>2 DEF Queued
    <3>4. PICK i : i = k - 1
      OBVIOUS
    <3>5. i \in 1..Len(c) /\ i + 1 = k
      BY <1>2, <3>3, <3>4
    <3>6. i \in Q /\ c[i] = channel[k]
      BY <1>2, <1>5, <3>2, <3>5
    <3> QED
      BY <3>2, <3>6
  <2> QED
    BY <1>1, <1>2, <1>6, <1>8, <2>1, <2>2, <2>3, <2>4, SMTT(30) DEF GoesOn
<1> QED
  BY <1>7, <1>8

\* Taking the first event of the channel keeps the order.
LEMMA HeadTaken ==
  ASSUME SupervisorTypeOK, EventOrder, sup.blocked = NoEvent, channel # <<>>,
         channel' = Tail(channel), sent' = sent,
         sup'.pc \notin {"finish", "done"},
         sup'.applied \in Nat, sup'.blocked \in Event \cup {NoEvent},
         Head(channel).kind = "heartbeat" =>
            sup'.blocked = NoEvent /\ sup'.applied = sup.applied,
         Head(channel).kind # "heartbeat" =>
            \/ sup'.blocked = Head(channel) /\ sup'.applied = sup.applied
            \/ sup'.blocked = NoEvent /\ sup'.applied = Head(channel).id
  PROVE  /\ EventOrder'
         /\ channel' \in Seq(Event) /\ Len(channel') = Len(channel) - 1
         /\ HeartbeatQueued /\ Head(channel).kind # "heartbeat" => HeartbeatQueued'
<1>1. PICK next : next = AfterHead
  OBVIOUS
<1>2. GoesOn(channel', Queued', next)
  <2>1. PICK c : c = Tail(channel)
    OBVIOUS
  <2>2. PICK Q : Q = {i \in DOMAIN c : c[i].kind # "heartbeat"}
    OBVIOUS
  <2>3. GoesOn(c, Q, next)
    BY <1>1, <2>1, <2>2, HeadIsNext, Zenon
  <2>4. channel' = c /\ Queued' = Q
    BY <2>1, <2>2, Zenon DEF Queued
  <2> QED
    BY <2>3, <2>4, Zenon
<1>3. /\ Unblocked' = next
      /\ sup'.blocked # NoEvent => sup'.blocked.id = next
  <2>1. \A e \in Event : e # NoEvent
    BY DEF Event, NoEvent, EventKinds
  <2>2. sup.applied \in Nat
    BY DEF SupervisorTypeOK, SupervisorType
  <2>3. CASE sup'.blocked = NoEvent
    BY <1>1, <1>2, <2>1, <2>2, <2>3 DEF Unblocked, GoesOn, AfterHead
  <2>4. CASE sup'.blocked # NoEvent
    BY <1>1, <1>2, <2>1, <2>2, <2>4 DEF Unblocked, GoesOn, AfterHead
  <2> QED
    BY <2>3, <2>4
<1>4. EventOrder'
  BY <1>2, <1>3 DEF EventOrder, GoesOn
<1>5. ASSUME HeartbeatQueued, Head(channel).kind # "heartbeat"
      PROVE  HeartbeatQueued'
  <2>1. PICK k \in DOMAIN channel : channel[k].kind = "heartbeat"
    BY <1>5 DEF HeartbeatQueued
  <2>2. channel \in Seq(Event)
    BY DEF SupervisorTypeOK
  <2>3. k \in 1..Len(channel) /\ k # 1
    BY <1>5, <2>1, <2>2
  <2>4. k - 1 \in DOMAIN channel' /\ channel'[k - 1] = channel[k]
    BY <2>2, <2>3
  <2> QED
    BY <2>1, <2>4 DEF HeartbeatQueued
<1> QED
  BY <1>2, <1>4, <1>5 DEF GoesOn

\* So does offering the blocked event again.
LEMMA BlockedTaken ==
  ASSUME SupervisorTypeOK, EventOrder, sup.blocked # NoEvent,
         channel' = channel, sent' = sent,
         sup'.pc \notin {"finish", "done"},
         \/ sup'.blocked = sup.blocked /\ sup'.applied = sup.applied
         \/ sup'.blocked = NoEvent /\ sup'.applied = sup.blocked.id
  PROVE  EventOrder'
<1>1. sup.applied \in Nat /\ Unblocked = sup.applied + 1
      /\ sup.blocked.id = sup.applied + 1
  BY DEF SupervisorTypeOK, SupervisorType, Unblocked, EventOrder
<1>2. Unblocked' = Unblocked /\ Queued' = Queued
  BY <1>1 DEF Unblocked, Queued
<1>3. sup'.blocked # NoEvent => sup'.blocked.id = Unblocked
  BY <1>1
<1> QED
  BY <1>2, <1>3 DEF EventOrder

-----------------------------------------------------------------------------
(* The supervisor's loop, one action after the other. *)

\* A poll that is due sees the request; one that is not leaves less than an
\* interval to the next.
LEMMA PollKeeps ==
  ASSUME SupervisorInv, Poll
  PROVE  SupervisorInv'
<1> USE DEF SupervisorInv
<1>1. /\ sup \in SupervisorType /\ now \in Time /\ cancel \in BOOLEAN
      /\ faults \in Nat
  BY DEF SupervisorTypeOK
<1>2. /\ sup.pc = "poll"
      /\ UNCHANGED <<now, drv, channel, shutdown, asked, runtime, outcome, sent,
                     appended, stalls>>
  BY DEF Poll
<1>3. /\ cancel' \in BOOLEAN /\ (cancel => cancel')
      /\ faults' \in Nat /\ (faults' = 0 => faults = 0)
      /\ now >= sup.nextPoll /\ asked # Never => cancel'
  <2>1. CASE /\ cancel' = (cancel \/ (now >= sup.nextPoll /\ asked # Never))
             /\ faults' = faults
    BY <1>1, <2>1
  <2>2. CASE cancel' = TRUE /\ faults' = faults + 1
    BY <1>1, <2>2
  <2>3. \/ /\ cancel' = (cancel \/ (now >= sup.nextPoll /\ asked # Never))
           /\ faults' = faults
        \/ cancel' = TRUE /\ faults' = faults + 1
    BY Zenon DEF Poll, Fault
  <2> QED
    BY <2>1, <2>2, <2>3
<1>4. /\ sup' \in SupervisorType
      /\ sup'.guard = sup.guard /\ sup'.dirty = sup.dirty
      /\ sup'.persistAt = sup.persistAt /\ sup'.blocked = sup.blocked
      /\ sup'.applied = sup.applied
      /\ \/ sup'.pc = "drain" /\ sup'.nextPoll = sup.nextPoll
         \/ /\ sup'.pc = "retry"
            /\ sup'.nextPoll = IF now >= sup.nextPoll THEN now + Refresh
                               ELSE sup.nextPoll
  <2>1. CASE ~sup.started /\ (cancel' \/ shutdown)
    <3>1. PICK r \in {"shutdown", "canceled"} : sup' = Ending(r)
      BY <2>1 DEF Poll
    <3>2. sup' = [sup EXCEPT !.pc = "drain", !.result = r]
      BY <3>1 DEF Ending
    <3> QED
      BY <1>1, <3>2 DEF SupervisorType, Reasons, InterruptReasons
  <2>2. CASE ~(~sup.started /\ (cancel' \/ shutdown))
    <3>1. PICK n : /\ n = IF now >= sup.nextPoll THEN now + Refresh ELSE sup.nextPoll
                   /\ sup' = [sup EXCEPT !.pc = "retry", !.nextPoll = n]
      BY <2>2 DEF Poll
    <3>2. n \in Nat
      BY <1>1, <3>1, LimitsPositive, SupervisorNumbers DEF SupervisorType, Time
    <3> QED
      BY <1>1, <3>1, <3>2 DEF SupervisorType
  <2> QED
    BY <2>1, <2>2
<1>5. SupervisorTypeOK'
  BY <1>2, <1>3, <1>4 DEF SupervisorTypeOK
<1>n. /\ now \in Int /\ now >= 0 /\ asked \in Int /\ stalls \in Int /\ stalls >= 0
      /\ sup.guard.at \in Int /\ sup.dirty \in Int /\ sup.persistAt \in Int
      /\ sup.nextPoll \in Int
  BY <1>1, StateNumbers, SupervisorNumbers
<1>6. Clocks' /\ WallClock'
  BY <1>2, <1>4, <1>n, LimitsPositive DEF Clocks, WallClock, InLoop, ReasonNamed
<1>7. CancelClock'
  BY <1>2, <1>3, <1>4, <1>n, LimitsPositive DEF CancelClock, InLoop, SeenBy
<1>8. WriteClock'
  BY <1>2, <1>3, <1>4, <1>n DEF WriteClock, InLoop
<1>9. Refusals'
  BY <1>2, <1>3, <1>4 DEF Refusals, InLoop
<1>10. EventOrder'
  BY <1>2, <1>4, OrderFrame
<1>11. DriverClock'
  BY <1>2, <1>4, DriverPaused, DriverFrame DEF SupervisorStep, HeartbeatQueued
<1>12. DrainCount'
  BY <1>4 DEF DrainCount
<1> QED
  BY <1>5, <1>6, <1>7, <1>8, <1>9, <1>10, <1>11, <1>12

\* The clocks of the loop when an event was taken and time stood still.
LEMMA TakenClocks ==
  ASSUME SupervisorInv, InLoop, UNCHANGED <<now, asked, stalls>>,
         NEW s \in SupervisorType, NEW e, Taken(s, e),
         s.guard = sup.guard, s.dirty = sup.dirty, s.persistAt = sup.persistAt,
         s.nextPoll = sup.nextPoll, s.wakeAt = sup.wakeAt,
         s.pc \in {"poll", "retry", "guard", "queued"},
         s.pc # "poll" => sup.pc \in {"retry", "guard", "queued"}
  PROVE  Clocks' /\ WallClock' /\ CancelClock' /\ WriteClock'
<1> USE DEF SupervisorInv
<1>1. /\ sup'.pc = s.pc /\ sup'.persistAt = sup.persistAt
      /\ sup'.nextPoll = sup.nextPoll /\ sup'.wakeAt = sup.wakeAt
      /\ sup'.guard.started = sup.guard.started /\ sup'.guard.at = sup.guard.at
      /\ sup'.guard.reason = sup.guard.reason
      /\ \/ sup'.dirty \in {sup.dirty, Never}
         \/ sup.dirty = Never /\ sup'.dirty = now
  BY DEF Taken, Steady
<1>2. (cancel => cancel') /\ (faults' = 0 => faults = 0)
  BY DEF Taken
<1>3. /\ now \in Int /\ now >= 0 /\ asked \in Int /\ stalls \in Int /\ stalls >= 0
      /\ sup.guard.at \in Int /\ sup.dirty \in Int /\ sup.persistAt \in Int
      /\ sup.nextPoll \in Int /\ sup.guard.at >= -1
  BY StateNumbers, SupervisorNumbers DEF SupervisorTypeOK
<1>4. Clocks' /\ WallClock'
  BY <1>1, <1>3, LimitsPositive DEF Clocks, WallClock, InLoop, ReasonNamed, Never
<1>5. CancelClock'
  BY <1>1, <1>2, <1>3, LimitsPositive DEF CancelClock, InLoop, SeenBy
<1>6. WriteClock'
  BY <1>1, <1>2, <1>3, LimitsPositive DEF WriteClock, Clocks, InLoop, Never
<1> QED
  BY <1>4, <1>5, <1>6

\* The blocked event is offered again, or is not due.
LEMMA RetryKeeps ==
  ASSUME SupervisorInv, Retry
  PROVE  SupervisorInv'
<1> USE DEF SupervisorInv
<1>1. /\ sup \in SupervisorType /\ now \in Time /\ cancel \in BOOLEAN
      /\ faults \in Nat
  BY DEF SupervisorTypeOK
<1>2. /\ sup.pc = "retry" /\ InLoop
      /\ UNCHANGED <<now, drv, channel, shutdown, asked, runtime, outcome, sent,
                     appended, stalls>>
  BY DEF Retry, InLoop
<1>3. PICK n : /\ n = IF now >= sup.nextRetry THEN now + Refresh ELSE sup.nextRetry
               /\ IF now >= sup.nextRetry /\ sup.blocked # NoEvent
                  THEN Takes([[sup EXCEPT !.pc = "guard", !.nextRetry = n]
                                 EXCEPT !.blocked = NoEvent], sup.blocked)
                  ELSE /\ sup' = [sup EXCEPT !.pc = "guard", !.nextRetry = n]
                       /\ UNCHANGED <<cancel, faults>>
  BY DEF Retry
<1>4. n \in Nat
  BY <1>1, <1>3, LimitsPositive, SupervisorNumbers DEF SupervisorType, Time
<1>n. /\ now \in Int /\ now >= 0 /\ asked \in Int /\ stalls \in Int /\ stalls >= 0
      /\ sup.guard.at \in Int /\ sup.dirty \in Int /\ sup.persistAt \in Int
      /\ sup.nextPoll \in Int
  BY <1>1, StateNumbers, SupervisorNumbers
<1>5. CASE now >= sup.nextRetry /\ sup.blocked # NoEvent
  <2>1. PICK s : /\ s = [[sup EXCEPT !.pc = "guard", !.nextRetry = n]
                            EXCEPT !.blocked = NoEvent]
                 /\ Takes(s, sup.blocked)
    BY <1>3, <1>5
  <2>2. /\ s \in SupervisorType /\ s.pc = "guard" /\ s.guard = sup.guard
        /\ s.dirty = sup.dirty /\ s.persistAt = sup.persistAt
        /\ s.nextPoll = sup.nextPoll /\ s.wakeAt = sup.wakeAt
        /\ s.applied = sup.applied /\ s.blocked = NoEvent
    BY <1>1, <1>4, <2>1 DEF SupervisorType
  <2>3. sup.blocked \in Event /\ sup.blocked.kind # "heartbeat"
    BY <1>1, <1>5 DEF SupervisorType, Refusals
  <2>4. Taken(s, sup.blocked)
    BY <2>1, <2>2, <2>3, EventTaken
  <2>5. Clocks' /\ WallClock' /\ CancelClock' /\ WriteClock'
    BY <1>2, <2>2, <2>4, TakenClocks
  <2>6. /\ sup' \in SupervisorType /\ cancel' \in BOOLEAN /\ faults' \in Nat
        /\ sup'.pc = "guard" /\ sup'.guard.progress \in {sup.guard.progress, now}
        /\ cancel => cancel'
        /\ \/ cancel' /\ sup'.blocked = sup.blocked /\ sup'.applied = sup.applied
           \/ sup'.blocked = NoEvent /\ sup'.applied = sup.blocked.id
    BY <2>2, <2>3, <2>4 DEF Taken, Steady
  <2>7. SupervisorTypeOK'
    BY <1>2, <2>6 DEF SupervisorTypeOK
  <2>8. Refusals'
    BY <2>3, <2>6 DEF Refusals
  <2>9. EventOrder'
    BY <1>2, <1>5, <2>6, BlockedTaken
  <2>10. DriverClock'
    BY <1>2, <2>6, DriverPaused, DriverFrame DEF SupervisorStep, HeartbeatQueued
  <2>11. DrainCount'
    BY <2>6 DEF DrainCount
  <2> QED
    BY <2>5, <2>7, <2>8, <2>9, <2>10, <2>11
<1>6. CASE ~(now >= sup.nextRetry /\ sup.blocked # NoEvent)
  <2>1. sup' = [sup EXCEPT !.pc = "guard", !.nextRetry = n]
        /\ UNCHANGED <<cancel, faults>>
    BY <1>3, <1>6
  <2>2. /\ sup' \in SupervisorType /\ sup'.pc = "guard"
        /\ sup'.guard = sup.guard /\ sup'.dirty = sup.dirty
        /\ sup'.persistAt = sup.persistAt /\ sup'.blocked = sup.blocked
        /\ sup'.applied = sup.applied /\ sup'.nextPoll = sup.nextPoll
    BY <1>1, <1>4, <2>1 DEF SupervisorType
  <2>3. SupervisorTypeOK'
    BY <1>2, <2>1, <2>2 DEF SupervisorTypeOK
  <2>4. Clocks' /\ WallClock'
    BY <1>2, <2>2, <1>n DEF Clocks, WallClock, InLoop, ReasonNamed
  <2>5. CancelClock' /\ WriteClock'
    BY <1>2, <2>1, <2>2, <1>n DEF CancelClock, WriteClock, InLoop, SeenBy
  <2>6. Refusals'
    BY <1>2, <2>1, <2>2 DEF Refusals, InLoop
  <2>7. EventOrder'
    BY <1>2, <2>2, OrderFrame
  <2>8. DriverClock'
    BY <1>2, <2>2, DriverPaused, DriverFrame DEF SupervisorStep, HeartbeatQueued
  <2>9. DrainCount'
    BY <2>2 DEF DrainCount
  <2> QED
    BY <2>3, <2>4, <2>5, <2>6, <2>7, <2>8, <2>9
<1> QED
  BY <1>5, <1>6

\* The guard decides: begin the drain, interrupt, end, or select until the
\* next deadline.
LEMMA GuardKeeps ==
  ASSUME SupervisorInv, Guard
  PROVE  SupervisorInv'
<1> USE DEF SupervisorInv
<1>1. /\ sup \in SupervisorType /\ now \in Time /\ cancel \in BOOLEAN
      /\ shutdown \in BOOLEAN /\ channel \in Seq(Event) /\ sup.guard \in GuardType
  BY SupervisorNumbers DEF SupervisorTypeOK
<1>2. /\ sup.pc \in {"guard", "queued"} /\ InLoop
      /\ UNCHANGED <<now, drv, channel, shutdown, asked, runtime, outcome, sent,
                     appended, stalls, faults>>
  BY DEF Guard, InLoop, bounds
<1>3. PICK act : act = Evaluate(sup.guard, now, cancel, shutdown)
  OBVIOUS
<1>n. /\ now \in Int /\ now >= 0 /\ asked \in Int /\ stalls \in Int /\ stalls >= 0
      /\ sup.guard.at \in Int /\ sup.dirty \in Int /\ sup.persistAt \in Int
      /\ sup.nextPoll \in Int /\ sup.guard.started \in Int
  BY <1>1, StateNumbers, SupervisorNumbers
<1>4. Verdict(sup.guard, now, cancel, shutdown, act)
  BY <1>1, <1>3, <1>n, Evaluated
<1>5. /\ sup' = CASE DrainsFirst(act) ->
                       [sup EXCEPT !.pc = "queued", !.left = Len(channel)]
                  [] act.do = "interrupt" /\ ~DrainsFirst(act) ->
                       [sup EXCEPT !.pc = "poll",
                           !.guard = NoteInterrupt(@, act.reason)]
                  [] act.do = "terminalize" -> Ending(act.reason)
                  [] act.do = "run" ->
                       [sup EXCEPT !.pc = "select", !.started = TRUE,
                           !.persistAt = PersistAt(sup), !.watching = ~shutdown,
                           !.wakeAt = now + Min({act.wait, Refresh})]
      /\ cancel' = (cancel \/ (act.do = "interrupt" /\ ~DrainsFirst(act)))
  BY <1>3 DEF Guard
<1>6. DrainsFirst(act) => act.do = "interrupt"
  BY DEF DrainsFirst
<1>7. cancel' \in BOOLEAN /\ (cancel => cancel')
  BY <1>1, <1>5
<1>8. ASSUME sup' \in SupervisorType, sup'.blocked = sup.blocked,
             sup'.applied = sup.applied, sup'.pc \notin {"finish", "done"},
             sup'.guard.progress = sup.guard.progress
      PROVE  SupervisorTypeOK' /\ Refusals' /\ EventOrder' /\ DriverClock'
  <2>1. SupervisorTypeOK'
    BY <1>2, <1>7, <1>8 DEF SupervisorTypeOK
  <2>2. Refusals'
    BY <1>2, <1>7, <1>8 DEF Refusals
  <2>3. EventOrder'
    BY <1>2, <1>8, OrderFrame
  <2>4. DriverClock'
    BY <1>2, <1>8, DriverPaused, DriverFrame DEF SupervisorStep, HeartbeatQueued
  <2> QED
    BY <2>1, <2>2, <2>3, <2>4
<1>9. CASE DrainsFirst(act)
  <2>1. sup' = [sup EXCEPT !.pc = "queued", !.left = Len(channel)] /\ cancel' = cancel
    <3>1. act.do # "terminalize" /\ act.do # "run"
      BY <1>6, <1>9
    <3> QED
      BY <1>1, <1>5, <1>9, <3>1
  <2>2. /\ sup' \in SupervisorType /\ sup'.pc = "queued" /\ sup'.left = Len(channel)
        /\ sup'.guard = sup.guard /\ sup'.dirty = sup.dirty
        /\ sup'.persistAt = sup.persistAt /\ sup'.blocked = sup.blocked
        /\ sup'.applied = sup.applied /\ sup'.nextPoll = sup.nextPoll
    <3>1. Len(channel) \in Nat
      BY <1>1
    <3> QED
      BY <1>1, <2>1, <3>1 DEF SupervisorType
  <2>3. Clocks' /\ WallClock'
    BY <1>2, <2>2, <1>n DEF Clocks, WallClock, InLoop, ReasonNamed
  <2>4. CancelClock' /\ WriteClock'
    BY <1>2, <2>1, <2>2, <1>n DEF CancelClock, WriteClock, InLoop, SeenBy
  <2>5. DrainCount'
    BY <1>2, <2>2 DEF DrainCount
  <2> QED
    BY <1>8, <2>2, <2>3, <2>4, <2>5
<1>10. CASE act.do = "interrupt" /\ ~DrainsFirst(act)
  <2>1. /\ sup' = [sup EXCEPT !.pc = "poll",
                              !.guard = NoteInterrupt(sup.guard, act.reason)]
        /\ cancel' = TRUE
    BY <1>5, <1>10
  <2>2. PICK g : g = NoteInterrupt(sup.guard, act.reason)
    OBVIOUS
  <2>3. /\ sup.guard.at = Never /\ act.reason \in InterruptReasons
    BY <1>4, <1>10 DEF Verdict
  <2>4. /\ g \in GuardType /\ g.started = sup.guard.started
        /\ g.progress = sup.guard.progress /\ g.at = now /\ g.reason = act.reason
    BY <1>1, <2>2, <2>3 DEF NoteInterrupt, GuardType, Moment
  <2>5. /\ sup' \in SupervisorType /\ sup'.pc = "poll" /\ sup'.guard = g
        /\ sup'.dirty = sup.dirty
        /\ sup'.persistAt = sup.persistAt /\ sup'.blocked = sup.blocked
        /\ sup'.applied = sup.applied /\ sup'.nextPoll = sup.nextPoll
    BY <1>1, <2>1, <2>2, <2>4 DEF SupervisorType
  <2>6. ReasonNamed(g)
    BY <2>3, <2>4, <1>n DEF ReasonNamed, InterruptReasons, Never
  <2>7. Clocks' /\ WallClock'
    BY <1>2, <2>3, <2>4, <2>5, <2>6, <1>n, LimitsPositive DEF Clocks, WallClock, InLoop
  <2>8. CancelClock' /\ WriteClock'
    BY <1>2, <2>1, <2>3, <2>4, <2>5, <1>n, LimitsPositive
    DEF CancelClock, WriteClock, InLoop, SeenBy
  <2>9. DrainCount'
    BY <2>5 DEF DrainCount
  <2> QED
    BY <1>8, <2>4, <2>5, <2>7, <2>8, <2>9
<1>11. CASE act.do = "terminalize"
  <2>1. sup' = [sup EXCEPT !.pc = "drain", !.result = act.reason]
    BY <1>5, <1>6, <1>11 DEF Ending
  <2>2. act.reason \in Reasons
    BY <1>4 DEF Verdict
  <2>3. /\ sup' \in SupervisorType /\ sup'.pc = "drain"
        /\ sup'.guard = sup.guard /\ sup'.dirty = sup.dirty
        /\ sup'.persistAt = sup.persistAt /\ sup'.blocked = sup.blocked
        /\ sup'.applied = sup.applied /\ sup'.nextPoll = sup.nextPoll
    BY <1>1, <2>1, <2>2 DEF SupervisorType
  <2>4. Clocks' /\ WallClock'
    BY <1>2, <2>3, <1>n DEF Clocks, WallClock, InLoop, ReasonNamed
  <2>5. CancelClock' /\ WriteClock'
    BY <1>2, <1>7, <2>3, <1>n DEF CancelClock, WriteClock, InLoop, SeenBy
  <2>6. DrainCount'
    BY <2>3 DEF DrainCount
  <2> QED
    BY <1>8, <2>3, <2>4, <2>5, <2>6
<1>12. CASE act.do = "run"
  <2>1. PICK w, p : /\ w = Min({act.wait, Refresh}) /\ p = PersistAt(sup)
                    /\ sup' = [sup EXCEPT !.pc = "select", !.started = TRUE,
                                 !.persistAt = p, !.watching = ~shutdown,
                                 !.wakeAt = now + w]
    BY <1>5, <1>6, <1>12
  <2>2. /\ act.wait \in Int /\ act.wait > 0
        /\ sup.guard.at # Never => act.wait = sup.guard.at + CancelGrace - now
        /\ sup.guard.at = Never => /\ ~cancel
                                   /\ now + act.wait <= sup.guard.started + WallTime
    BY <1>4, <1>12 DEF Verdict
  <2>3. w \in Int /\ w > 0 /\ w <= act.wait /\ w <= Refresh
    BY <2>1, <2>2, MinOfTwo, LimitsPositive
  <2>4. /\ p \in Nat \cup {Never} /\ p \in Int
        /\ sup.dirty = Never => p = Never
        /\ sup.dirty # Never => p # Never
        /\ sup.dirty # Never /\ sup.persistAt = Never => p = now + PersistDebounce
        /\ sup.dirty # Never /\ sup.persistAt # Never => p = sup.persistAt
    <3>1. sup.persistAt \in Nat \cup {Never} /\ now + PersistDebounce \in Nat
      BY <1>1, <1>n, LimitsPositive DEF SupervisorType
    <3>2. p = IF sup.dirty = Never THEN Never
              ELSE IF sup.persistAt = Never THEN now + PersistDebounce ELSE sup.persistAt
      BY <2>1 DEF PersistAt
    <3> QED
      BY <3>1, <3>2 DEF Never
  <2>5. /\ sup' \in SupervisorType /\ sup'.pc = "select" /\ sup'.persistAt = p
        /\ sup'.wakeAt = now + w
        /\ sup'.guard = sup.guard /\ sup'.dirty = sup.dirty
        /\ sup'.blocked = sup.blocked
        /\ sup'.applied = sup.applied /\ sup'.nextPoll = sup.nextPoll
    <3>1. now + w \in Nat /\ (~shutdown) \in BOOLEAN
      BY <1>1, <1>n, <2>3
    <3> QED
      BY <1>1, <2>1, <2>4, <3>1 DEF SupervisorType
  <2>6. Clocks'
    BY <1>2, <2>3, <2>4, <2>5, <1>n, LimitsPositive DEF Clocks, ReasonNamed, Never
  <2>7. WallClock'
    BY <1>2, <2>2, <2>3, <2>5, <1>n, LimitsPositive DEF Clocks, WallClock, InLoop
  <2>8. CancelClock'
    BY <1>2, <1>7, <2>2, <2>3, <2>5, <1>n, LimitsPositive
    DEF CancelClock, Clocks, InLoop, SeenBy
  <2>9. WriteClock'
    BY <1>2, <2>4, <2>5, <1>n, LimitsPositive DEF WriteClock, InLoop
  <2>10. DrainCount'
    BY <2>5 DEF DrainCount
  <2> QED
    BY <1>8, <2>5, <2>6, <2>7, <2>8, <2>9, <2>10
<1> QED
  BY <1>4, <1>6, <1>9, <1>10, <1>11, <1>12 DEF Verdict

\* The first event of the channel is taken in the loop, with time standing
\* still: s are the supervisor's locals after the bookkeeping of the branch.
LEMMA LoopTakes ==
  ASSUME SupervisorInv, SupervisorStep, InLoop,
         sup.blocked = NoEvent, channel # <<>>, channel' = Tail(channel),
         UNCHANGED <<now, drv, shutdown, asked, runtime, outcome, sent, appended,
                     stalls>>,
         NEW s \in SupervisorType, Takes(s, Head(channel)),
         s.guard = sup.guard, s.dirty = sup.dirty, s.persistAt = sup.persistAt,
         s.nextPoll = sup.nextPoll, s.wakeAt = sup.wakeAt,
         s.applied = sup.applied, s.blocked = sup.blocked,
         s.pc \in {"poll", "retry", "guard", "queued"},
         s.pc # "poll" => sup.pc \in {"retry", "guard", "queued"}
  PROVE  /\ SupervisorTypeOK' /\ Clocks' /\ WallClock' /\ CancelClock' /\ WriteClock'
         /\ Refusals' /\ EventOrder' /\ DriverClock'
         /\ sup'.pc = s.pc /\ sup'.left = s.left
         /\ cancel' \in BOOLEAN /\ (cancel => cancel')
         /\ Len(channel') = Len(channel) - 1
<1> USE DEF SupervisorInv
<1>1. Head(channel) \in Event
  BY HeadTailProperties DEF SupervisorTypeOK
<1>2. Taken(s, Head(channel))
  BY <1>1, EventTaken
<1>3. Clocks' /\ WallClock' /\ CancelClock' /\ WriteClock'
  BY <1>2, TakenClocks
<1>4. /\ sup' \in SupervisorType /\ cancel' \in BOOLEAN /\ faults' \in Nat
      /\ sup'.pc = s.pc /\ sup'.left = s.left
      /\ sup'.guard.progress \in {sup.guard.progress, now}
      /\ cancel => cancel'
      /\ Head(channel).kind = "heartbeat" =>
            /\ sup'.guard.progress = now
            /\ sup'.blocked = NoEvent /\ sup'.applied = sup.applied
      /\ Head(channel).kind # "heartbeat" =>
            \/ cancel' /\ sup'.blocked = Head(channel) /\ sup'.applied = sup.applied
            \/ sup'.blocked = NoEvent /\ sup'.applied = Head(channel).id
  BY <1>2 DEF Taken, Steady
<1>5. sup'.applied \in Nat /\ sup'.blocked \in Event \cup {NoEvent}
  BY <1>4 DEF SupervisorType
<1>6. sup'.pc \notin {"finish", "done"}
  BY <1>4
<1>7. /\ EventOrder'
      /\ channel' \in Seq(Event) /\ Len(channel') = Len(channel) - 1
      /\ HeartbeatQueued /\ Head(channel).kind # "heartbeat" => HeartbeatQueued'
  BY <1>4, <1>5, <1>6, HeadTaken
<1>8. SupervisorTypeOK'
  <2>1. Len(channel') <= ChannelCap
    BY <1>7, LimitsPositive DEF SupervisorTypeOK
  <2> QED
    BY <1>4, <1>7, <2>1 DEF SupervisorTypeOK
<1>9. Refusals'
  BY <1>4 DEF Refusals
<1>10. DriverClock'
  BY <1>4, <1>7, DriverPaused, DriverFrame
<1> QED
  BY <1>3, <1>4, <1>7, <1>8, <1>9, <1>10

\* The idle drain goes on, or stops at a blocked event.
LEMMA DrainQueuedKeeps ==
  ASSUME SupervisorInv, DrainQueued
  PROVE  SupervisorInv'
<1> USE DEF SupervisorInv
<1>1. sup \in SupervisorType /\ cancel \in BOOLEAN /\ channel \in Seq(Event)
  BY DEF SupervisorTypeOK
<1>2. /\ sup.pc = "queued" /\ sup.left > 0 /\ InLoop /\ SupervisorStep
      /\ UNCHANGED <<now, drv, shutdown, asked, runtime, outcome, sent, appended,
                     stalls>>
  BY DEF DrainQueued, InLoop, SupervisorStep
<1>3. CASE sup.blocked # NoEvent \/ channel = <<>>
  <2>1. sup' = [sup EXCEPT !.left = 0] /\ UNCHANGED <<channel, cancel, faults>>
    BY <1>3 DEF DrainQueued
  <2>2. cancel
    <3>1. CASE sup.blocked # NoEvent
      BY <1>2, <3>1 DEF Refusals
    <3>2. CASE channel = <<>>
      BY <1>2, <3>2 DEF DrainCount
    <3> QED
      BY <1>3, <3>1, <3>2
  <2>3. /\ sup' \in SupervisorType /\ sup'.pc = "queued"
        /\ sup'.guard = sup.guard /\ sup'.dirty = sup.dirty
        /\ sup'.persistAt = sup.persistAt /\ sup'.blocked = sup.blocked
        /\ sup'.applied = sup.applied /\ sup'.nextPoll = sup.nextPoll
    BY <1>1, <1>2, <2>1 DEF SupervisorType
  <2>4. SupervisorTypeOK'
    BY <1>2, <2>1, <2>3 DEF SupervisorTypeOK
  <2>5. Clocks' /\ WallClock'
    BY <1>2, <2>3 DEF Clocks, WallClock, InLoop, ReasonNamed
  <2>6. CancelClock' /\ WriteClock'
    BY <1>2, <2>1, <2>3 DEF CancelClock, WriteClock, InLoop, SeenBy
  <2>7. Refusals'
    BY <1>2, <2>1, <2>3 DEF Refusals, InLoop
  <2>8. EventOrder'
    BY <1>2, <2>1, <2>3, OrderFrame
  <2>9. DriverClock'
    BY <1>2, <2>1, <2>3, DriverPaused, DriverFrame DEF HeartbeatQueued
  <2>10. DrainCount'
    BY <2>1, <2>2 DEF DrainCount
  <2> QED
    BY <2>4, <2>5, <2>6, <2>7, <2>8, <2>9, <2>10
<1>4. CASE sup.blocked = NoEvent /\ channel # <<>>
  <2>1. PICK s : /\ s = [sup EXCEPT !.left = sup.left - 1]
                 /\ Takes(s, Head(channel)) /\ channel' = Tail(channel)
    BY <1>4 DEF DrainQueued
  <2>2. /\ s \in SupervisorType /\ s.pc = "queued" /\ s.left = sup.left - 1
        /\ s.guard = sup.guard /\ s.dirty = sup.dirty
        /\ s.persistAt = sup.persistAt /\ s.blocked = sup.blocked
        /\ s.applied = sup.applied /\ s.nextPoll = sup.nextPoll
        /\ s.wakeAt = sup.wakeAt
    <3>1. sup.left - 1 \in Nat
      BY <1>1, <1>2, SupervisorNumbers
    <3> QED
      BY <1>1, <1>2, <2>1, <3>1 DEF SupervisorType
  <2>3. /\ SupervisorTypeOK' /\ Clocks' /\ WallClock' /\ CancelClock' /\ WriteClock'
        /\ Refusals' /\ EventOrder' /\ DriverClock'
        /\ sup'.pc = s.pc /\ sup'.left = s.left
        /\ cancel' \in BOOLEAN /\ (cancel => cancel')
        /\ Len(channel') = Len(channel) - 1
    BY <1>2, <1>4, <2>1, <2>2, LoopTakes
  <2>4. DrainCount'
    <3>1. Len(channel) \in Nat /\ sup.left \in Nat
      BY <1>1, SupervisorNumbers
    <3>2. cancel \/ sup.left = Len(channel)
      BY <1>2 DEF DrainCount
    <3>3. cancel' \/ sup'.left = Len(channel')
      BY <2>2, <2>3, <3>1, <3>2
    <3> QED
      BY <3>3 DEF DrainCount
  <2> QED
    BY <2>3, <2>4
<1> QED
  BY <1>3, <1>4

\* The select receives an event.
LEMMA ReceiveKeeps ==
  ASSUME SupervisorInv, Receive
  PROVE  SupervisorInv'
<1> USE DEF SupervisorInv
<1>1. sup \in SupervisorType
  BY DEF SupervisorTypeOK
<1>2. /\ sup.pc = "select" /\ InLoop /\ SupervisorStep
      /\ sup.blocked = NoEvent /\ channel # <<>> /\ channel' = Tail(channel)
      /\ UNCHANGED <<now, drv, shutdown, asked, runtime, outcome, sent, appended,
                     stalls>>
  BY DEF Receive, Receivable, Branching, Selecting, InLoop, SupervisorStep
<1>3. PICK s : s = [sup EXCEPT !.pc = "poll"] /\ Takes(s, Head(channel))
  BY DEF Receive
<1>4. /\ s \in SupervisorType /\ s.pc = "poll"
      /\ s.guard = sup.guard /\ s.dirty = sup.dirty
      /\ s.persistAt = sup.persistAt /\ s.blocked = sup.blocked
      /\ s.applied = sup.applied /\ s.nextPoll = sup.nextPoll
      /\ s.wakeAt = sup.wakeAt
  BY <1>1, <1>3 DEF SupervisorType
<1>5. /\ SupervisorTypeOK' /\ Clocks' /\ WallClock' /\ CancelClock' /\ WriteClock'
      /\ Refusals' /\ EventOrder' /\ DriverClock'
      /\ sup'.pc = s.pc
  BY <1>2, <1>3, <1>4, LoopTakes
<1>6. DrainCount'
  BY <1>4, <1>5 DEF DrainCount
<1> QED
  BY <1>5, <1>6

\* A branch of the select that takes no event and leaves the guard alone.
LEMMA SelectLeft ==
  ASSUME SupervisorInv, SupervisorStep, sup.pc = "select",
         UNCHANGED <<now, drv, channel, shutdown, asked, runtime, outcome, sent,
                     appended, stalls>>,
         sup' \in SupervisorType, sup'.pc \in {"poll", "drain"},
         sup'.guard = sup.guard, sup'.nextPoll = sup.nextPoll,
         sup'.blocked = sup.blocked, sup'.applied = sup.applied,
         sup'.dirty \in {sup.dirty, Never},
         sup'.persistAt \in {sup.persistAt, Never, now + PersistDebounce},
         sup'.dirty # Never /\ faults' = 0 => sup'.persistAt = sup.persistAt,
         cancel' \in BOOLEAN, cancel => cancel',
         faults' \in Nat, faults' = 0 => faults = 0
  PROVE  SupervisorInv'
<1> USE DEF SupervisorInv
<1>1. SupervisorTypeOK'
  BY DEF SupervisorTypeOK
<1>2. /\ now \in Int /\ now >= 0 /\ asked \in Int /\ stalls \in Int /\ stalls >= 0
      /\ sup.guard.at \in Int /\ sup.dirty \in Int /\ sup.persistAt \in Int
      /\ sup.nextPoll \in Int /\ sup.dirty >= -1
  BY StateNumbers, SupervisorNumbers DEF SupervisorTypeOK
<1>3. Clocks' /\ WallClock'
  BY <1>2, LimitsPositive DEF Clocks, WallClock, InLoop, ReasonNamed, Never
<1>4. CancelClock'
  BY <1>2 DEF CancelClock, InLoop, SeenBy
<1>5. WriteClock'
  BY <1>2 DEF WriteClock, InLoop
<1>6. Refusals'
  BY DEF Refusals, InLoop
<1>7. EventOrder'
  BY OrderFrame
<1>8. DriverClock'
  BY DriverPaused, DriverFrame DEF HeartbeatQueued
<1>9. DrainCount'
  BY DEF DrainCount
<1> QED
  BY <1>1, <1>3, <1>4, <1>5, <1>6, <1>7, <1>8, <1>9

LEMMA ExecReturnedKeeps ==
  ASSUME SupervisorInv, ExecReturned
  PROVE  SupervisorInv'
<1>1. /\ sup \in SupervisorType /\ drv \in DriverType /\ sup.guard \in GuardType
      /\ cancel \in BOOLEAN /\ faults \in Nat
  BY SupervisorNumbers DEF SupervisorInv, SupervisorTypeOK
<1>2. PICK r : /\ r = PreserveTimeoutReason(sup.guard, drv.result)
               /\ sup' = [sup EXCEPT !.pc = "drain", !.result = r]
  BY DEF ExecReturned, Ending
<1>3. r \in Reasons
  BY <1>1, <1>2 DEF PreserveTimeoutReason, DriverType, Reasons, InterruptReasons
<1>4. /\ sup.pc = "select" /\ SupervisorStep
      /\ UNCHANGED <<now, drv, channel, cancel, shutdown, asked, runtime, outcome,
                     sent, appended, stalls, faults>>
  BY DEF ExecReturned, SupervisorStep, tokens, bounds
<1>5. /\ sup' \in SupervisorType /\ sup'.pc = "drain"
      /\ sup'.guard = sup.guard /\ sup'.dirty = sup.dirty
      /\ sup'.persistAt = sup.persistAt /\ sup'.blocked = sup.blocked
      /\ sup'.applied = sup.applied /\ sup'.nextPoll = sup.nextPoll
  BY <1>1, <1>2, <1>3 DEF SupervisorType
<1> QED
  BY <1>1, <1>4, <1>5, SelectLeft

LEMMA FlushKeeps ==
  ASSUME SupervisorInv, Flush
  PROVE  SupervisorInv'
<1>1. /\ sup \in SupervisorType /\ cancel \in BOOLEAN /\ faults \in Nat
      /\ now \in Int /\ now >= 0
  BY StateNumbers DEF SupervisorInv, SupervisorTypeOK
<1>2. /\ sup.pc = "select" /\ SupervisorStep
      /\ UNCHANGED <<now, drv, channel, shutdown, asked, runtime, outcome, sent,
                     appended, stalls>>
  BY DEF Flush, Branching, Selecting, SupervisorStep
<1>3. CASE /\ sup' = [Cleaned(sup) EXCEPT !.pc = "poll", !.persistAt = Never]
           /\ UNCHANGED <<cancel, faults>>
  <2>1. /\ sup' \in SupervisorType /\ sup'.pc = "poll"
        /\ sup'.guard = sup.guard /\ sup'.dirty = Never
        /\ sup'.persistAt = Never /\ sup'.blocked = sup.blocked
        /\ sup'.applied = sup.applied /\ sup'.nextPoll = sup.nextPoll
    BY <1>1, <1>3 DEF SupervisorType, Cleaned, Moment
  <2> QED
    BY <1>1, <1>2, <1>3, <2>1, SelectLeft
<1>4. CASE /\ sup' = [sup EXCEPT !.pc = "poll", !.persistAt = now + PersistDebounce]
           /\ cancel' = TRUE /\ Fault
  <2>1. now + PersistDebounce \in Nat
    BY <1>1, LimitsPositive
  <2>2. /\ sup' \in SupervisorType /\ sup'.pc = "poll"
        /\ sup'.guard = sup.guard /\ sup'.dirty = sup.dirty
        /\ sup'.persistAt = now + PersistDebounce /\ sup'.blocked = sup.blocked
        /\ sup'.applied = sup.applied /\ sup'.nextPoll = sup.nextPoll
    BY <1>1, <1>4, <2>1 DEF SupervisorType
  <2>3. faults' \in Nat /\ faults' # 0
    BY <1>1, <1>4 DEF Fault
  <2> QED
    BY <1>1, <1>2, <1>4, <2>2, <2>3, SelectLeft
<1> QED
  BY <1>3, <1>4 DEF Flush

LEMMA SeeShutdownKeeps ==
  ASSUME SupervisorInv, SeeShutdown
  PROVE  SupervisorInv'
<1>1. sup \in SupervisorType /\ faults \in Nat
  BY DEF SupervisorInv, SupervisorTypeOK
<1>2. /\ sup.pc = "select" /\ SupervisorStep /\ cancel' = TRUE
      /\ UNCHANGED <<now, drv, channel, shutdown, asked, runtime, outcome, sent,
                     appended, stalls, faults>>
  BY DEF SeeShutdown, Branching, Selecting, SupervisorStep, bounds
<1>3. /\ sup' \in SupervisorType /\ sup'.pc = "poll"
      /\ sup'.guard = sup.guard /\ sup'.dirty = sup.dirty
      /\ sup'.persistAt = sup.persistAt /\ sup'.blocked = sup.blocked
      /\ sup'.applied = sup.applied /\ sup'.nextPoll = sup.nextPoll
  BY <1>1 DEF SupervisorType, SeeShutdown
<1> QED
  BY <1>1, <1>2, <1>3, SelectLeft

LEMMA TimerKeeps ==
  ASSUME SupervisorInv, Timer
  PROVE  SupervisorInv'
<1>1. sup \in SupervisorType /\ faults \in Nat /\ cancel \in BOOLEAN
  BY DEF SupervisorInv, SupervisorTypeOK
<1>2. /\ sup.pc = "select" /\ SupervisorStep
      /\ UNCHANGED <<now, drv, channel, cancel, shutdown, asked, runtime, outcome,
                     sent, appended, stalls, faults>>
  BY DEF Timer, Branching, Selecting, SupervisorStep, bounds, tokens
<1>3. /\ sup' \in SupervisorType /\ sup'.pc = "poll"
      /\ sup'.guard = sup.guard /\ sup'.dirty = sup.dirty
      /\ sup'.persistAt = sup.persistAt /\ sup'.blocked = sup.blocked
      /\ sup'.applied = sup.applied /\ sup'.nextPoll = sup.nextPoll
  BY <1>1 DEF SupervisorType, Timer
<1> QED
  BY <1>1, <1>2, <1>3, SelectLeft

-----------------------------------------------------------------------------
(* After the loop. *)

\* Outside the loop only the order of the events and the driver are left.
LEMMA OutsideLoop ==
  ASSUME SupervisorInv, SupervisorStep, sup.pc \in {"drain", "finish"},
         UNCHANGED <<now, drv, shutdown, asked, runtime, sent, appended, stalls>>,
         sup' \in SupervisorType, sup'.pc \in {"drain", "finish", "done"},
         sup'.guard.started = sup.guard.started, sup'.guard.at = sup.guard.at,
         sup'.guard.reason = sup.guard.reason,
         sup'.guard.progress \in {sup.guard.progress, now},
         sup'.nextPoll = sup.nextPoll, sup'.persistAt = sup.persistAt,
         sup'.dirty \in {sup.dirty, Never, now},
         cancel' \in BOOLEAN, cancel => cancel', faults' \in Nat,
         outcome' \in Reasons,
         channel' \in Seq(Event), Len(channel') <= ChannelCap,
         sup'.blocked # NoEvent => sup'.blocked.kind # "heartbeat",
         HeartbeatQueued => HeartbeatQueued' \/ sup'.guard.progress = now,
         EventOrder'
  PROVE  SupervisorInv'
<1> USE DEF SupervisorInv
<1>1. SupervisorTypeOK'
  BY DEF SupervisorTypeOK
<1>2. /\ now \in Int /\ now >= 0 /\ asked \in Int /\ stalls \in Int /\ stalls >= 0
      /\ sup.guard.at \in Int /\ sup.dirty \in Int
  BY StateNumbers, SupervisorNumbers DEF SupervisorTypeOK
<1>3. Clocks' /\ WallClock'
  BY <1>2 DEF Clocks, WallClock, InLoop, ReasonNamed, Never
<1>4. CancelClock' /\ WriteClock'
  BY <1>2 DEF CancelClock, WriteClock, InLoop, SeenBy
<1>5. Refusals' /\ DrainCount'
  BY DEF Refusals, InLoop, DrainCount
<1>6. DriverClock'
  BY DriverPaused, DriverFrame
<1> QED
  BY <1>1, <1>3, <1>4, <1>5, <1>6

LEMMA DrainKeeps ==
  ASSUME SupervisorInv, Drain
  PROVE  SupervisorInv'
<1> USE DEF SupervisorInv
<1>1. /\ sup \in SupervisorType /\ now \in Time /\ cancel \in BOOLEAN
      /\ faults \in Nat /\ channel \in Seq(Event) /\ outcome \in Reasons
      /\ Len(channel) \in Nat /\ Len(channel) <= ChannelCap
  BY DEF SupervisorTypeOK
<1>2. /\ sup.pc = "drain" /\ SupervisorStep
      /\ UNCHANGED <<now, drv, shutdown, asked, runtime, outcome, sent, appended,
                     stalls>>
  BY DEF Drain, SupervisorStep
<1>3. PICK pending : pending = (IF sup.blocked = NoEvent THEN <<>> ELSE <<sup.blocked>>)
                                  \o channel
  OBVIOUS
<1>4. IF pending = <<>>
      THEN /\ sup' = [sup EXCEPT !.pc = "finish"]
           /\ UNCHANGED <<channel, cancel, faults>>
      ELSE /\ \E a \in ProcessEvent([sup EXCEPT !.blocked = NoEvent], Head(pending)) :
                 /\ sup' = a.sup
                 /\ Meets(a)
                 /\ cancel' = (cancel \/ a.failed)
           /\ channel' = IF sup.blocked = NoEvent THEN Tail(channel) ELSE channel
  BY <1>3 DEF Drain
<1>5. CASE sup.blocked = NoEvent /\ channel = <<>>
  <2>1. pending = <<>>
    BY <1>3, <1>5
  <2>2. /\ sup' = [sup EXCEPT !.pc = "finish"]
        /\ UNCHANGED <<channel, cancel, faults>>
    BY <1>4, <2>1
  <2>3. /\ sup' \in SupervisorType /\ sup'.pc = "finish"
        /\ sup'.guard = sup.guard /\ sup'.dirty = sup.dirty
        /\ sup'.persistAt = sup.persistAt /\ sup'.blocked = sup.blocked
        /\ sup'.applied = sup.applied /\ sup'.nextPoll = sup.nextPoll
    BY <1>1, <2>2 DEF SupervisorType
  <2>4. sup.applied = sent
    <3>1. /\ sup.applied \in Nat /\ sent \in Nat /\ sup.applied <= sent
          /\ {channel[i].id : i \in Queued} = (sup.applied + 1)..sent
      BY <1>1, <1>5, SupervisorNumbers, StateNumbers DEF EventOrder, Unblocked
    <3>2. Queued = {}
      BY <1>5 DEF Queued
    <3>3. sent \notin (sup.applied + 1)..sent
      BY <3>1, <3>2
    <3> QED
      BY <3>1, <3>3
  <2>5. EventOrder'
    <3>1. Unblocked' = Unblocked /\ Queued' = Queued
      BY <2>2, <2>3 DEF Unblocked, Queued
    <3> QED
      BY <1>2, <2>2, <2>3, <2>4, <3>1 DEF EventOrder
  <2>6. sup'.blocked # NoEvent => sup'.blocked.kind # "heartbeat"
    BY <1>5, <2>3
  <2>7. HeartbeatQueued => HeartbeatQueued'
    BY <2>2 DEF HeartbeatQueued
  <2> QED
    BY <1>1, <1>2, <2>2, <2>3, <2>5, <2>6, <2>7, OutsideLoop
<1>6. ASSUME sup.blocked # NoEvent \/ channel # <<>>,
             NEW e \in Event, e = IF sup.blocked = NoEvent THEN Head(channel)
                                  ELSE sup.blocked
      PROVE  /\ \E a \in ProcessEvent([sup EXCEPT !.blocked = NoEvent], e) :
                  /\ sup' = a.sup
                  /\ Meets(a)
                  /\ cancel' = (cancel \/ a.failed)
             /\ channel' = IF sup.blocked = NoEvent THEN Tail(channel) ELSE channel
  <2>1. pending # <<>> /\ Head(pending) = e
    <3>1. CASE sup.blocked = NoEvent
      <4>1. pending = <<>> \o channel
        BY <1>3, <3>1
      <4>2. pending = channel
        BY <1>1, <4>1, ConcatEmptySeq
      <4> QED
        BY <1>6, <3>1, <4>2
    <3>2. CASE sup.blocked # NoEvent
      <4>1. pending = <<sup.blocked>> \o channel
        BY <1>3, <3>2
      <4>2. sup.blocked \in Event
        BY <1>1, <3>2 DEF SupervisorType
      <4> QED
        BY <1>1, <1>6, <3>2, <4>1, <4>2
    <3> QED
      BY <3>1, <3>2
  <2> QED
    BY <1>4, <2>1
<1>7. CASE sup.blocked # NoEvent \/ channel # <<>>
  <2>1. PICK e \in Event : e = IF sup.blocked = NoEvent THEN Head(channel)
                               ELSE sup.blocked
    BY <1>1, <1>7 DEF SupervisorType
  <2>2. PICK s : s = [sup EXCEPT !.blocked = NoEvent]
    OBVIOUS
  <2>3. PICK a \in ProcessEvent(s, e) : /\ sup' = a.sup
                                        /\ Meets(a)
                                        /\ cancel' = (cancel \/ a.failed)
    BY <1>6, <1>7, <2>1, <2>2
  <2>4. channel' = IF sup.blocked = NoEvent THEN Tail(channel) ELSE channel
    BY <1>6, <1>7, <2>1
  <2>5. /\ s \in SupervisorType /\ s.pc = "drain"
        /\ s.guard = sup.guard /\ s.dirty = sup.dirty
        /\ s.persistAt = sup.persistAt /\ s.blocked = NoEvent
        /\ s.applied = sup.applied /\ s.nextPoll = sup.nextPoll
    BY <1>1, <1>2, <2>2 DEF SupervisorType
  <2>6. Processed(s, e, a)
    BY <1>1, <2>3, <2>5, EventProcessed
  <2>7. /\ cancel' \in BOOLEAN /\ (cancel => cancel')
    BY <1>1, <2>3, <2>6 DEF Processed
  <2>8. faults' \in Nat
    BY <1>1, <2>3 DEF Meets, Fault
  <2>9. /\ sup' \in SupervisorType /\ sup'.pc = "drain"
        /\ sup'.guard.started = sup.guard.started /\ sup'.guard.at = sup.guard.at
        /\ sup'.guard.reason = sup.guard.reason
        /\ sup'.guard.progress \in {sup.guard.progress, now}
        /\ sup'.dirty \in {sup.dirty, Never, now}
        /\ sup'.persistAt = sup.persistAt /\ sup'.nextPoll = sup.nextPoll
    BY <2>3, <2>5, <2>6 DEF Processed, Steady
  <2>10. /\ e.kind = "heartbeat" =>
              /\ sup'.guard.progress = now
              /\ sup'.blocked = NoEvent /\ sup'.applied = sup.applied
         /\ e.kind # "heartbeat" =>
              \/ sup'.blocked = e /\ sup'.applied = sup.applied
              \/ sup'.blocked = NoEvent /\ sup'.applied = e.id
    BY <2>3, <2>5, <2>6 DEF Processed
  <2>11. sup'.blocked # NoEvent => sup'.blocked.kind # "heartbeat"
    BY <2>10
  <2>12. CASE sup.blocked = NoEvent
    <3>1. e = Head(channel) /\ channel' = Tail(channel) /\ channel # <<>>
      BY <1>7, <2>1, <2>4, <2>12
    <3>2. sup'.applied \in Nat /\ sup'.blocked \in Event \cup {NoEvent}
      BY <2>9 DEF SupervisorType
    <3>3. /\ EventOrder'
          /\ channel' \in Seq(Event) /\ Len(channel') = Len(channel) - 1
          /\ HeartbeatQueued /\ Head(channel).kind # "heartbeat" => HeartbeatQueued'
      BY <1>2, <2>9, <2>10, <2>12, <3>1, <3>2, HeadTaken
    <3>4. Len(channel') <= ChannelCap
      BY <1>1, <3>3, LimitsPositive
    <3>5. HeartbeatQueued => HeartbeatQueued' \/ sup'.guard.progress = now
      BY <2>10, <3>1, <3>3
    <3> QED
      BY <1>1, <1>2, <2>7, <2>8, <2>9, <2>11, <3>3, <3>4, <3>5, OutsideLoop
  <2>13. CASE sup.blocked # NoEvent
    <3>1. e = sup.blocked /\ channel' = channel
      BY <2>1, <2>4, <2>13
    <3>2. e.kind # "heartbeat"
      BY <2>13, <3>1 DEF Refusals
    <3>3. EventOrder'
      BY <1>2, <2>9, <2>10, <2>13, <3>1, <3>2, BlockedTaken
    <3>4. HeartbeatQueued => HeartbeatQueued'
      BY <3>1 DEF HeartbeatQueued
    <3> QED
      BY <1>1, <1>2, <2>7, <2>8, <2>9, <2>11, <3>1, <3>3, <3>4, OutsideLoop
  <2> QED
    BY <2>12, <2>13
<1> QED
  BY <1>5, <1>7

LEMMA FinishKeeps ==
  ASSUME SupervisorInv, Finish
  PROVE  SupervisorInv'
<1> USE DEF SupervisorInv
<1>1. /\ sup \in SupervisorType /\ cancel \in BOOLEAN /\ outcome \in Reasons
      /\ faults \in Nat /\ channel \in Seq(Event) /\ Len(channel) <= ChannelCap
  BY DEF SupervisorTypeOK
<1>2. /\ sup.pc = "finish" /\ SupervisorStep
      /\ UNCHANGED <<now, drv, channel, cancel, shutdown, asked, runtime, sent,
                     appended, stalls>>
  BY DEF Finish, SupervisorStep, tokens
<1>3. outcome' \in Reasons /\ faults' \in Nat
  <2>1. FinalReason \in Reasons
    BY <1>1 DEF FinalReason, SupervisorType, Reasons, InterruptReasons
  <2> QED
    BY <1>1, <2>1 DEF Finish, Fault
<1>4. /\ sup' \in SupervisorType /\ sup'.pc \in {"finish", "done"}
      /\ sup'.guard = sup.guard /\ sup'.dirty \in {sup.dirty, Never}
      /\ sup'.persistAt = sup.persistAt /\ sup'.blocked = sup.blocked
      /\ sup'.applied = sup.applied /\ sup'.nextPoll = sup.nextPoll
  <2>1. CASE sup' = [sup EXCEPT !.pc = "done", !.dirty = Never]
    BY <1>1, <2>1 DEF SupervisorType, Moment
  <2>2. CASE sup' = sup
    BY <1>1, <1>2, <2>2
  <2> QED
    BY <2>1, <2>2 DEF Finish
<1>5. EventOrder'
  BY <1>2, <1>4, OrderFrame
<1>6. /\ sup'.blocked # NoEvent => sup'.blocked.kind # "heartbeat"
      /\ HeartbeatQueued => HeartbeatQueued'
  BY <1>2, <1>4 DEF Refusals, HeartbeatQueued
<1> QED
  BY <1>1, <1>2, <1>3, <1>4, <1>5, <1>6, OutsideLoop

-----------------------------------------------------------------------------
(* The driver. *)

\* A step of the driver leaves the supervisor alone.
LEMMA DriverMoves ==
  ASSUME SupervisorInv, sup.pc = "select",
         UNCHANGED <<now, sup, channel, cancel, shutdown, asked, outcome, sent,
                     appended, stalls>>,
         faults' \in Nat, faults' = 0 => faults = 0,
         runtime' \in [journal : Seq(Kinds), tool : BOOLEAN, approval : BOOLEAN,
                       ended : BOOLEAN],
         drv' \in DriverType, DriverClock'
  PROVE  SupervisorInv'
<1> USE DEF SupervisorInv
<1>1. SupervisorTypeOK'
  BY DEF SupervisorTypeOK
<1>2. Clocks' /\ WallClock' /\ CancelClock' /\ WriteClock' /\ Refusals'
  BY LoopFrame
<1>3. EventOrder'
  BY OrderFrame
<1>4. DrainCount'
  BY DEF DrainCount
<1> QED
  BY <1>1, <1>2, <1>3, <1>4

\* A driver that neither sleeps nor evaluates owes the supervisor nothing.
LEMMA DriverElsewhere ==
  ASSUME now' \in Int, drv'.guard.at <= now',
         drv'.pc \notin {"stop", "interrupt", "evaluate", "sleep"}
  PROVE  DriverClock'
BY DEF DriverClock

\* What every action of the driver starts from.
LEMMA DriverState ==
  ASSUME SupervisorInv
  PROVE  /\ drv \in DriverType /\ now \in Time /\ now \in Int /\ now >= 0
         /\ faults \in Nat /\ drv.guard \in GuardType
         /\ drv.guard.at \in Int /\ drv.guard.at <= now
         /\ runtime \in [journal : Seq(Kinds), tool : BOOLEAN, approval : BOOLEAN,
                         ended : BOOLEAN]
BY StateNumbers, DriverNumbers DEF SupervisorInv, SupervisorTypeOK, DriverClock

LEMMA FreshGuard ==
  ASSUME now \in Time
  PROVE  NewGuard(now) \in GuardType /\ NewGuard(now).at = Never
BY DEF NewGuard, GuardType, Moment

\* The driver is left with the reason it returns.
LEMMA ReturnedDriver ==
  ASSUME NEW r \in Reasons, drv \in DriverType, drv' = Returned(r)
  PROVE  drv' \in DriverType /\ drv'.pc = "returned" /\ drv'.guard = drv.guard
BY DEF DriverType, Returned

LEMMA ExecuteKeeps ==
  ASSUME SupervisorInv, Execute
  PROVE  SupervisorInv'
<1>1. /\ sup.pc = "select" /\ drv.pc = "new"
      /\ UNCHANGED <<now, sup, channel, cancel, shutdown, asked, runtime, outcome,
                     sent, appended, stalls, faults>>
  BY DEF Execute, Selecting, tokens, bounds
<1>2. /\ drv' \in DriverType /\ drv'.guard.at <= now
      /\ drv'.pc \in {"returned", "start"}
  <2>1. CASE drv' = Returned("canceled")
    BY <2>1, DriverState, ReturnedDriver DEF Reasons, InterruptReasons
  <2>2. CASE drv' = [drv EXCEPT !.pc = "start", !.guard = NewGuard(now)]
    <3>1. PICK g : g = NewGuard(now)
      OBVIOUS
    <3>2. g \in GuardType /\ g.at <= now
      BY <3>1, DriverState, FreshGuard DEF Never
    <3>3. drv' = [drv EXCEPT !.pc = "start", !.guard = g]
      BY <2>2, <3>1
    <3> QED
      BY <3>2, <3>3, DriverState DEF DriverType
  <2> QED
    BY <2>1, <2>2 DEF Execute
<1>3. DriverClock'
  BY <1>1, <1>2, DriverState, DriverElsewhere
<1> QED
  BY <1>1, <1>2, <1>3, DriverState, DriverMoves

LEMMA StartTurnKeeps ==
  ASSUME SupervisorInv, StartTurn
  PROVE  SupervisorInv'
<1>1. /\ sup.pc = "select" /\ drv.pc = "start"
      /\ UNCHANGED <<now, sup, channel, cancel, shutdown, asked, runtime, outcome,
                     sent, appended, stalls, faults>>
  BY DEF StartTurn, Selecting, tokens, bounds
<1>2. /\ drv' \in DriverType /\ drv'.guard.at <= now
      /\ drv'.pc \in {"returned", "announce", "busy"}
  <2>1. CASE drv' \in {Returned("failed"), Returned("canceled")}
    BY <2>1, DriverState, ReturnedDriver DEF Reasons, InterruptReasons
  <2>2. CASE drv' = [drv EXCEPT !.pc = "announce", !.sending = <<"linked", "status">>]
    <3>1. <<"linked", "status">> \in Seq(EventKinds)
      BY DEF EventKinds
    <3> QED
      BY <2>2, <3>1, DriverState DEF DriverType
  <2>3. CASE drv' = [drv EXCEPT !.pc = "busy", !.wakeAt = now + BusyRetry]
    <3>1. now + BusyRetry \in Nat
      BY DriverState, LimitsPositive
    <3> QED
      BY <2>3, <3>1, DriverState DEF DriverType
  <2> QED
    BY <2>1, <2>2, <2>3 DEF StartTurn
<1>3. DriverClock'
  BY <1>1, <1>2, DriverState, DriverElsewhere
<1> QED
  BY <1>1, <1>2, <1>3, DriverState, DriverMoves

LEMMA BusyWakeKeeps ==
  ASSUME SupervisorInv, BusyWake
  PROVE  SupervisorInv'
<1>1. /\ sup.pc = "select" /\ drv.pc = "busy"
      /\ UNCHANGED <<now, sup, channel, cancel, shutdown, asked, runtime, outcome,
                     sent, appended, stalls, faults>>
  BY DEF BusyWake, Selecting, tokens, bounds
<1>2. /\ drv' \in DriverType /\ drv'.guard.at <= now
      /\ drv'.pc \in {"returned", "start"}
  <2>1. CASE drv' = Returned("canceled")
    BY <2>1, DriverState, ReturnedDriver DEF Reasons, InterruptReasons
  <2>2. CASE drv' = [drv EXCEPT !.pc = "start", !.wakeAt = 0]
    BY <2>2, DriverState DEF DriverType
  <2> QED
    BY <2>1, <2>2 DEF BusyWake
<1>3. DriverClock'
  BY <1>1, <1>2, DriverState, DriverElsewhere
<1> QED
  BY <1>1, <1>2, <1>3, DriverState, DriverMoves

LEMMA AnnouncedKeeps ==
  ASSUME SupervisorInv, Announced
  PROVE  SupervisorInv'
<1>1. /\ sup.pc = "select"
      /\ UNCHANGED <<now, sup, channel, cancel, shutdown, asked, runtime, outcome,
                     sent, appended, stalls, faults>>
      /\ drv' = [drv EXCEPT !.pc = "read", !.guard = NewGuard(now)]
  BY DEF Announced, Selecting, tokens, bounds
<1>2. drv' \in DriverType /\ drv'.guard.at <= now /\ drv'.pc = "read"
  <2>1. PICK g : g = NewGuard(now)
    OBVIOUS
  <2>2. g \in GuardType /\ g.at <= now
    BY <2>1, DriverState, FreshGuard DEF Never
  <2>3. drv' = [drv EXCEPT !.pc = "read", !.guard = g]
    BY <1>1, <2>1
  <2> QED
    BY <2>2, <2>3, DriverState DEF DriverType
<1>3. DriverClock'
  BY <1>1, <1>2, DriverState, DriverElsewhere
<1> QED
  BY <1>1, <1>2, <1>3, DriverState, DriverMoves

LEMMA ReadJournalKeeps ==
  ASSUME SupervisorInv, ReadJournal
  PROVE  SupervisorInv'
<1>1. /\ sup.pc = "select"
      /\ UNCHANGED <<now, sup, channel, cancel, shutdown, asked, outcome, sent,
                     appended, stalls>>
  BY DEF ReadJournal, Selecting, tokens
<1>2. CASE /\ drv' = [drv EXCEPT !.pc = "ingest", !.batch = runtime.journal]
           /\ runtime' = [runtime EXCEPT !.journal = <<>>]
           /\ UNCHANGED faults
  <2>1. drv' \in DriverType /\ drv'.guard.at <= now /\ drv'.pc = "ingest"
    BY <1>2, DriverState DEF DriverType
  <2>2. runtime' \in [journal : Seq(Kinds), tool : BOOLEAN, approval : BOOLEAN,
                      ended : BOOLEAN]
    <3>1. <<>> \in Seq(Kinds)
      OBVIOUS
    <3>2. runtime \in [journal : Seq(Kinds), tool : BOOLEAN, approval : BOOLEAN,
                       ended : BOOLEAN]
      BY DriverState
    <3> QED
      BY <1>2, <3>1, <3>2
  <2>3. DriverClock'
    BY <1>1, <2>1, DriverState, DriverElsewhere
  <2> QED
    BY <1>1, <1>2, <2>1, <2>2, <2>3, DriverState, DriverMoves
<1>3. CASE Fault /\ drv' = Returned("failed") /\ UNCHANGED runtime
  <2>1. drv' \in DriverType /\ drv'.guard.at <= now /\ drv'.pc = "returned"
    BY <1>3, DriverState, ReturnedDriver DEF Reasons
  <2>2. faults' \in Nat /\ faults' # 0
    BY <1>3, DriverState DEF Fault
  <2>3. DriverClock'
    BY <1>1, <2>1, DriverState, DriverElsewhere
  <2> QED
    BY <1>1, <1>3, <2>1, <2>2, <2>3, DriverState, DriverMoves
<1> QED
  BY <1>2, <1>3 DEF ReadJournal

LEMMA StopTurnKeeps ==
  ASSUME SupervisorInv, StopTurn
  PROVE  SupervisorInv'
<1>1. /\ sup.pc = "select" /\ drv.pc = "stop"
      /\ UNCHANGED <<now, sup, channel, cancel, shutdown, asked, runtime, outcome,
                     sent, appended, stalls, faults>>
      /\ drv' = [drv EXCEPT !.pc = "interrupt", !.sending = <<"status">>]
  BY DEF StopTurn, Selecting, tokens, bounds
<1>2. <<"status">> \in Seq(EventKinds)
  BY DEF EventKinds
<1>3. /\ drv' \in DriverType /\ drv'.guard = drv.guard /\ drv'.pc = "interrupt"
      /\ drv'.result = drv.result
  BY <1>1, <1>2, DriverState DEF DriverType
<1>4. DriverClock'
  BY <1>1, <1>3 DEF DriverClock, SupervisorInv
<1> QED
  BY <1>1, <1>3, <1>4, DriverState, DriverMoves

LEMMA TurnDeniedKeeps ==
  ASSUME SupervisorInv, TurnDenied
  PROVE  SupervisorInv'
<1>1. /\ sup.pc = "select" /\ drv.pc = "deny"
      /\ UNCHANGED <<now, sup, channel, cancel, shutdown, asked, runtime, outcome,
                     sent, appended, stalls, faults>>
      /\ drv' = [drv EXCEPT !.pc = "ingest"]
  BY DEF TurnDenied, Selecting, tokens, bounds
<1>2. /\ drv' \in DriverType /\ drv'.guard = drv.guard /\ drv'.pc = "ingest"
  BY <1>1, DriverState DEF DriverType
<1>3. DriverClock'
  BY <1>1, <1>2, DriverState, DriverElsewhere
<1> QED
  BY <1>1, <1>2, <1>3, DriverState, DriverMoves

LEMMA InterruptedKeeps ==
  ASSUME SupervisorInv, Interrupted
  PROVE  SupervisorInv'
<1>1. /\ sup.pc = "select" /\ drv.pc = "interrupt"
      /\ UNCHANGED <<now, sup, channel, cancel, shutdown, asked, runtime, outcome,
                     sent, appended, stalls, faults>>
      /\ drv' = [drv EXCEPT !.pc = "read", !.result = "none",
                            !.guard = NoteInterrupt(drv.guard, drv.result)]
  BY DEF Interrupted, Selecting, tokens, bounds
<1>2. drv.result \in InterruptReasons
  BY <1>1 DEF SupervisorInv, DriverClock
<1>3. PICK g : g = NoteInterrupt(drv.guard, drv.result)
  OBVIOUS
<1>4. g \in GuardType /\ g.at \in {drv.guard.at, now}
  BY <1>2, <1>3, DriverState DEF NoteInterrupt, GuardType, Moment
<1>5. drv' \in DriverType /\ drv'.guard = g /\ drv'.pc = "read"
  BY <1>1, <1>3, <1>4, DriverState DEF DriverType, Reasons
<1>6. DriverClock'
  BY <1>1, <1>4, <1>5, DriverState, DriverElsewhere
<1> QED
  BY <1>1, <1>5, <1>6, DriverState, DriverMoves

LEMMA WakeKeeps ==
  ASSUME SupervisorInv, Wake
  PROVE  SupervisorInv'
<1>1. /\ sup.pc = "select"
      /\ UNCHANGED <<now, sup, channel, cancel, shutdown, asked, runtime, outcome,
                     sent, appended, stalls, faults>>
      /\ drv' = [drv EXCEPT !.pc = "read", !.watching = FALSE, !.wakeAt = 0]
  BY DEF Wake, Selecting, tokens, bounds
<1>2. drv' \in DriverType /\ drv'.guard.at <= now /\ drv'.pc = "read"
  BY <1>1, DriverState DEF DriverType
<1>3. DriverClock'
  BY <1>1, <1>2, DriverState, DriverElsewhere
<1> QED
  BY <1>1, <1>2, <1>3, DriverState, DriverMoves

\* A task event is sent: it is numbered after all others and goes behind them.
LEMMA SendKeeps ==
  ASSUME SupervisorInv, Send
  PROVE  SupervisorInv'
<1> USE DEF SupervisorInv
<1>1. /\ drv \in DriverType /\ channel \in Seq(Event) /\ sent \in Nat
      /\ Len(channel) \in Nat /\ sup.applied \in Nat
  BY SupervisorNumbers DEF SupervisorTypeOK
<1>2. /\ sup.pc = "select" /\ drv.sending # <<>> /\ Len(channel) < ChannelCap
      /\ UNCHANGED <<now, sup, cancel, shutdown, asked, runtime, outcome,
                     appended, stalls, faults>>
  BY DEF Send, Selecting, HasRoom, tokens, bounds
<1>3. PICK kind, id : /\ kind = Head(drv.sending)
                      /\ id = IF kind = "heartbeat" THEN 0 ELSE sent + 1
                      /\ channel' = Append(channel, [kind |-> kind, id |-> id])
                      /\ sent' = IF kind = "heartbeat" THEN sent ELSE sent + 1
                      /\ drv' = [drv EXCEPT !.sending = Tail(drv.sending)]
  BY DEF Send
<1>4. /\ drv.sending \in Seq(EventKinds) /\ kind \in EventKinds
      /\ Tail(drv.sending) \in Seq(EventKinds)
  BY <1>1, <1>2, <1>3 DEF DriverType
<1>5. PICK e : e = [kind |-> kind, id |-> id]
  OBVIOUS
<1>6. e \in Event /\ e.kind = kind /\ e.id = id
  BY <1>1, <1>3, <1>4, <1>5 DEF Event
<1>7. /\ channel' \in Seq(Event) /\ Len(channel') = Len(channel) + 1
      /\ DOMAIN channel' = 1..(Len(channel) + 1) /\ DOMAIN channel = 1..Len(channel)
      /\ channel'[Len(channel) + 1] = e
      /\ \A i \in 1..Len(channel) : channel'[i] = channel[i]
  BY <1>1, <1>3, <1>5, <1>6
<1>8. /\ drv' \in DriverType /\ drv'.pc = drv.pc /\ drv'.guard = drv.guard
      /\ drv'.tool = drv.tool /\ drv'.checked = drv.checked
      /\ drv'.wakeAt = drv.wakeAt /\ drv'.result = drv.result
      /\ drv'.sending = Tail(drv.sending)
  BY <1>1, <1>3, <1>4 DEF DriverType
<1>9. SupervisorTypeOK'
  <2>1. sent' \in Nat
    BY <1>1, <1>3
  <2>2. Len(channel') <= ChannelCap
    BY <1>1, <1>2, <1>7, LimitsPositive
  <2> QED
    BY <1>2, <1>7, <1>8, <2>1, <2>2 DEF SupervisorTypeOK
<1>10. Clocks' /\ WallClock' /\ CancelClock' /\ WriteClock' /\ Refusals'
  BY <1>2, LoopFrame
<1>11. DrainCount'
  BY <1>2 DEF DrainCount
<1>12. EventOrder'
  <2>1. /\ Unblocked' = Unblocked /\ Unblocked \in Nat
    BY <1>1, <1>2 DEF Unblocked
  <2>2. /\ Unblocked <= sent
        /\ sup.blocked # NoEvent => sup.blocked.id = Unblocked
        /\ {channel[i].id : i \in Queued} = (Unblocked + 1)..sent
        /\ \A i, j \in Queued : i < j => channel[i].id < channel[j].id
    BY DEF EventOrder
  <2>3. \A i \in 1..Len(channel) : i \in Queued' <=> i \in Queued
    BY <1>1, <1>7 DEF Queued
  <2>4. Len(channel) + 1 \in Queued' <=> kind # "heartbeat"
    BY <1>1, <1>6, <1>7 DEF Queued
  <2>5. \A i \in Queued : i \in 1..Len(channel) /\ channel[i].id \in (Unblocked + 1)..sent
    BY <1>7, <2>2 DEF Queued
  <2>6. \A i \in Queued' : i \in 1..Len(channel) \/ i = Len(channel) + 1
    BY <1>1, <1>7 DEF Queued
  <2>7. \A i, j \in Queued' : i < j => channel'[i].id < channel'[j].id
    <3> SUFFICES ASSUME NEW i \in Queued', NEW j \in Queued', i < j
                 PROVE  channel'[i].id < channel'[j].id
      OBVIOUS
    <3>1. i \in 1..Len(channel)
      BY <1>1, <2>6
    <3>2. i \in Queued /\ channel'[i].id \in (Unblocked + 1)..sent
      BY <1>7, <2>3, <2>5, <3>1
    <3>3. CASE j \in 1..Len(channel)
      <4>1. j \in Queued /\ channel'[j] = channel[j] /\ channel'[i] = channel[i]
        BY <1>7, <2>3, <3>1, <3>3
      <4> QED
        BY <2>2, <3>2, <4>1
    <3>4. CASE j = Len(channel) + 1
      <4>1. kind # "heartbeat"
        BY <2>4, <3>4
      <4>2. channel'[j].id = sent + 1
        BY <1>3, <1>6, <1>7, <3>4, <4>1
      <4>3. PICK n : n = channel'[i].id
        OBVIOUS
      <4>4. n \in (Unblocked + 1)..sent
        BY <3>2, <4>3
      <4>5. n < sent + 1
        BY <1>1, <2>1, <4>4
      <4> QED
        BY <4>2, <4>3, <4>5
    <3> QED
      BY <2>6, <3>3, <3>4
  <2>8. ASSUME NEW n \in {channel'[i].id : i \in Queued'}
        PROVE  n \in (Unblocked + 1)..sent'
    <3>1. PICK i \in Queued' : n = channel'[i].id
      BY <2>8
    <3>2. CASE i \in 1..Len(channel)
      <4>1. n \in (Unblocked + 1)..sent
        BY <1>7, <2>3, <2>5, <3>1, <3>2
      <4> QED
        BY <1>1, <1>3, <2>1, <4>1
    <3>3. CASE i = Len(channel) + 1
      BY <1>1, <1>3, <1>6, <1>7, <2>1, <2>2, <2>4, <3>1, <3>3
    <3> QED
      BY <2>6, <3>2, <3>3
  <2>9. ASSUME NEW n \in (Unblocked + 1)..sent'
        PROVE  n \in {channel'[i].id : i \in Queued'}
    <3>1. CASE n \in (Unblocked + 1)..sent
      <4>1. PICK i \in Queued : n = channel[i].id
        BY <2>2, <3>1
      <4>2. i \in Queued' /\ channel'[i] = channel[i]
        BY <1>7, <2>3, <2>5, <4>1
      <4> QED
        BY <4>1, <4>2
    <3>2. CASE n = sent + 1 /\ kind # "heartbeat"
      BY <1>3, <1>6, <1>7, <2>4, <3>2
    <3>3. n \in (Unblocked + 1)..sent \/ (n = sent + 1 /\ kind # "heartbeat")
      <4>1. CASE kind = "heartbeat"
        BY <1>3, <2>9, <4>1
      <4>2. CASE kind # "heartbeat"
        <5>1. sent' = sent + 1
          BY <1>3, <4>2
        <5> QED
          BY <1>1, <2>1, <2>9, <4>2, <5>1
      <4> QED
        BY <4>1, <4>2
    <3> QED
      BY <3>1, <3>2, <3>3
  <2>10. {channel'[i].id : i \in Queued'} = (Unblocked + 1)..sent'
    BY <2>8, <2>9
  <2>11. Unblocked <= sent'
    BY <1>1, <1>3, <2>1, <2>2
  <2> QED
    BY <1>2, <2>1, <2>2, <2>7, <2>10, <2>11 DEF EventOrder
<1>13. DriverClock'
  <2>1. HeartbeatQueued => HeartbeatQueued'
    BY <1>1, <1>7 DEF HeartbeatQueued
  <2>2. kind = "heartbeat" => HeartbeatQueued'
    BY <1>1, <1>6, <1>7 DEF HeartbeatQueued
  <2>3. drv.pc = "evaluate" /\ drv.tool => drv'.sending = <<>> /\ HeartbeatQueued'
    <3>1. ASSUME drv.sending = <<"heartbeat">>
          PROVE  kind = "heartbeat" /\ Tail(drv.sending) = <<>>
      BY <1>3, <3>1
    <3> QED
      BY <1>2, <1>8, <2>2, <3>1 DEF DriverClock
  <2>4. DriverNap' = DriverNap
    BY <1>8 DEF DriverNap
  <2>5. /\ drv'.guard.at <= now
        /\ drv'.pc \in {"stop", "interrupt"} => drv'.result \in InterruptReasons
        /\ drv'.pc = "evaluate" => drv'.guard.at <= drv'.checked
        /\ drv'.pc = "sleep" =>
              now <= drv'.wakeAt + stalls /\ drv'.wakeAt <= now + DriverNap
        /\ drv'.pc = "sleep" /\ drv'.tool =>
              HeartbeatQueued \/ drv'.wakeAt <= sup.guard.progress + DriverNap
    BY <1>8 DEF DriverClock
  <2> QED
    BY <1>2, <1>8, <2>1, <2>3, <2>4, <2>5 DEF DriverClock
<1> QED
  BY <1>9, <1>10, <1>11, <1>12, <1>13

\* What becomes of a journal event.
LEMMA IngestKeeps ==
  ASSUME SupervisorInv, Ingest
  PROVE  SupervisorInv'
<1>1. /\ sup.pc = "select" /\ drv.pc = "ingest" /\ drv.batch # <<>>
      /\ UNCHANGED <<now, sup, channel, cancel, shutdown, asked, runtime, outcome,
                     sent, appended, stalls, faults>>
  BY DEF Ingest, Selecting, tokens, bounds
<1> DEFINE kind == Head(drv.batch)
           sending == Ingested(kind)
           tool == (drv.tool \/ kind = "tool_start") /\ kind # "tool_end"
           approval == CASE kind = "approval" -> now + ApprovalWindow
                         [] kind = "decided" -> Never
                         [] OTHER -> drv.approval
           g == IF kind \in RuntimeProgress THEN NoteProgress(drv.guard) ELSE drv.guard
           end == IF TurnReason(kind) # "none" THEN TurnReason(kind) ELSE drv.end
           pc == IF kind = "approval_timeout" THEN "deny" ELSE drv.pc
<1>2. drv' = [drv EXCEPT !.pc = pc, !.batch = Tail(drv.batch), !.sending = sending,
                         !.tool = tool, !.approval = approval, !.guard = g,
                         !.end = end]
  BY Zenon DEF Ingest
<1>3. /\ drv.batch \in Seq(Kinds) /\ drv.tool \in BOOLEAN /\ drv.end \in Reasons
      /\ drv.approval \in Nat \cup {Never}
  BY DriverState DEF DriverType
<1>4. kind \in Kinds /\ Tail(drv.batch) \in Seq(Kinds)
  BY <1>1, <1>3
<1>5. sending \in Seq(EventKinds)
  <2>1. /\ <<"runtime">> \in Seq(EventKinds) /\ <<"delta">> \in Seq(EventKinds)
        /\ <<"tool_started">> \in Seq(EventKinds) /\ <<"status">> \in Seq(EventKinds)
        /\ <<"tool_completed">> \in Seq(EventKinds) /\ <<"error">> \in Seq(EventKinds)
        /\ <<>> \in Seq(EventKinds)
    BY DEF EventKinds
  <2>2. PICK rest : rest = CASE kind = "message" -> <<"delta">>
                             [] kind = "tool_start" -> <<"tool_started">>
                             [] kind = "tool_end" -> <<"tool_completed">>
                             [] kind = "notice" -> <<"status">>
                             [] kind = "store_failed" -> <<"error">>
                             [] OTHER -> <<>>
    OBVIOUS
  <2>3. rest \in Seq(EventKinds)
    BY <2>1, <2>2
  <2>4. sending = <<"runtime">> \o rest
    BY <2>2 DEF Ingested
  <2> QED
    BY <2>1, <2>3, <2>4, ConcatProperties
<1>6. tool \in BOOLEAN
  BY <1>3
<1>7. approval \in Nat \cup {Never}
  <2>1. now + ApprovalWindow \in Nat
    BY DriverState, LimitsPositive
  <2> QED
    BY <1>3, <2>1
<1>8. g \in GuardType /\ g.at = drv.guard.at
  BY DriverState DEF NoteProgress, GuardType
<1>9. end \in Reasons
  BY <1>3 DEF TurnReason, Reasons, InterruptReasons
<1>12. pc \in {"ingest", "deny"}
  BY <1>1
<1> HIDE DEF kind, sending, tool, approval, g, end, pc
<1>10. drv' \in DriverType /\ drv'.pc \in {"ingest", "deny"} /\ drv'.guard = g
  BY <1>12, <1>1, <1>2, <1>4, <1>5, <1>6, <1>7, <1>8, <1>9, DriverState DEF DriverType
<1>11. DriverClock'
  BY <1>1, <1>8, <1>10, DriverState, DriverElsewhere
<1> QED
  BY <1>1, <1>10, <1>11, DriverState, DriverMoves

\* The batch is done; a running tool sends its heartbeat before the driver
\* looks at its guard.
LEMMA CheckKeeps ==
  ASSUME SupervisorInv, Check
  PROVE  SupervisorInv'
<1>1. /\ sup.pc = "select" /\ drv.pc = "ingest"
      /\ UNCHANGED <<now, sup, channel, cancel, shutdown, asked, runtime, outcome,
                     sent, appended, stalls, faults>>
  BY DEF Check, Selecting, tokens, bounds
<1>2. CASE drv.end # "none"
  <2>1. PICK r : r = PreserveTimeoutReason(drv.guard, drv.end) /\ drv' = Returned(r)
    BY <1>2 DEF Check
  <2>2. drv.end \in Reasons /\ drv.guard \in GuardType
    BY DriverState DEF DriverType
  <2>3. r \in Reasons
    BY <2>1, <2>2 DEF PreserveTimeoutReason, Reasons, InterruptReasons
  <2>4. drv' \in DriverType /\ drv'.guard = drv.guard /\ drv'.pc = "returned"
    BY <2>1, <2>3, DriverState, ReturnedDriver
  <2>5. DriverClock'
    BY <1>1, <2>4, DriverState, DriverElsewhere
  <2> QED
    BY <1>1, <2>4, <2>5, DriverState, DriverMoves
<1>3. CASE drv.end = "none"
  <2> DEFINE waits == drv.approval # Never /\ now < drv.approval
             approval == IF waits THEN drv.approval ELSE Never
             g == IF waits \/ drv.tool THEN NoteProgress(drv.guard) ELSE drv.guard
             sending == Heartbeat
  <2>1. drv' = [drv EXCEPT !.pc = "evaluate", !.checked = now,
                           !.approval = approval, !.guard = g, !.sending = sending]
    BY <1>3, Zenon DEF Check
  <2>2. approval \in Nat \cup {Never}
    BY DriverState DEF DriverType
  <2>3. g \in GuardType /\ g.at = drv.guard.at
    BY DriverState DEF NoteProgress, GuardType
  <2>4. /\ sending \in Seq(EventKinds)
        /\ drv.tool => sending = <<"heartbeat">>
    <3>1. <<"heartbeat">> \in Seq(EventKinds) /\ <<>> \in Seq(EventKinds)
      BY DEF EventKinds
    <3>2. sending = IF drv.tool THEN <<"heartbeat">> ELSE <<>>
      BY DEF Heartbeat
    <3> HIDE DEF sending
    <3>3. CASE drv.tool
      BY <3>1, <3>2, <3>3, Zenon
    <3>4. CASE ~drv.tool
      BY <3>1, <3>2, <3>4, Zenon
    <3> QED
      BY <3>3, <3>4
  <2> HIDE DEF waits, approval, g, sending
  <2>5. /\ drv' \in DriverType /\ drv'.pc = "evaluate" /\ drv'.guard = g
        /\ drv'.checked = now /\ drv'.sending = sending /\ drv'.tool = drv.tool
    BY <2>1, <2>2, <2>3, <2>4, DriverState DEF DriverType
  <2>6. DriverClock'
    <3>1. drv.guard.at <= now
      BY DriverState
    <3> QED
      BY <1>1, <2>3, <2>4, <2>5, <3>1 DEF DriverClock
  <2> QED
    BY <1>1, <2>5, <2>6, DriverState, DriverMoves
<1> QED
  BY <1>2, <1>3

\* The driver's guard: the heartbeat of a running tool is in the channel when
\* the driver goes to sleep, and the sleep is no longer than a nap.
LEMMA DriverGuardKeeps ==
  ASSUME SupervisorInv, DriverGuard
  PROVE  SupervisorInv'
<1>1. /\ sup.pc = "select" /\ drv.pc = "evaluate" /\ drv.sending = <<>>
      /\ UNCHANGED <<now, sup, channel, cancel, shutdown, asked, runtime, outcome,
                     sent, appended, stalls, faults>>
  BY DEF DriverGuard, Selecting, tokens, bounds
<1>2. PICK act : act = Evaluate(drv.guard, drv.checked, cancel, FALSE)
  OBVIOUS
<1>3. drv' = CASE act.do = "interrupt" ->
                    [drv EXCEPT !.pc = "stop", !.checked = 0, !.result = act.reason]
               [] act.do = "terminalize" -> Returned(act.reason)
               [] act.do = "run" ->
                    [drv EXCEPT !.pc = "sleep", !.checked = 0, !.watching = ~cancel,
                                !.wakeAt = now + act.wait]
  BY <1>2 DEF DriverGuard
<1>4. cancel \in BOOLEAN /\ drv.checked \in Int /\ stalls \in Int /\ stalls >= 0
  BY DriverNumbers, StateNumbers DEF SupervisorInv, SupervisorTypeOK
<1>5. Verdict(drv.guard, drv.checked, cancel, FALSE, act)
  BY <1>2, <1>4, DriverState, Evaluated
<1>. 0 \in Time
  BY LimitsPositive DEF Time
<1>6. CASE act.do = "interrupt"
  <2>1. drv' = [drv EXCEPT !.pc = "stop", !.checked = 0, !.result = act.reason]
    BY <1>3, <1>6
  <2>2. act.reason \in InterruptReasons
    BY <1>5, <1>6 DEF Verdict
  <2>3. /\ drv' \in DriverType /\ drv'.pc = "stop" /\ drv'.guard = drv.guard
        /\ drv'.result = act.reason
    BY <2>1, <2>2, DriverState DEF DriverType, Reasons
  <2>4. DriverClock'
    BY <1>1, <2>2, <2>3, DriverState DEF DriverClock
  <2> QED
    BY <1>1, <2>3, <2>4, DriverState, DriverMoves
<1>7. CASE act.do = "terminalize"
  <2>1. drv' = Returned(act.reason)
    BY <1>3, <1>7
  <2>2. act.reason \in Reasons
    BY <1>5 DEF Verdict
  <2>3. drv' \in DriverType /\ drv'.guard = drv.guard /\ drv'.pc = "returned"
    BY <2>1, <2>2, DriverState, ReturnedDriver
  <2>4. DriverClock'
    BY <1>1, <2>3, DriverState, DriverElsewhere
  <2> QED
    BY <1>1, <2>3, <2>4, DriverState, DriverMoves
<1>8. CASE act.do = "run"
  <2>1. drv' = [drv EXCEPT !.pc = "sleep", !.checked = 0, !.watching = ~cancel,
                           !.wakeAt = now + act.wait]
    BY <1>3, <1>8
  <2>2. /\ act.wait \in Int /\ act.wait > 0
        /\ drv.guard.at # Never => act.wait = drv.guard.at + CancelGrace - drv.checked
        /\ drv.guard.at = Never => act.wait <= Refresh
    BY <1>5, <1>8 DEF Verdict
  <2>3. now + act.wait \in Nat /\ (~cancel) \in BOOLEAN
    BY <1>4, <2>2, DriverState
  <2>4. /\ drv' \in DriverType /\ drv'.pc = "sleep" /\ drv'.guard = drv.guard
        /\ drv'.wakeAt = now + act.wait /\ drv'.tool = drv.tool
    BY <2>1, <2>3, DriverState DEF DriverType
  <2>5. /\ drv.guard.at <= drv.checked
        /\ drv.tool => HeartbeatQueued
    <3>1. /\ drv.guard.at <= drv.checked
          /\ drv.tool => drv.sending = <<"heartbeat">> \/ HeartbeatQueued
      BY <1>1 DEF SupervisorInv, DriverClock
    <3>2. drv.sending # <<"heartbeat">>
      BY <1>1
    <3> QED
      BY <3>1, <3>2
  <2>6. /\ DriverNap' = DriverNap /\ act.wait <= DriverNap /\ DriverNap \in Int
    BY <1>4, <2>2, <2>4, <2>5, DriverState, LimitsPositive DEF DriverNap
  <2>7. HeartbeatQueued' = HeartbeatQueued
    BY <1>1 DEF HeartbeatQueued
  <2>8. /\ now <= drv'.wakeAt + stalls
        /\ drv'.wakeAt <= now + DriverNap
    BY <1>4, <2>2, <2>4, <2>6, DriverState
  <2>9. DriverClock'
    BY <1>1, <2>4, <2>5, <2>6, <2>7, <2>8, DriverState DEF DriverClock
  <2> QED
    BY <1>1, <2>4, <2>9, DriverState, DriverMoves
<1> QED
  BY <1>5, <1>6, <1>7, <1>8 DEF Verdict

-----------------------------------------------------------------------------
(* The runtime, requests and time. *)

LEMMA JournalEventKeeps ==
  ASSUME SupervisorInv, NEW kind \in JournalKinds, JournalEvent(kind)
  PROVE  SupervisorInv'
<1> USE DEF SupervisorInv
<1>1. /\ appended \in Nat /\ appended' = appended + 1
      /\ UNCHANGED <<now, sup, drv, channel, cancel, shutdown, asked, outcome,
                     sent, stalls, faults>>
  BY DEF JournalEvent, tokens, SupervisorTypeOK
<1>2. runtime' \in [journal : Seq(Kinds), tool : BOOLEAN, approval : BOOLEAN,
                    ended : BOOLEAN]
  <2> DEFINE tool == (runtime.tool \/ kind = "tool_start") /\ kind # "tool_end"
             approval == (runtime.approval \/ kind = "approval")
                            /\ kind \notin {"decided", "approval_timeout"}
             ended == kind \in TurnEnds
             journal == Append(runtime.journal, kind)
  <2>1. /\ runtime.journal \in Seq(Kinds) /\ runtime.tool \in BOOLEAN
        /\ runtime.approval \in BOOLEAN /\ kind \in Kinds
    BY LimitsAssumption, DriverState
  <2>2. tool \in BOOLEAN /\ approval \in BOOLEAN
    BY <2>1, Zenon
  <2>3. ended \in BOOLEAN
    BY SMT DEF TurnEnds
  <2>4. journal \in Seq(Kinds)
    BY <2>1
  <2>5. runtime' = [journal |-> journal, tool |-> tool, approval |-> approval,
                    ended |-> ended]
    BY Zenon DEF JournalEvent
  <2> HIDE DEF journal, tool, approval, ended
  <2> QED
    BY <2>2, <2>3, <2>4, <2>5
<1>3. SupervisorTypeOK'
  BY <1>1, <1>2 DEF SupervisorTypeOK
<1>4. Clocks' /\ WallClock' /\ CancelClock' /\ WriteClock' /\ Refusals'
  BY <1>1, LoopFrame
<1>5. EventOrder'
  BY <1>1, OrderFrame
<1>6. DriverClock' /\ DrainCount'
  BY <1>1 DEF DriverClock, DrainCount, HeartbeatQueued, DriverNap
<1> QED
  BY <1>3, <1>4, <1>5, <1>6

LEMMA AskCancelKeeps ==
  ASSUME SupervisorInv, AskCancel
  PROVE  SupervisorInv'
<1> USE DEF SupervisorInv
<1>1. /\ asked = Never /\ asked' = now /\ cancel' \in {cancel, TRUE}
      /\ cancel \in BOOLEAN
      /\ UNCHANGED <<now, sup, drv, channel, shutdown, runtime, outcome, sent,
                     appended, stalls, faults>>
  BY DEF AskCancel, bounds, SupervisorTypeOK
<1>2. cancel' \in BOOLEAN /\ (cancel => cancel')
  <2>1. CASE cancel' = TRUE
    BY <2>1
  <2>2. CASE cancel' = cancel
    BY <1>1, <2>2, Zenon
  <2> QED
    BY <1>1, <2>1, <2>2
<1>3. SupervisorTypeOK'
  BY <1>1, <1>2 DEF SupervisorTypeOK, Moment
<1>4. /\ now \in Int /\ now >= 0 /\ stalls \in Int /\ stalls >= 0
      /\ sup.guard.at \in Int /\ sup.nextPoll \in Int /\ sup.wakeAt \in Int
  BY StateNumbers, SupervisorNumbers DEF SupervisorTypeOK
<1>5. Clocks' /\ WallClock'
  BY <1>1, <1>4 DEF Clocks, WallClock, InLoop, ReasonNamed
<1>6. CancelClock'
  BY <1>1, <1>4, LimitsPositive DEF CancelClock, Clocks, InLoop, SeenBy
<1>7. WriteClock'
  BY <1>1 DEF WriteClock, InLoop
<1>8. Refusals' /\ DrainCount'
  BY <1>1, <1>2 DEF Refusals, InLoop, DrainCount
<1>9. EventOrder'
  BY <1>1, OrderFrame
<1>10. DriverClock'
  BY <1>1 DEF DriverClock, HeartbeatQueued, DriverNap
<1> QED
  BY <1>3, <1>5, <1>6, <1>7, <1>8, <1>9, <1>10

LEMMA RequestShutdownKeeps ==
  ASSUME SupervisorInv, RequestShutdown
  PROVE  SupervisorInv'
<1> USE DEF SupervisorInv
<1>1. /\ shutdown' = TRUE
      /\ UNCHANGED <<now, sup, drv, channel, cancel, asked, runtime, outcome, sent,
                     appended, stalls, faults>>
  BY DEF RequestShutdown, bounds
<1>2. SupervisorTypeOK'
  BY <1>1 DEF SupervisorTypeOK
<1>3. Clocks' /\ WallClock' /\ CancelClock' /\ WriteClock' /\ Refusals'
  BY <1>1, LoopFrame
<1>4. EventOrder'
  BY <1>1, OrderFrame
<1>5. DriverClock' /\ DrainCount'
  BY <1>1 DEF DriverClock, DrainCount, HeartbeatQueued, DriverNap
<1> QED
  BY <1>2, <1>3, <1>4, <1>5

\* Time passes in the select up to its deadline, a due write and the
\* driver's wake.
LEMMA TickKeeps ==
  ASSUME SupervisorInv, Tick
  PROVE  SupervisorInv'
<1> USE DEF SupervisorInv
<1>1. /\ sup.pc = "select" /\ ~FlushDue /\ now < sup.wakeAt /\ now < Horizon
      /\ drv.pc = "sleep" => ~Woken
      /\ now' = now + 1
      /\ UNCHANGED <<sup, drv, channel, cancel, shutdown, asked, runtime, outcome,
                     sent, appended, stalls, faults>>
  BY DEF Tick, Branching, Selecting, tokens, bounds
<1>2. /\ now \in Int /\ now >= 0 /\ stalls \in Int /\ stalls >= 0 /\ asked \in Int
      /\ sup.guard.at \in Int /\ sup.nextPoll \in Int /\ sup.wakeAt \in Int
      /\ sup.dirty \in Int /\ sup.persistAt \in Int
      /\ drv.guard.at \in Int /\ drv.wakeAt \in Int
  BY StateNumbers, SupervisorNumbers, DriverNumbers DEF SupervisorTypeOK
<1>3. SupervisorTypeOK'
  <2>1. now' \in Time
    BY <1>1, <1>2, LimitsPositive DEF Time
  <2> QED
    BY <1>1, <2>1 DEF SupervisorTypeOK
<1>4. Clocks'
  BY <1>1, <1>2, LimitsPositive DEF Clocks, ReasonNamed
<1>5. WallClock'
  BY <1>1, <1>2, LimitsPositive DEF WallClock, InLoop
<1>6. CancelClock'
  BY <1>1, <1>2, LimitsPositive DEF CancelClock, WallClock, InLoop, SeenBy
<1>7. WriteClock'
  BY <1>1, <1>2, LimitsPositive DEF WriteClock, InLoop, FlushDue
<1>8. Refusals' /\ DrainCount'
  BY <1>1 DEF Refusals, InLoop, DrainCount
<1>9. EventOrder'
  BY <1>1, OrderFrame
<1>10. DriverClock'
  <2>1. DriverNap' = DriverNap /\ HeartbeatQueued' = HeartbeatQueued /\ DriverNap \in Int
    BY <1>1, LimitsPositive DEF DriverNap, HeartbeatQueued
  <2>2. drv.pc = "sleep" => now < drv.wakeAt
    BY <1>1, <1>2 DEF Woken
  <2>3. /\ drv.guard.at <= now'
        /\ drv.pc = "sleep" =>
              now' <= drv.wakeAt + stalls /\ drv.wakeAt <= now' + DriverNap
    BY <1>1, <1>2, <2>1, <2>2 DEF DriverClock
  <2> QED
    BY <1>1, <2>1, <2>3 DEF DriverClock
<1> QED
  BY <1>3, <1>4, <1>5, <1>6, <1>7, <1>8, <1>9, <1>10

LEMMA StallKeeps ==
  ASSUME SupervisorInv, Stall
  PROVE  SupervisorInv'
<1> USE DEF SupervisorInv
<1>1. /\ sup.pc \in {"poll", "retry", "guard", "queued"} /\ now < Horizon
      /\ now' = now + 1 /\ stalls' = stalls + 1
      /\ UNCHANGED <<sup, drv, channel, cancel, shutdown, asked, runtime, outcome,
                     sent, appended, faults>>
  BY DEF Stall, tokens
<1>2. /\ now \in Int /\ now >= 0 /\ stalls \in Nat /\ stalls >= 0 /\ asked \in Int
      /\ sup.guard.at \in Int /\ sup.nextPoll \in Int /\ sup.wakeAt \in Int
      /\ sup.dirty \in Int /\ sup.persistAt \in Int
      /\ drv.guard.at \in Int /\ drv.wakeAt \in Int
  BY StateNumbers, SupervisorNumbers, DriverNumbers DEF SupervisorTypeOK
<1>3. SupervisorTypeOK'
  <2>1. now' \in Time /\ stalls' \in Nat
    BY <1>1, <1>2, LimitsPositive DEF Time
  <2> QED
    BY <1>1, <2>1 DEF SupervisorTypeOK
<1>4. Clocks'
  BY <1>1, <1>2, LimitsPositive DEF Clocks, ReasonNamed
<1>5. WallClock'
  BY <1>1, <1>2, LimitsPositive DEF WallClock, InLoop
<1>6. CancelClock'
  BY <1>1, <1>2, LimitsPositive DEF CancelClock, InLoop, SeenBy
<1>7. WriteClock'
  BY <1>1, <1>2, LimitsPositive DEF WriteClock, InLoop
<1>8. Refusals' /\ DrainCount'
  BY <1>1 DEF Refusals, InLoop, DrainCount
<1>9. EventOrder'
  BY <1>1, OrderFrame
<1>10. DriverClock'
  <2>1. DriverNap' = DriverNap /\ HeartbeatQueued' = HeartbeatQueued /\ DriverNap \in Int
    BY <1>1, LimitsPositive DEF DriverNap, HeartbeatQueued
  <2>2. /\ drv.guard.at <= now'
        /\ drv.pc = "sleep" =>
              now' <= drv.wakeAt + stalls' /\ drv.wakeAt <= now' + DriverNap
    BY <1>1, <1>2, <2>1 DEF DriverClock
  <2> QED
    BY <1>1, <2>1, <2>2 DEF DriverClock
<1> QED
  BY <1>3, <1>4, <1>5, <1>6, <1>7, <1>8, <1>9, <1>10

-----------------------------------------------------------------------------
(* The theorems. *)

LEMMA SupervisorInvInit ==
  ASSUME Init
  PROVE  SupervisorInv
<1>1. 0 \in Time /\ Never \in Moment /\ 0 \in Int /\ now = 0
  BY LimitsPositive DEF Time, Moment, Init
<1>2. NewGuard(0) \in GuardType
  BY <1>1 DEF NewGuard, GuardType, Moment
<1>3. sup \in SupervisorType
  BY <1>1, <1>2 DEF Init, NewSupervisor, SupervisorType, Reasons
<1>4. drv \in DriverType
  <2>1. <<>> \in Seq(Kinds) /\ <<>> \in Seq(EventKinds)
    OBVIOUS
  <2> QED
    BY <1>1, <1>2, <2>1 DEF Init, NewDriver, DriverType, Reasons
<1>5. SupervisorTypeOK
  <2>1. channel \in Seq(Event) /\ Len(channel) <= ChannelCap
    BY LimitsPositive DEF Init
  <2>2. runtime \in [journal : Seq(Kinds), tool : BOOLEAN, approval : BOOLEAN,
                    ended : BOOLEAN]
    BY DEF Init
  <2>3. cancel \in BOOLEAN /\ shutdown \in BOOLEAN
    BY Zenon DEF Init
  <2>4. asked \in Moment /\ outcome \in Reasons
    BY <1>1 DEF Init, Reasons
  <2>5. {sent, appended, stalls, faults} \subseteq Nat
    BY DEF Init
  <2> QED
    BY <1>1, <1>3, <1>4, <2>1, <2>2, <2>3, <2>4, <2>5 DEF SupervisorTypeOK
<1>6. /\ sup.pc = "poll" /\ sup.guard = NewGuard(0) /\ sup.dirty = Never
      /\ sup.persistAt = Never /\ sup.nextPoll = 0 /\ sup.blocked = NoEvent
      /\ sup.applied = 0 /\ drv.pc = "new" /\ drv.guard = NewGuard(0)
      /\ asked = Never /\ stalls = 0 /\ sent = 0 /\ channel = <<>>
  BY DEF Init, NewSupervisor, NewDriver
<1>7. /\ sup.guard.started = 0 /\ sup.guard.at = Never /\ sup.guard.reason = "none"
      /\ drv.guard.at = Never
  BY <1>6 DEF NewGuard
<1>8. Clocks /\ WallClock /\ CancelClock /\ WriteClock
  BY <1>1, <1>6, <1>7, LimitsPositive
  DEF Clocks, WallClock, CancelClock, WriteClock, ReasonNamed, InLoop, Never
<1>9. Refusals /\ DriverClock /\ DrainCount
  BY <1>1, <1>6, <1>7 DEF Refusals, DriverClock, DrainCount, Never
<1>10. EventOrder
  <2>1. Unblocked = 0 /\ Queued = {}
    BY <1>6 DEF Unblocked, Queued
  <2>2. {channel[i].id : i \in Queued} = (0 + 1)..0
    BY <2>1
  <2> QED
    BY <1>6, <2>1, <2>2 DEF EventOrder
<1> QED
  BY <1>5, <1>8, <1>9, <1>10 DEF SupervisorInv

LEMMA SupervisorInvNext ==
  ASSUME SupervisorInv, [Next]_vars
  PROVE  SupervisorInv'
<1>1. CASE SupervisorStep
  BY <1>1, PollKeeps, RetryKeeps, GuardKeeps, DrainQueuedKeeps, ExecReturnedKeeps,
     FlushKeeps, ReceiveKeeps, SeeShutdownKeeps, TimerKeeps, DrainKeeps, FinishKeeps
  DEF SupervisorStep
<1>2. CASE DriverStep
  BY <1>2, ExecuteKeeps, BusyWakeKeeps, SendKeeps, AnnouncedKeeps, IngestKeeps,
     CheckKeeps, DriverGuardKeeps, InterruptedKeeps, WakeKeeps
  DEF DriverStep
<1>3. CASE RuntimeAnswer
  BY <1>3, StartTurnKeeps, ReadJournalKeeps, TurnDeniedKeeps, StopTurnKeeps
     DEF RuntimeAnswer
<1>4. CASE \E kind \in JournalKinds : JournalEvent(kind)
  BY <1>4, JournalEventKeeps
<1>5. CASE AskCancel \/ RequestShutdown \/ Tick \/ Stall
  BY <1>5, AskCancelKeeps, RequestShutdownKeeps, TickKeeps, StallKeeps
<1>6. CASE UNCHANGED vars
  <2>1. UNCHANGED <<now, sup, drv, channel, cancel, shutdown, asked, runtime,
                    outcome, sent, appended, stalls, faults>>
    BY <1>6 DEF vars
  <2>2. SupervisorTypeOK'
    BY <2>1 DEF SupervisorInv, SupervisorTypeOK
  <2>3. Clocks' /\ WallClock' /\ CancelClock' /\ WriteClock' /\ Refusals'
    BY <2>1, LoopFrame DEF SupervisorInv
  <2>4. EventOrder'
    BY <2>1, OrderFrame DEF SupervisorInv
  <2>5. DriverClock' /\ DrainCount'
    BY <2>1 DEF SupervisorInv, DriverClock, DrainCount, HeartbeatQueued, DriverNap
  <2> QED
    BY <2>2, <2>3, <2>4, <2>5 DEF SupervisorInv
<1> QED
  BY <1>1, <1>2, <1>3, <1>4, <1>5, <1>6 DEF Next

\* The invariant holds in every state of an execution: the two loops, their
\* deadlines, the channel and the driver's sleep (run_task and
\* drive_engine_turn).
THEOREM SupervisorInvariant == Spec => []SupervisorInv
<1>1. Init => SupervisorInv
  BY SupervisorInvInit
<1>2. SupervisorInv /\ [Next]_vars => SupervisorInv'
  BY SupervisorInvNext
<1> QED
  BY <1>1, <1>2, PTL DEF Spec

\* The locals of the two loops keep their types and the channel of task
\* events its capacity (run_task, drive_engine_turn).
THEOREM SupervisorTypes == Spec => []SupervisorTypeOK
BY SupervisorInvariant, PTL DEF SupervisorInv

\* For all limits, an execution is out of the loop once its wall time, the
\* grace and the stalls are spent: whatever the executor, the store and the
\* traffic on the channel do (ExecutionGuard::evaluate, run_task).
THEOREM WorkerReleased == Spec => []Deadline
<1>1. SupervisorInv => Deadline
  BY DEF SupervisorInv, WallClock, Deadline
<1> QED
  BY <1>1, SupervisorInvariant, PTL

\* For all limits, a recorded cancellation ends the loop within two poll
\* intervals, the grace and the stalls (observe_task_cancellation, run_task).
THEOREM CancellationPrompt == Spec => []CancelPrompt
<1>1. SupervisorInv => CancelPrompt
  <2> SUFFICES ASSUME SupervisorInv, InLoop, asked # Never
               PROVE  now <= asked + 2 * Refresh - 1 + CancelGrace + stalls
    BY DEF CancelPrompt
  <2>1. now <= asked + 2 * Refresh - 1 + stalls + CancelGrace
    BY DEF SupervisorInv, CancelClock, SeenBy
  <2>2. asked \in Int /\ stalls \in Int /\ now \in Int
    BY StateNumbers DEF SupervisorInv
  <2> QED
    BY <2>1, <2>2, LimitsPositive
<1> QED
  BY <1>1, SupervisorInvariant, PTL

\* For all limits, while the store works an unwritten change is written
\* within the debounce and the stalls (run_task's persist_deadline).
THEOREM WritesDebounced == Spec => []DebouncedWrite
<1>1. SupervisorInv => DebouncedWrite
  BY DEF SupervisorInv, WriteClock, DebouncedWrite, InLoop
<1> QED
  BY <1>1, SupervisorInvariant, PTL

\* Task events are applied in the order they were sent, each once, over
\* refusals, retries, the idle drain and the last drain
\* (process_execution_event, run_task).
THEOREM EventsInOrder == Spec => []EventOrder
<1>1. SupervisorInv => EventOrder
  BY DEF SupervisorInv
<1> QED
  BY <1>1, SupervisorInvariant, PTL

LEMMA TakesReason ==
  ASSUME SupervisorTypeOK, NEW s \in SupervisorType, NEW e \in Event, Takes(s, e),
         s.guard = sup.guard
  PROVE  sup'.guard.reason = sup.guard.reason
BY EventTaken DEF Taken, Steady

\* No other action of the supervisor gives its guard a reason.
LEMMA OnlyGuardInterrupts ==
  ASSUME SupervisorInv, [Next]_vars, IdleInterrupt
  PROVE  Guard
<1>1. /\ sup \in SupervisorType /\ channel \in Seq(Event) /\ SupervisorTypeOK
      /\ now \in Time
  BY DEF SupervisorInv, SupervisorTypeOK
<1>2. sup'.guard.reason # sup.guard.reason
  BY DEF IdleInterrupt
<1>3. SupervisorStep
  BY <1>2 DEF Next, vars, DriverStep, RuntimeAnswer, Execute, BusyWake, Send,
     Announced, Ingest, Check, DriverGuard, Interrupted, Wake, StartTurn,
     ReadJournal, TurnDenied, StopTurn, JournalEvent, AskCancel, RequestShutdown,
     Tick, Stall
<1>4. ~(Poll \/ ExecReturned \/ SeeShutdown \/ Timer)
  BY <1>1, <1>2 DEF Poll, ExecReturned, SeeShutdown, Timer, Ending, SupervisorType
<1>5. ~(Flush \/ Finish)
  BY <1>1, <1>2 DEF Flush, Finish, Cleaned, SupervisorType
<1>6. ~Retry
  <2> SUFFICES ASSUME Retry PROVE FALSE
    OBVIOUS
  <2>1. PICK n : /\ n = IF now >= sup.nextRetry THEN now + Refresh ELSE sup.nextRetry
                 /\ IF now >= sup.nextRetry /\ sup.blocked # NoEvent
                    THEN Takes([[sup EXCEPT !.pc = "guard", !.nextRetry = n]
                                   EXCEPT !.blocked = NoEvent], sup.blocked)
                    ELSE sup' = [sup EXCEPT !.pc = "guard", !.nextRetry = n]
    BY DEF Retry
  <2>2. n \in Nat
    <3>1. n = now + Refresh \/ n = sup.nextRetry
      BY <2>1
    <3>2. sup.nextRetry \in Nat
      BY <1>1 DEF SupervisorType
    <3>3. now + Refresh \in Nat
      BY <1>1, LimitsPositive DEF Time
    <3> QED
      BY <3>1, <3>2, <3>3
  <2>3. CASE sup' = [sup EXCEPT !.pc = "guard", !.nextRetry = n]
    BY <1>1, <1>2, <2>3 DEF SupervisorType
  <2>4. CASE /\ sup.blocked # NoEvent
             /\ Takes([[sup EXCEPT !.pc = "guard", !.nextRetry = n]
                          EXCEPT !.blocked = NoEvent], sup.blocked)
    <3>1. PICK s : /\ s = [[sup EXCEPT !.pc = "guard", !.nextRetry = n]
                              EXCEPT !.blocked = NoEvent]
                   /\ Takes(s, sup.blocked)
      BY <2>4
    <3>2. s \in SupervisorType /\ s.guard = sup.guard /\ sup.blocked \in Event
      BY <1>1, <2>2, <2>4, <3>1 DEF SupervisorType
    <3> QED
      BY <1>1, <1>2, <3>1, <3>2, TakesReason
  <2> QED
    BY <2>1, <2>3, <2>4
<1>7. ~DrainQueued
  <2> SUFFICES ASSUME DrainQueued PROVE FALSE
    OBVIOUS
  <2>1. CASE sup' = [sup EXCEPT !.left = 0]
    BY <1>1, <1>2, <2>1 DEF SupervisorType
  <2>2. CASE channel # <<>> /\ Takes([sup EXCEPT !.left = sup.left - 1], Head(channel))
    <3>1. PICK s : s = [sup EXCEPT !.left = sup.left - 1] /\ Takes(s, Head(channel))
      BY <2>2
    <3>2. sup.left - 1 \in Nat
      BY <1>1, SupervisorNumbers DEF DrainQueued
    <3>3. s \in SupervisorType /\ s.guard = sup.guard
      BY <1>1, <3>1, <3>2 DEF SupervisorType
    <3>4. Head(channel) \in Event
      BY <1>1, <2>2
    <3> QED
      BY <1>1, <1>2, <3>1, <3>3, <3>4, TakesReason
  <2> QED
    BY <2>1, <2>2 DEF DrainQueued
<1>8. ~Receive
  <2> SUFFICES ASSUME Receive PROVE FALSE
    OBVIOUS
  <2>1. PICK s : s = [sup EXCEPT !.pc = "poll"] /\ Takes(s, Head(channel))
    BY DEF Receive
  <2>2. s \in SupervisorType /\ s.guard = sup.guard
    BY <1>1, <2>1 DEF SupervisorType
  <2>3. Head(channel) \in Event
    BY <1>1 DEF Receive, Receivable
  <2> QED
    BY <1>1, <1>2, <2>1, <2>2, <2>3, TakesReason
<1>9. ~Drain
  <2> SUFFICES ASSUME Drain PROVE FALSE
    OBVIOUS
  <2>1. PICK pending : pending = (IF sup.blocked = NoEvent THEN <<>> ELSE <<sup.blocked>>)
                                    \o channel
    OBVIOUS
  <2>2. pending \in Seq(Event)
    <3>1. CASE sup.blocked = NoEvent
      BY <1>1, <2>1, <3>1, ConcatEmptySeq
    <3>2. CASE sup.blocked # NoEvent
      <4>1. <<sup.blocked>> \in Seq(Event)
        BY <1>1, <3>2 DEF SupervisorType
      <4> QED
        BY <1>1, <2>1, <3>2, <4>1, ConcatProperties
    <3> QED
      BY <3>1, <3>2
  <2>3. CASE sup' = [sup EXCEPT !.pc = "finish"]
    BY <1>1, <1>2, <2>3 DEF SupervisorType
  <2>4. CASE /\ pending # <<>>
             /\ \E a \in ProcessEvent([sup EXCEPT !.blocked = NoEvent], Head(pending)) :
                   sup' = a.sup
    <3>1. PICK s : s = [sup EXCEPT !.blocked = NoEvent]
      OBVIOUS
    <3>2. PICK a \in ProcessEvent(s, Head(pending)) : sup' = a.sup
      BY <2>4, <3>1
    <3>3. s \in SupervisorType /\ s.guard = sup.guard /\ Head(pending) \in Event
      BY <1>1, <2>2, <2>4, <3>1, SMTT(30) DEF SupervisorType
    <3>4. Processed(s, Head(pending), a)
      BY <1>1, <3>2, <3>3, EventProcessed
    <3> QED
      BY <1>2, <3>2, <3>3, <3>4 DEF Processed, Steady
  <2> QED
    BY <2>1, <2>3, <2>4 DEF Drain
<1> QED
  BY <1>3, <1>4, <1>5, <1>6, <1>7, <1>8, <1>9 DEF SupervisorStep

\* The guard interrupts for idleness on its second look, after the drain of
\* what was queued: then the channel is empty, and a driver asleep next to a
\* running tool has slept and stalled for the whole idle limit.
LEMMA IdleStep ==
  ASSUME SupervisorInv, [Next]_vars, IdleInterrupt
  PROVE  /\ \A i \in DOMAIN channel : channel[i].kind \notin ProgressEvents
         /\ drv.tool /\ drv.pc = "sleep" => stalls + DriverNap >= IdleProgress
<1> USE DEF SupervisorInv
<1>1. /\ sup \in SupervisorType /\ channel \in Seq(Event) /\ cancel \in BOOLEAN
      /\ shutdown \in BOOLEAN /\ sup.guard \in GuardType
  BY SupervisorNumbers DEF SupervisorTypeOK
<1>2. /\ now \in Int /\ stalls \in Int /\ sup.guard.progress \in Int
      /\ drv.wakeAt \in Int /\ DriverNap \in Int
  BY StateNumbers, SupervisorNumbers, DriverNumbers, LimitsPositive
  DEF SupervisorTypeOK, DriverNap
<1>3. PICK act : act = Evaluate(sup.guard, now, cancel, shutdown)
  OBVIOUS
<1>4. Verdict(sup.guard, now, cancel, shutdown, act)
  BY <1>1, <1>2, <1>3, Evaluated
<1>5. Guard
  BY OnlyGuardInterrupts
<1>6. /\ sup.pc = "guard" \/ (sup.pc = "queued" /\ sup.left = 0)
      /\ sup' = CASE DrainsFirst(act) ->
                       [sup EXCEPT !.pc = "queued", !.left = Len(channel)]
                  [] act.do = "interrupt" /\ ~DrainsFirst(act) ->
                       [sup EXCEPT !.pc = "poll",
                           !.guard = NoteInterrupt(@, act.reason)]
                  [] act.do = "terminalize" -> Ending(act.reason)
                  [] act.do = "run" ->
                       [sup EXCEPT !.pc = "select", !.started = TRUE,
                           !.persistAt = PersistAt(sup), !.watching = ~shutdown,
                           !.wakeAt = now + Min({act.wait, Refresh})]
  BY <1>3, <1>5 DEF Guard
<1>7. act.do = "interrupt" /\ ~DrainsFirst(act)
  <2>1. DrainsFirst(act) => act.do = "interrupt"
    BY DEF DrainsFirst
  <2>2. CASE DrainsFirst(act)
    <3>1. sup' = [sup EXCEPT !.pc = "queued", !.left = Len(channel)]
      BY <1>6, <2>1, <2>2
    <3> QED
      BY <1>1, <3>1 DEF IdleInterrupt, SupervisorType
  <2>3. CASE act.do = "terminalize"
    <3>1. sup' = [sup EXCEPT !.pc = "drain", !.result = act.reason]
      BY <1>6, <2>1, <2>3 DEF Ending
    <3> QED
      BY <1>1, <3>1 DEF IdleInterrupt, SupervisorType
  <2>4. CASE act.do = "run"
    <3>1. PICK w, p : sup' = [sup EXCEPT !.pc = "select", !.started = TRUE,
                                !.persistAt = p, !.watching = ~shutdown,
                                !.wakeAt = w]
      BY <1>6, <2>1, <2>4
    <3> QED
      BY <1>1, <3>1 DEF IdleInterrupt, SupervisorType
  <2> QED
    BY <1>4, <2>2, <2>3, <2>4 DEF Verdict
<1>8. act.reason = "idle_timeout"
  <2>1. PICK g : /\ g = NoteInterrupt(sup.guard, act.reason)
                 /\ sup' = [sup EXCEPT !.pc = "poll", !.guard = g]
    BY <1>6, <1>7
  <2>2. sup'.guard = g
    BY <1>1, <2>1 DEF SupervisorType
  <2>3. g.reason = act.reason
    BY <1>1, <1>4, <1>7, <2>1 DEF NoteInterrupt, Verdict, GuardType
  <2> QED
    BY <2>2, <2>3 DEF IdleInterrupt
<1>9. ~cancel /\ now >= sup.guard.progress + IdleProgress
  BY <1>4, <1>7, <1>8 DEF Verdict
<1>10. sup.pc = "queued" /\ sup.left = 0
  BY <1>6, <1>7, <1>8 DEF DrainsFirst
<1>11. channel = <<>>
  <2>1. Len(channel) = 0
    BY <1>9, <1>10 DEF DrainCount
  <2> QED
    BY <1>1, <2>1
<1>12. ~HeartbeatQueued
  BY <1>11 DEF HeartbeatQueued
<1>13. drv.tool /\ drv.pc = "sleep" =>
          now <= drv.wakeAt + stalls /\ drv.wakeAt <= sup.guard.progress + DriverNap
  BY <1>12 DEF DriverClock
<1>14. drv.tool /\ drv.pc = "sleep" => stalls + DriverNap >= IdleProgress
  BY <1>2, <1>9, <1>13, LimitsPositive
<1> QED
  BY <1>11, <1>14

\* The supervisor's idle deadline fires neither with progress waiting in the
\* channel nor next to a running tool whose heartbeats it is sent, for all
\* limits (run_task's idle drain, the heartbeat of drive_engine_turn).
THEOREM IdleDeadlineHonest == Spec => IdleHonest
<1>1. SupervisorInv /\ [Next]_vars =>
        [IdleInterrupt =>
           /\ \A i \in DOMAIN channel : channel[i].kind \notin ProgressEvents
           /\ drv.tool /\ drv.pc = "sleep" => stalls + DriverNap >= IdleProgress]_vars
  BY IdleStep
<1> QED
  BY <1>1, SupervisorInvariant, PTL DEF Spec, IdleHonest
=============================================================================
