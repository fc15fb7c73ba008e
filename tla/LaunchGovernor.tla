--------------------------- MODULE LaunchGovernor ---------------------------
(***************************************************************************)
(* engine/src/tools/subagent/governor.rs and the launch path of            *)
(* subagent/mod.rs that uses it: a direct child takes a permit of its      *)
(* owner's gate, then one of the fleet gate, before its first model step.  *)
(* The rate-limit governor moves the capacity of the fleet gate.           *)
(*                                                                         *)
(* A gate and the governor have a mutex each, so one call is one step; the *)
(* governor calls the gate with its own mutex held.  What lies between two *)
(* calls interleaves: a failed try_acquire and the acquire after it, a     *)
(* grant sent and the moment the child takes it from its channel, the      *)
(* permits of one child dropped one by one.                                *)
(*                                                                         *)
(* Instants are ages: `limited' and `attempts' count the reports of each   *)
(* age up to the window, so what prune would remove is not there.          *)
(***************************************************************************)
EXTENDS Naturals, Sequences, FiniteSets

CONSTANTS
    Children, Owners, Fleet, None,
    OwnerOf,         \* the owner of a child; None when no limits were set
    Concurrency,     \* launch concurrencies a configuration may ask for
    Window,          \* RATE_LIMIT_WINDOW
    ThrottleEvents,  \* THROTTLE_EVENT_THRESHOLD
    PauseEvents,     \* PAUSE_EVENT_THRESHOLD
    SuccessStep,     \* SUCCESS_PER_INCREASE_STEP
    MaxCalls,        \* bound: model calls
    MaxConfigs       \* bound: configuration changes

\* The children of a run are finitely many, and a configured concurrency is
\* clamped, so there is a widest one.
ASSUME GovernorAssumption ==
    /\ IsFiniteSet(Children)
    /\ \E n \in Concurrency : \A m \in Concurrency : m <= n
    /\ OwnerOf \in [Children -> Owners \cup {None}]
    /\ Fleet \notin Owners /\ None \notin Owners \cup {Fleet}
    /\ Concurrency \subseteq Nat
    /\ {Window, ThrottleEvents, PauseEvents, SuccessStep, MaxCalls, MaxConfigs}
          \subseteq Nat

VARIABLES
    gate,       \* per gate: capacity, active and the queue of waiters
    child,      \* per child: where its launch is and the permits it has
    maxCap,     \* max_capacity
    paused,
    limited,    \* per age: rate-limited attempts
    attempts,   \* per age: attempts
    successes,  \* consecutive_successes
    calls, configs

governorVars == <<maxCap, paused, limited, attempts, successes>>
launchVars == <<gate, child, governorVars, calls, configs>>

Gates == Owners \cup {Fleet}
Ages == 0..Window

\* granted is the gate whose permit lies in the child's channel; calling says
\* that a model call is out.
NewChild(c) ==
    [pc |-> "try", at |-> IF OwnerOf[c] = None THEN Fleet ELSE OwnerOf[c],
     held |-> {}, granted |-> None, calling |-> FALSE]

NewGate(n) == [capacity |-> n, active |-> 0, waiters |-> <<>>]

Init ==
    /\ \E n \in Concurrency \ {0} :
          gate = [g \in Gates |-> NewGate(n)] /\ maxCap = n
    /\ child = [c \in Children |-> NewChild(c)]
    /\ paused = FALSE
    /\ limited = [k \in Ages |-> 0]
    /\ attempts = [k \in Ages |-> 0]
    /\ successes = 0
    /\ calls = 0 /\ configs = 0

-----------------------------------------------------------------------------
(* The gate.                                                                *)

\* The receiver of a queued sender is alive.
Waits(c, g) == child[c].pc = "wait" /\ child[c].at = g /\ child[c].granted = None

WaitingIn(q, g, k) == {i \in 1..k : Waits(q[i], g)}

Served(g, gt, k) == Cardinality(WaitingIn(gt.waiters, g, k))

Room(gt) == IF gt.active < gt.capacity THEN gt.capacity - gt.active ELSE 0

\* How many queue entries wake_locked pops: it stops when the room is used up
\* or the queue is empty; entries whose receiver is gone cost nothing.
Woken(g, gt) ==
    CHOOSE k \in 0..Len(gt.waiters) :
        /\ \/ Served(g, gt, k) = Room(gt)
           \/ k = Len(gt.waiters) /\ Served(g, gt, k) < Room(gt)
        /\ \A j \in 0..(k - 1) : Served(g, gt, j) < Room(gt)

\* The children whose sender was popped with a receiver that is alive.
Lucky(g, gt) ==
    {gt.waiters[i] : i \in WaitingIn(gt.waiters, g, Woken(g, gt))}

\* Mutant: the newest entry is served first.
Woke_Newest(g, gt, kids) ==
    LET n == Len(gt.waiters)
        serve == gt.active < gt.capacity /\ n > 0 /\ Waits(gt.waiters[n], g)
    IN  /\ gate' = [gate EXCEPT ![g] =
                      IF serve THEN [gt EXCEPT !.active = @ + 1,
                                               !.waiters = SubSeq(@, 1, n - 1)]
                      ELSE gt]
        /\ child' = IF serve THEN [kids EXCEPT ![gt.waiters[n]].granted = g] ELSE kids

\* The gate and the children after gate g became gt and wake_locked ran.
Woke(g, gt, kids) ==
    /\ gate' = [gate EXCEPT ![g] =
                  [gt EXCEPT !.active = @ + Cardinality(Lucky(g, gt)),
                             !.waiters = SubSeq(@, Woken(g, gt) + 1, Len(@))]]
    /\ child' = [c \in Children |->
                  IF c \in Lucky(g, gt) THEN [kids[c] EXCEPT !.granted = g]
                  ELSE kids[c]]

SetCapacity(n) == Woke(Fleet, [gate[Fleet] EXCEPT !.capacity = n], child)

\* set_capacity is called only to change it; kids is what else changes.
Moved(n, kids) ==
    IF n = gate[Fleet].capacity THEN child' = kids /\ UNCHANGED gate
    ELSE Woke(Fleet, [gate[Fleet] EXCEPT !.capacity = n], kids)

\* release, called by the Drop of a permit; saturating_sub.
Release(g, kids) ==
    Woke(g, [gate[g] EXCEPT !.active = IF @ > 0 THEN @ - 1 ELSE 0], kids)

HasSlot(g) == gate[g].active < gate[g].capacity

\* The child after it got the permit of the gate it is at.
Passed(c) ==
    [child[c] EXCEPT !.held = @ \cup {child[c].at}, !.granted = None,
                     !.pc = IF child[c].at = Fleet THEN "run" ELSE "try",
                     !.at = Fleet]

TakeSlot(c) ==
    /\ gate' = [gate EXCEPT ![child[c].at].active = @ + 1]
    /\ child' = [child EXCEPT ![c] = Passed(c)]

JoinQueue(c) ==
    /\ gate' = [gate EXCEPT ![child[c].at].waiters = Append(@, c)]
    /\ child' = [child EXCEPT ![c].pc = "wait"]

-----------------------------------------------------------------------------
(* The launch of a child.                                                   *)

TryAcquire(c) ==
    /\ child[c].pc = "try"
    /\ \/ HasSlot(child[c].at) /\ TakeSlot(c)
       \/ /\ ~HasSlot(child[c].at)
          /\ child' = [child EXCEPT ![c].pc = "acquire"]
          /\ UNCHANGED gate
    /\ UNCHANGED <<governorVars, calls, configs>>

Acquire(c) ==
    /\ child[c].pc = "acquire"
    /\ \/ HasSlot(child[c].at) /\ TakeSlot(c)
       \/ ~HasSlot(child[c].at) /\ JoinQueue(c)
    /\ UNCHANGED <<governorVars, calls, configs>>

\* The permit is taken from the channel.
Receive(c) ==
    /\ child[c].granted # None
    /\ child' = [child EXCEPT ![c] = Passed(c)]
    /\ UNCHANGED <<gate, governorVars, calls, configs>>

\* Mutant: the permit in the channel is forgotten with the channel.
LeaveQueue_Leaks(c) ==
    /\ child' = [child EXCEPT ![c].pc = "end", ![c].granted = None]
    /\ UNCHANGED gate

\* The acquire future is dropped: so is a permit that was already sent, while
\* the entry of an unserved waiter stays in the queue.
LeaveQueue(c) ==
    LET left == [child EXCEPT ![c].pc = "end", ![c].granted = None]
    IN  IF child[c].granted # None THEN Release(child[c].granted, left)
        ELSE child' = left /\ UNCHANGED gate

\* The child was canceled, or timeout_at ended the wait: either way it ends
\* without a model step.
StopWaiting(c) ==
    /\ child[c].pc \in {"acquire", "wait"}
    /\ LeaveQueue(c)
    /\ UNCHANGED <<governorVars, calls, configs>>

\* The child's run is over, of itself or because it was canceled.
Finish(c) ==
    /\ child[c].pc = "run" /\ ~child[c].calling
    /\ child' = [child EXCEPT ![c].pc = "end"]
    /\ UNCHANGED <<gate, governorVars, calls, configs>>

\* The permits are dropped one after the other, the owner's first.
DropPermit(c) ==
    LET g == IF child[c].held = {Fleet} THEN Fleet ELSE OwnerOf[c]
    IN  /\ child[c].pc = "end"
        /\ child[c].held # {}
        /\ Release(g, [child EXCEPT ![c].held = @ \ {g}])
        /\ UNCHANGED <<governorVars, calls, configs>>

-----------------------------------------------------------------------------
(* The governor.                                                            *)

Size(count) == LET upTo[k \in Ages] == count[k] + IF k = 0 THEN 0 ELSE upTo[k - 1]
               IN  upTo[Window]

Reported(count) == [count EXCEPT ![0] = @ + 1]
Drained == \A k \in Ages : limited[k] = 0
AtLeastOne(n) == IF n = 0 THEN 1 ELSE n

\* Mutant: a limit change opens the gate during a pause.
SetMaxCapacity_Unpauses(n) ==
    /\ maxCap' = AtLeastOne(n)
    /\ SetCapacity(AtLeastOne(n))

\* set_max_capacity, from update_runtime_limits.
SetMaxCapacity(n) ==
    /\ maxCap' = AtLeastOne(n)
    /\ IF paused THEN UNCHANGED <<gate, child>> ELSE SetCapacity(AtLeastOne(n))

Configure(n) ==
    /\ configs < MaxConfigs /\ configs' = configs + 1
    /\ SetMaxCapacity(n)
    /\ UNCHANGED <<paused, limited, attempts, successes, calls>>

\* SubAgentExecutionLimits::update moves an owner's gate.
ConfigureOwner(o, n) ==
    /\ configs < MaxConfigs /\ configs' = configs + 1
    /\ Woke(o, [gate[o] EXCEPT !.capacity = AtLeastOne(n)], child)
    /\ UNCHANGED <<governorVars, calls>>

\* record_attempt, when a request is dispatched.
RecordAttempt(c) ==
    /\ child[c].pc = "run" /\ ~child[c].calling
    /\ calls < MaxCalls /\ calls' = calls + 1
    /\ attempts' = Reported(attempts)
    /\ child' = [child EXCEPT ![c].calling = TRUE]
    /\ UNCHANGED <<gate, maxCap, paused, limited, successes, configs>>

Answered(c) == [child EXCEPT ![c].calling = FALSE]

\* Mutant: half of one is nothing.
Halved_Zero(n) == n \div 2

Halved(n) == AtLeastOne(n \div 2)

\* More than three attempts in ten, of at least two.
RatioHigh(events) ==
    Size(attempts) >= 2 /\ events * 10 > Size(attempts) * 3

RecordRateLimited(c) ==
    LET events == Size(limited) + 1
    IN  /\ child[c].calling
        /\ limited' = Reported(limited)
        /\ successes' = 0
        /\ paused' = (paused \/ events >= PauseEvents)
        /\ Moved(IF paused' THEN 0
                 ELSE IF events >= ThrottleEvents \/ RatioHigh(events)
                 THEN Halved(gate[Fleet].capacity)
                 ELSE gate[Fleet].capacity,
                 Answered(c))
        /\ UNCHANGED <<maxCap, attempts, calls, configs>>

\* unpause_if_window_drained: whether, and the capacity it resumes at.
Resumes == paused /\ Drained
Quarter == AtLeastOne(maxCap \div 4)

Increased(cap) == IF cap < maxCap THEN cap + 1 ELSE cap

\* record_success: a pause is lifted when the window has drained, and enough
\* successes in a row add a slot.
RecordSuccess(c) ==
    LET cap == IF Resumes THEN Quarter ELSE gate[Fleet].capacity
        steps == ~(paused /\ ~Resumes) /\ successes + 1 >= SuccessStep
                 /\ Increased(cap) # cap
    IN  /\ child[c].calling
        /\ paused' = (paused /\ ~Resumes)
        /\ successes' = IF steps THEN 0
                        ELSE IF successes < SuccessStep THEN successes + 1 ELSE successes
        /\ Moved(IF steps THEN Increased(cap) ELSE cap, Answered(c))
        /\ UNCHANGED <<maxCap, limited, attempts, calls, configs>>

\* A call that fails otherwise is not reported.
RecordNothing(c) ==
    /\ child[c].calling
    /\ child' = Answered(c)
    /\ UNCHANGED <<gate, governorVars, calls, configs>>

\* Mutant: only a success lifts a pause.
CanProbe_Never == FALSE

CanProbe == Resumes

\* recover_if_window_drained, from the probe of a child that waits at a gate.
Probe(c) ==
    /\ child[c].pc = "wait"
    /\ CanProbe
    /\ paused' = FALSE
    /\ SetCapacity(Quarter)
    /\ UNCHANGED <<maxCap, limited, attempts, successes, calls, configs>>

Older(count) == [k \in Ages |-> IF k = 0 THEN 0 ELSE count[k - 1]]

Clock ==
    /\ Size(attempts) + Size(limited) > 0
    /\ attempts' = Older(attempts)
    /\ limited' = Older(limited)
    /\ UNCHANGED <<gate, child, maxCap, paused, successes, calls, configs>>

Launch(c) == TryAcquire(c) \/ Acquire(c) \/ Receive(c)
Answer(c) == RecordRateLimited(c) \/ RecordSuccess(c) \/ RecordNothing(c)

Next ==
    \/ \E c \in Children :
          \/ Launch(c) \/ StopWaiting(c)
          \/ RecordAttempt(c) \/ Answer(c) \/ Finish(c) \/ DropPermit(c) \/ Probe(c)
    \/ \E n \in Concurrency : Configure(n) \/ \E o \in Owners : ConfigureOwner(o, n)
    \/ Clock

Spec == Init /\ [][Next]_launchVars

\* Every future is polled, the probe ticks, a call is answered, a child ends
\* and time passes.
FairSpec ==
    /\ Spec
    /\ WF_launchVars(Clock)
    /\ \A c \in Children :
          /\ WF_launchVars(Launch(c))
          /\ WF_launchVars(Probe(c))
          /\ WF_launchVars(Answer(c))
          /\ WF_launchVars(Finish(c) \/ DropPermit(c))

-----------------------------------------------------------------------------
MaxConcurrency == CHOOSE n \in Concurrency : \A m \in Concurrency : m <= n

Gate ==
    [capacity : 0..MaxConcurrency, active : 0..Cardinality(Children),
     waiters : Seq(Children)]

Child ==
    [pc : {"try", "acquire", "wait", "run", "end"}, at : Gates,
     held : SUBSET Gates, granted : Gates \cup {None}, calling : BOOLEAN]

OwnPermit(c) == {OwnerOf[c]} \ {None}

\* The permits a child k of record r can have where its launch is: before a
\* gate all the earlier ones, while it runs all, and at its end what it has not
\* dropped yet.
PermitsFit(k, r) ==
    /\ r.pc \in {"try", "acquire", "wait"} =>
          \/ r.at = Fleet /\ r.held = OwnPermit(k)
          \/ r.at = OwnerOf[k] /\ r.held = {}
    /\ r.pc = "run" => r.held = OwnPermit(k) \cup {Fleet}
    /\ r.pc = "end" => r.held \subseteq OwnPermit(k) \cup {Fleet}
    /\ r.granted # None => r.pc = "wait" /\ r.granted = r.at
    /\ r.calling => r.pc = "run"

LaunchOK ==
    /\ gate \in [Gates -> Gate]
    /\ child \in [Children -> Child]
    /\ \A c \in Children : PermitsFit(c, child[c])

\* No report is counted that no call made.
CountersOK ==
    /\ calls \in 0..MaxCalls
    /\ limited \in [Ages -> 0..MaxCalls] /\ attempts \in [Ages -> 0..MaxCalls]
    /\ \A k \in Ages :
          /\ attempts[k] <= calls
          /\ limited[k] + Cardinality({c \in Children : child[c].calling}) <= calls
    /\ successes \in 0..SuccessStep

CapacityOK ==
    /\ maxCap \in 1..MaxConcurrency
    /\ paused \in BOOLEAN
    /\ gate[Fleet].capacity \in IF paused THEN {0} ELSE 1..maxCap

\* Gates, children and the governor's counters keep their types, a child has the
\* permits its place in the launch calls for, and the two mutexes agree: a
\* pause closes the fleet gate, and else it is open within the configured
\* ceiling (set_max_capacity, record_success, record_rate_limited).
GovernorTypeOK == LaunchOK /\ CountersOK /\ CapacityOK

Permit(r, g) == g \in r.held \/ r.granted = g
HasPermit(c, g) == Permit(child[c], g)

\* A queue holds every child that waits at its gate, once, and beside them only
\* children that gave up (acquire, StopWaiting).
QueueHonest(g) ==
    LET q == gate[g].waiters
    IN  /\ \A i, j \in DOMAIN q : q[i] = q[j] => i = j
        /\ \A i \in DOMAIN q : Waits(q[i], g) \/ child[q[i]].pc = "end"
        /\ \A c \in Children : Waits(c, g) => \E i \in DOMAIN q : q[i] = c

\* A gate counts exactly the permits that exist: none leaks when a child stops
\* waiting with a permit already in its channel, none is returned twice; its
\* queue loses nobody; and a free slot and a waiter never coexist, so no
\* wake-up is lost (wake_locked, set_capacity, release, Drop of
\* DynamicGatePermit).
SlotsCounted ==
    \A g \in Gates :
        /\ gate[g].active = Cardinality({c \in Children : HasPermit(c, g)})
        /\ HasSlot(g) => gate[g].waiters = <<>>
        /\ QueueHonest(g)

\* Whoever gets a permit of a gate was queued before everyone who still waits.
InOrder ==
    \A g \in Gates, c, d \in Children :
        /\ Waits(c, g) /\ Waits(c, g)'
        /\ ~HasPermit(d, g) /\ HasPermit(d, g)'
        => \E i, j \in DOMAIN gate[g].waiters :
              i < j /\ gate[g].waiters[i] = d /\ gate[g].waiters[j] = c

\* Nobody overtakes a child that waits at the same gate (acquire, try_acquire,
\* wake_locked).
NoOvertaking == [][InOrder]_launchVars

AdmitsNobody ==
    paused /\ paused' =>
        \A c \in Children : HasPermit(c, Fleet)' => HasPermit(c, Fleet)

\* No child passes the fleet gate during a pause, whatever is configured or
\* released meanwhile (set_max_capacity, release).
PauseAdmitsNobody == [][AdmitsNobody]_launchVars

\* No child waits for ever, also when everyone who could report a success has
\* gone during a pause, and though a child keeps its owner's permit while it
\* waits for the fleet's (acquire_queued_launch_permit).
EveryWaitEnds ==
    \A c \in Children : []<>(child[c].pc # "wait")
=============================================================================
