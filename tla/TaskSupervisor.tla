--------------------------- MODULE TaskSupervisor ---------------------------
(***************************************************************************)
(* One execution of a durable task in crates/engine/src/task_manager.rs:   *)
(* the supervisor run_task with its ExecutionGuard, and the executor it    *)
(* polls, EngineTaskExecutor::execute and drive_engine_turn, which keeps a *)
(* guard of its own and forwards the runtime's journal as task events over *)
(* a bounded channel.                                                      *)
(*                                                                         *)
(* Time is a counter.  The executor is polled only inside the supervisor's *)
(* select, and first there: it runs on until it is asleep, sends to a full *)
(* channel or calls the runtime, whose answer may take any time.  Time     *)
(* passes while the select has nothing to do; any other delay (a busy      *)
(* store lock, a slow scheduler) is a stall, and stalls are counted.  A    *)
(* journal event is its kind, a task event its kind and its number; texts  *)
(* are left out.  The store's answer to a write is a choice; TaskStore     *)
(* models what the write does.                                             *)
(***************************************************************************)
EXTENDS Integers, Sequences, FiniteSetsExt

CONSTANTS
    WallTime,         \* TaskExecutionLimits.wall_time
    IdleProgress,     \* TaskExecutionLimits.idle_progress
    CancelGrace,      \* TaskExecutionLimits.cancel_grace
    PersistDebounce,  \* TaskExecutionLimits.persist_debounce
    Refresh,          \* STORE_REFRESH_INTERVAL and EVENT_CATCHUP_POLL
    BusyRetry,        \* DESTINATION_BUSY_RETRY
    ApprovalWindow,   \* the runtime's approval_decision_timeout
    ChannelCap,       \* TASK_EVENT_CHANNEL_CAPACITY
    Destination,      \* the task names a thread that may be busy
    JournalKinds,     \* journal events the runtime may append
    MaxJournal,       \* journal events in a behaviour
    MaxRequests,      \* cancellation and shutdown requests in a behaviour
    MaxFaults,        \* storage failures in a behaviour
    MaxStalls,        \* time units lost to stalls
    Horizon           \* last time unit of a behaviour

\* Journal events of the turn; "message" stands for the text of the model
\* and for the output of a running tool, "notice" for status and error items.
Kinds == {"message", "reasoning", "notice", "tool_start", "tool_end", "approval",
          "decided", "approval_timeout", "store_failed", "turn_completed",
          "turn_interrupted", "turn_failed"}

ASSUME LimitsAssumption ==
    /\ {WallTime, IdleProgress, CancelGrace, PersistDebounce, Refresh,
        BusyRetry, ApprovalWindow, ChannelCap} \subseteq Nat \ {0}
    /\ Destination \in BOOLEAN
    /\ JournalKinds \subseteq Kinds
    /\ {MaxJournal, MaxRequests, MaxFaults, MaxStalls, Horizon} \subseteq Nat

VARIABLES
    now,       \* the clock
    sup,       \* the locals of run_task
    drv,       \* the locals of execute and drive_engine_turn
    channel,   \* task events from the executor to the supervisor
    cancel,    \* the task's cancel token
    shutdown,  \* the manager's cancel token
    asked,     \* when the record got a cancellation request, or Never
    runtime,   \* the turn: its unread journal, open tool and approval
    outcome,   \* terminal reason on the record, or "none"
    sent,      \* task events sent, heartbeats apart
    appended,  \* journal events so far
    stalls,    \* time units lost to stalls so far
    faults     \* storage failures so far

tokens == <<cancel, shutdown, asked>>
bounds == <<appended, stalls, faults>>
vars == <<now, sup, drv, channel, cancel, shutdown, asked, runtime, outcome,
          sent, appended, stalls, faults>>

Never == -1
NoEvent == [kind |-> "none", id |-> 0]

-----------------------------------------------------------------------------
(* ExecutionGuard. *)

NewGuard(t) == [started |-> t, progress |-> t, at |-> Never, reason |-> "none"]

NoteProgress(g) == [g EXCEPT !.progress = now]

NoteInterrupt(g, reason) ==
    IF g.at = Never THEN [g EXCEPT !.at = now, !.reason = reason] ELSE g

Run(wait) == [do |-> "run", reason |-> "none", wait |-> wait]
Interrupt(reason) == [do |-> "interrupt", reason |-> reason, wait |-> 0]
Terminalize(reason) == [do |-> "terminalize", reason |-> reason, wait |-> 0]

AfterGrace(reason) == IF reason = "canceled" THEN "cancel_timeout" ELSE reason

\* The limit that was crossed first names the timeout.
PendingReason(g, t, canceled, stopping) ==
    LET wall == g.started + WallTime
        idle == g.progress + IdleProgress
    IN  CASE stopping -> "shutdown"
          [] ~stopping /\ canceled -> "canceled"
          [] OTHER -> IF t >= wall /\ wall <= idle THEN "wall_timeout"
                      ELSE IF t >= idle THEN "idle_timeout" ELSE "none"

\* Mutants: the grace is counted from the last progress, or never ends.
Evaluate_GraceFromProgress(g, t, canceled, stopping) ==
    IF g.at # Never
    THEN IF t - Max({g.at, g.progress}) >= CancelGrace
         THEN Terminalize(AfterGrace(g.reason)) ELSE Run(Refresh)
    ELSE LET reason == PendingReason(g, t, canceled, stopping)
         IN  IF reason # "none" THEN Interrupt(reason) ELSE Run(Refresh)
Evaluate_NoGraceEnd(g, t, canceled, stopping) ==
    LET reason == PendingReason(g, t, canceled, stopping)
    IN  IF g.at = Never /\ reason # "none" THEN Interrupt(reason)
        ELSE Run(Refresh)

Evaluate(g, t, canceled, stopping) ==
    IF g.at # Never
    THEN IF t - g.at >= CancelGrace THEN Terminalize(AfterGrace(g.reason))
         ELSE Run(CancelGrace - (t - g.at))
    ELSE LET reason == PendingReason(g, t, canceled, stopping)
         IN  IF reason # "none" THEN Interrupt(reason)
             ELSE Run(Min({g.started + WallTime - t,
                           g.progress + IdleProgress - t, Refresh}))

\* A cooperative end after a timeout keeps the timeout as its reason.
PreserveTimeoutReason(g, reason) ==
    IF reason = "canceled" /\ g.reason \in {"wall_timeout", "idle_timeout"}
    THEN g.reason ELSE reason

-----------------------------------------------------------------------------
(* Task events. *)

ProgressEvents == {"delta", "tool_started", "tool_completed", "heartbeat"}
UrgentEvents == {"linked", "status", "error", "tool_started", "tool_completed"}

\* What ingest_runtime_event sends for a journal event.
Ingested(kind) ==
    <<"runtime">> \o (CASE kind = "message" -> <<"delta">>
                        [] kind = "tool_start" -> <<"tool_started">>
                        [] kind = "tool_end" -> <<"tool_completed">>
                        [] kind = "notice" -> <<"status">>
                        [] kind = "store_failed" -> <<"error">>
                        [] OTHER -> <<>>)

RuntimeProgress == {"message", "reasoning", "notice", "tool_start", "tool_end",
                    "turn_completed", "turn_interrupted", "turn_failed"}

\* How the runtime's last word on the turn ends the execution.
TurnReason(kind) ==
    CASE kind = "turn_completed" -> "completed"
      [] kind = "turn_interrupted" -> "canceled"
      [] kind \in {"turn_failed", "approval_timeout", "store_failed"} -> "failed"
      [] OTHER -> "none"

\* A change that is not written is dirty since the first one.
Dirtied(s) == IF s.dirty = Never THEN [s EXCEPT !.dirty = now] ELSE s
Cleaned(s) == [s EXCEPT !.dirty = Never]

Answer(s, failed, refused) == [sup |-> s, failed |-> failed, refused |-> refused]

\* process_execution_event: a heartbeat stays in memory; any other event is
\* refused, accepted and written, accepted though its write failed or, unless
\* it is urgent or fills the pending set, accepted and left for later.
ProcessEvent(s, e) ==
    LET seen == IF e.kind \in ProgressEvents
                THEN [s EXCEPT !.guard = NoteProgress(@)] ELSE s
        taken == [seen EXCEPT !.applied = e.id]
    IN  IF e.kind = "heartbeat" THEN {Answer(seen, FALSE, FALSE)}
        ELSE {Answer([s EXCEPT !.blocked = e], FALSE, TRUE),
              Answer(Cleaned(taken), FALSE, FALSE),
              Answer(Dirtied(taken), TRUE, FALSE)}
             \cup (IF e.kind \in UrgentEvents THEN {}
                   ELSE {Answer(Dirtied(taken), FALSE, FALSE)})

Fault == faults < MaxFaults /\ faults' = faults + 1

\* One answer of the store is met, the failures counted.
Meets(a) == IF a.failed \/ a.refused THEN Fault ELSE UNCHANGED faults

-----------------------------------------------------------------------------
NewSupervisor ==
    [pc |-> "poll", guard |-> NewGuard(0), dirty |-> Never, persistAt |-> Never,
     nextPoll |-> 0, nextRetry |-> 0, wakeAt |-> 0, watching |-> FALSE,
     started |-> FALSE, left |-> 0, blocked |-> NoEvent, applied |-> 0,
     result |-> "none"]

NewDriver ==
    [pc |-> "new", guard |-> NewGuard(0), tool |-> FALSE, approval |-> Never,
     batch |-> <<>>, sending |-> <<>>, end |-> "none", checked |-> 0,
     wakeAt |-> 0, watching |-> FALSE, result |-> "none"]

Init ==
    /\ now = 0
    /\ sup = NewSupervisor
    /\ drv = NewDriver
    /\ channel = <<>>
    /\ cancel = FALSE /\ shutdown = FALSE /\ asked = Never
    /\ runtime = [journal |-> <<>>, tool |-> FALSE, approval |-> FALSE,
                  ended |-> FALSE]
    /\ outcome = "none"
    /\ sent = 0 /\ appended = 0 /\ stalls = 0 /\ faults = 0

-----------------------------------------------------------------------------
(* The supervisor, one turn of its loop after the other.                    *)

Ending(reason) == [sup EXCEPT !.pc = "drain", !.result = reason]

\* observe_task_cancellation when it is due; an unreadable or lost record
\* cancels as well.  Nothing is executed after a cancellation seen here.
Poll ==
    LET due == now >= sup.nextPoll
    IN  /\ sup.pc = "poll"
        /\ \/ cancel' = (cancel \/ (due /\ asked # Never)) /\ UNCHANGED faults
           \/ due /\ cancel' = TRUE /\ Fault
        /\ sup' = IF ~sup.started /\ (cancel' \/ shutdown)
                  THEN Ending(IF shutdown THEN "shutdown" ELSE "canceled")
                  ELSE [sup EXCEPT !.pc = "retry",
                            !.nextPoll = IF due THEN now + Refresh ELSE @]
        /\ UNCHANGED <<now, drv, channel, shutdown, asked, runtime, outcome,
                       sent, appended, stalls>>

\* Process event e in the loop, where a refusal cancels the execution.
Takes(s, e) ==
    \E a \in ProcessEvent(s, e) :
        /\ sup' = a.sup
        /\ Meets(a)
        /\ cancel' = (cancel \/ a.failed \/ a.refused)

\* A blocked event is offered again before any other.
Retry ==
    LET due == now >= sup.nextRetry
        next == [sup EXCEPT !.pc = "guard",
                            !.nextRetry = IF due THEN now + Refresh ELSE @]
    IN  /\ sup.pc = "retry"
        /\ IF due /\ sup.blocked # NoEvent
           THEN Takes([next EXCEPT !.blocked = NoEvent], sup.blocked)
           ELSE sup' = next /\ UNCHANGED <<cancel, faults>>
        /\ UNCHANGED <<now, drv, channel, shutdown, asked, runtime, outcome,
                       sent, appended, stalls>>

\* Mutant: each turn of the loop starts the debounce again.
PersistAt_Renewed(s) == IF s.dirty = Never THEN Never ELSE now + PersistDebounce

\* The first dirty event's deadline is kept over other wakes.
PersistAt(s) ==
    IF s.dirty = Never THEN Never
    ELSE IF s.persistAt = Never THEN now + PersistDebounce ELSE s.persistAt

\* Progress that is already queued wins over an idle deadline.
DrainsFirst(action) ==
    sup.pc = "guard" /\ action.reason = "idle_timeout" /\ action.do = "interrupt"

Guard ==
    LET action == Evaluate(sup.guard, now, cancel, shutdown)
    IN  /\ sup.pc = "guard" \/ (sup.pc = "queued" /\ sup.left = 0)
        /\ sup' = CASE DrainsFirst(action) ->
                         [sup EXCEPT !.pc = "queued", !.left = Len(channel)]
                    [] action.do = "interrupt" /\ ~DrainsFirst(action) ->
                         [sup EXCEPT !.pc = "poll",
                             !.guard = NoteInterrupt(@, action.reason)]
                    [] action.do = "terminalize" -> Ending(action.reason)
                    [] action.do = "run" ->
                         [sup EXCEPT !.pc = "select", !.started = TRUE,
                             !.persistAt = PersistAt(sup), !.watching = ~shutdown,
                             !.wakeAt = now + Min({action.wait, Refresh})]
        /\ cancel' = (cancel \/ (action.do = "interrupt" /\ ~DrainsFirst(action)))
        /\ UNCHANGED <<now, drv, channel, shutdown, asked, runtime, outcome,
                       sent, bounds>>

\* Drain only what was queued when the idle deadline was seen.
DrainQueued ==
    /\ sup.pc = "queued" /\ sup.left > 0
    /\ IF sup.blocked # NoEvent \/ channel = <<>>
       THEN sup' = [sup EXCEPT !.left = 0] /\ UNCHANGED <<channel, cancel, faults>>
       ELSE /\ Takes([sup EXCEPT !.left = @ - 1], Head(channel))
            /\ channel' = Tail(channel)
    /\ UNCHANGED <<now, drv, shutdown, asked, runtime, outcome, sent, appended,
                   stalls>>

-----------------------------------------------------------------------------
(* The branches of the select, in the order of its bias: the executor is    *)
(* polled first.                                                            *)

Selecting == sup.pc = "select" /\ drv.pc # "returned"

\* Mutant: the channel holds one event too many.
HasRoom_OffByOne == Len(channel) <= ChannelCap

HasRoom == Len(channel) < ChannelCap

\* The executor's poll is not over: it is neither at a call of the runtime,
\* nor asleep, nor in front of a full channel.
Polling ==
    IF drv.sending # <<>> THEN HasRoom
    ELSE drv.pc \notin {"start", "read", "stop", "deny", "busy", "sleep"}

Branching == Selecting /\ ~Polling

ExecReturned ==
    /\ sup.pc = "select" /\ drv.pc = "returned"
    /\ sup' = Ending(PreserveTimeoutReason(sup.guard, drv.result))
    /\ UNCHANGED <<now, drv, channel, tokens, runtime, outcome, sent, bounds>>

FlushDue == sup.dirty # Never /\ now >= sup.persistAt

Flush ==
    /\ Branching /\ FlushDue
    /\ \/ /\ sup' = [Cleaned(sup) EXCEPT !.pc = "poll", !.persistAt = Never]
          /\ UNCHANGED <<cancel, faults>>
       \/ /\ sup' = [sup EXCEPT !.pc = "poll", !.persistAt = now + PersistDebounce]
          /\ cancel' = TRUE /\ Fault
    /\ UNCHANGED <<now, drv, channel, shutdown, asked, runtime, outcome, sent,
                   appended, stalls>>

\* Mutant: events are received past a blocked one.
Receivable_PastBlocked == channel # <<>>

Receivable == channel # <<>> /\ sup.blocked = NoEvent

Receive ==
    /\ Branching /\ ~FlushDue /\ Receivable
    /\ Takes([sup EXCEPT !.pc = "poll"], Head(channel))
    /\ channel' = Tail(channel)
    /\ UNCHANGED <<now, drv, shutdown, asked, runtime, outcome, sent, appended,
                   stalls>>

\* Mutant: the branch stays armed when the shutdown was seen.
ShutdownSeen_Always == shutdown

ShutdownSeen == sup.watching /\ shutdown

SeeShutdown ==
    /\ Branching /\ ~FlushDue /\ ~Receivable /\ ShutdownSeen
    /\ sup' = [sup EXCEPT !.pc = "poll"]
    /\ cancel' = TRUE
    /\ UNCHANGED <<now, drv, channel, shutdown, asked, runtime, outcome, sent,
                   bounds>>

Timer ==
    /\ Branching /\ ~FlushDue /\ ~Receivable /\ ~ShutdownSeen
    /\ now >= sup.wakeAt
    /\ sup' = [sup EXCEPT !.pc = "poll"]
    /\ UNCHANGED <<now, drv, channel, tokens, runtime, outcome, sent, bounds>>

-----------------------------------------------------------------------------
(* After the loop: the channel is closed and drained, the outcome written.  *)

Drain ==
    /\ sup.pc = "drain"
    /\ LET pending == (IF sup.blocked = NoEvent THEN <<>> ELSE <<sup.blocked>>)
                         \o channel
       IN  IF pending = <<>>
           THEN /\ sup' = [sup EXCEPT !.pc = "finish"]
                /\ UNCHANGED <<channel, cancel, faults>>
           ELSE /\ \E a \in ProcessEvent([sup EXCEPT !.blocked = NoEvent],
                                         Head(pending)) :
                      /\ sup' = a.sup
                      /\ Meets(a)
                      /\ cancel' = (cancel \/ a.failed)
                /\ channel' = IF sup.blocked = NoEvent THEN Tail(channel)
                              ELSE channel
    /\ UNCHANGED <<now, drv, shutdown, asked, runtime, outcome, sent, appended,
                   stalls>>

\* finish_task's reading of the result.
FinalReason ==
    LET told == IF (cancel \/ asked # Never) /\ sup.result = "completed" THEN "canceled"
                ELSE sup.result
    IN  IF shutdown /\ told \in {"canceled", "failed"} THEN "shutdown" ELSE told

Finish ==
    /\ sup.pc = "finish"
    /\ \/ /\ outcome' = FinalReason
          /\ sup' = [sup EXCEPT !.pc = "done", !.dirty = Never]
          /\ UNCHANGED faults
       \/ Fault /\ UNCHANGED <<outcome, sup>>
    /\ UNCHANGED <<now, drv, channel, tokens, runtime, sent, appended, stalls>>

-----------------------------------------------------------------------------
(* The executor, polled inside the select.                                  *)

Returned(reason) == [drv EXCEPT !.pc = "returned", !.result = reason]

\* execute, up to its first await.
Execute ==
    /\ Selecting /\ drv.pc = "new"
    /\ drv' = IF cancel THEN Returned("canceled")
              ELSE [drv EXCEPT !.pc = "start", !.guard = NewGuard(now)]
    /\ UNCHANGED <<now, sup, channel, tokens, runtime, outcome, sent, bounds>>

\* Start the turn, on a new thread or on the destination; a busy destination
\* is tried again until the wall time is spent.
StartTurn ==
    /\ Selecting /\ drv.pc = "start"
    /\ \/ drv' = [drv EXCEPT !.pc = "announce", !.sending = <<"linked", "status">>]
       \/ drv' = Returned("failed")
       \/ ~Destination /\ cancel /\ drv' = Returned("canceled")
       \/ /\ Destination /\ now < drv.guard.started + WallTime
          /\ drv' = [drv EXCEPT !.pc = "busy", !.wakeAt = now + BusyRetry]
    /\ UNCHANGED <<now, sup, channel, tokens, runtime, outcome, sent, bounds>>

BusyWake ==
    /\ Selecting /\ drv.pc = "busy"
    /\ \/ cancel /\ drv' = Returned("canceled")
       \/ ~cancel /\ now >= drv.wakeAt
          /\ drv' = [drv EXCEPT !.pc = "start", !.wakeAt = 0]
    /\ UNCHANGED <<now, sup, channel, tokens, runtime, outcome, sent, bounds>>

\* emit_task_event: waits while the channel is full.
Send ==
    /\ Selecting /\ drv.sending # <<>> /\ HasRoom
    /\ LET kind == Head(drv.sending)
           id == IF kind = "heartbeat" THEN 0 ELSE sent + 1
       IN  /\ channel' = Append(channel, [kind |-> kind, id |-> id])
           /\ sent' = IF kind = "heartbeat" THEN sent ELSE sent + 1
    /\ drv' = [drv EXCEPT !.sending = Tail(@)]
    /\ UNCHANGED <<now, sup, tokens, runtime, outcome, bounds>>

Announced ==
    /\ Selecting /\ drv.pc = "announce" /\ drv.sending = <<>>
    /\ drv' = [drv EXCEPT !.pc = "read", !.guard = NewGuard(now)]
    /\ UNCHANGED <<now, sup, channel, tokens, runtime, outcome, sent, bounds>>

ReadJournal ==
    /\ Selecting /\ drv.pc = "read"
    /\ \/ /\ drv' = [drv EXCEPT !.pc = "ingest", !.batch = runtime.journal]
          /\ runtime' = [runtime EXCEPT !.journal = <<>>]
          /\ UNCHANGED faults
       \/ Fault /\ drv' = Returned("failed") /\ UNCHANGED runtime
    /\ UNCHANGED <<now, sup, channel, tokens, outcome, sent, appended, stalls>>

\* One journal event: the tools and approvals it opens or closes, the idle
\* clock, the task events it becomes, and whether it ends the execution; a
\* decision that nobody took stops the turn as well.
Ingest ==
    /\ Selecting /\ drv.pc = "ingest" /\ drv.sending = <<>> /\ drv.batch # <<>>
    /\ LET kind == Head(drv.batch)
       IN  drv' = [drv EXCEPT
                     !.pc = IF kind = "approval_timeout" THEN "deny" ELSE @,
                     !.batch = Tail(@),
                     !.sending = Ingested(kind),
                     !.tool = (@ \/ kind = "tool_start") /\ kind # "tool_end",
                     !.approval = CASE kind = "approval" -> now + ApprovalWindow
                                    [] kind = "decided" -> Never
                                    [] OTHER -> @,
                     !.guard = IF kind \in RuntimeProgress THEN NoteProgress(@)
                               ELSE @,
                     !.end = IF TurnReason(kind) # "none" THEN TurnReason(kind)
                             ELSE @]
    /\ UNCHANGED <<now, sup, channel, tokens, runtime, outcome, sent, bounds>>

\* interrupt_turn is done, well or not; the batch goes on.
TurnDenied ==
    /\ Selecting /\ drv.pc = "deny" /\ drv.sending = <<>>
    /\ drv' = [drv EXCEPT !.pc = "ingest"]
    /\ UNCHANGED <<now, sup, channel, tokens, runtime, outcome, sent, bounds>>

\* Mutant: a running tool sends no heartbeat.
Heartbeat_None == <<>>

Heartbeat == IF drv.tool THEN <<"heartbeat">> ELSE <<>>

\* The batch is done: the turn has ended, or an open approval and a running
\* tool count as progress, the tool for the supervisor as well.
Check ==
    /\ Selecting /\ drv.pc = "ingest" /\ drv.sending = <<>> /\ drv.batch = <<>>
    /\ LET waits == drv.approval # Never /\ now < drv.approval
       IN  drv' = IF drv.end # "none"
                  THEN Returned(PreserveTimeoutReason(drv.guard, drv.end))
                  ELSE [drv EXCEPT
                          !.pc = "evaluate", !.checked = now,
                          !.approval = IF waits THEN @ ELSE Never,
                          !.guard = IF waits \/ drv.tool THEN NoteProgress(@)
                                    ELSE @,
                          !.sending = Heartbeat]
    /\ UNCHANGED <<now, sup, channel, tokens, runtime, outcome, sent, bounds>>

DriverGuard ==
    LET action == Evaluate(drv.guard, drv.checked, cancel, FALSE)
    IN  /\ Selecting /\ drv.pc = "evaluate" /\ drv.sending = <<>>
        /\ drv' = CASE action.do = "interrupt" ->
                         [drv EXCEPT !.pc = "stop", !.checked = 0,
                                     !.result = action.reason]
                    [] action.do = "terminalize" -> Returned(action.reason)
                    [] action.do = "run" ->
                         [drv EXCEPT !.pc = "sleep", !.checked = 0,
                                     !.watching = ~cancel,
                                     !.wakeAt = now + action.wait]
        /\ UNCHANGED <<now, sup, channel, tokens, runtime, outcome, sent, bounds>>

\* interrupt_turn is done, well or not.
StopTurn ==
    /\ Selecting /\ drv.pc = "stop"
    /\ drv' = [drv EXCEPT !.pc = "interrupt", !.sending = <<"status">>]
    /\ UNCHANGED <<now, sup, channel, tokens, runtime, outcome, sent, bounds>>

Interrupted ==
    /\ Selecting /\ drv.pc = "interrupt" /\ drv.sending = <<>>
    /\ drv' = [drv EXCEPT !.pc = "read", !.result = "none",
                          !.guard = NoteInterrupt(@, drv.result)]
    /\ UNCHANGED <<now, sup, channel, tokens, runtime, outcome, sent, bounds>>

Woken ==
    \/ now >= drv.wakeAt
    \/ runtime.journal # <<>>
    \/ drv.watching /\ cancel

Wake ==
    /\ Selecting /\ drv.pc = "sleep" /\ Woken
    /\ drv' = [drv EXCEPT !.pc = "read", !.watching = FALSE, !.wakeAt = 0]
    /\ UNCHANGED <<now, sup, channel, tokens, runtime, outcome, sent, bounds>>

-----------------------------------------------------------------------------
(* The runtime's turn, requests from outside, and time.                     *)

\* The turn runs and the executor still follows its journal.
Following ==
    /\ sup.pc \notin {"drain", "finish", "done"}
    /\ drv.pc \notin {"new", "start", "busy", "returned"}

\* After these the journal of the turn has no more events.
TurnEnds == {"turn_completed", "turn_interrupted", "turn_failed", "store_failed"}

\* The runtime appends an event its turn may have: one tool and one approval
\* open at a time, nothing after the end of the turn.
JournalEvent(kind) ==
    /\ Following
    /\ appended < MaxJournal /\ appended' = appended + 1
    /\ ~runtime.ended
    /\ kind = "tool_start" => ~runtime.tool
    /\ kind = "tool_end" => runtime.tool
    /\ kind = "approval" => ~runtime.approval
    /\ kind \in {"decided", "approval_timeout"} => runtime.approval
    /\ runtime' = [journal |-> Append(runtime.journal, kind),
                   tool |-> (runtime.tool \/ kind = "tool_start")
                               /\ kind # "tool_end",
                   approval |-> (runtime.approval \/ kind = "approval")
                               /\ kind \notin {"decided", "approval_timeout"},
                   ended |-> kind \in TurnEnds]
    /\ UNCHANGED <<now, sup, drv, channel, tokens, outcome, sent, stalls, faults>>

\* One more request from outside is within the bound.
Requesting ==
    /\ outcome = "none"
    /\ (IF asked = Never THEN 0 ELSE 1) + (IF shutdown THEN 1 ELSE 0)
          < MaxRequests

\* cancel_task, in this process (token and record) or in another (record).
AskCancel ==
    /\ Requesting /\ asked = Never
    /\ asked' = now
    /\ cancel' \in {cancel, TRUE}
    /\ UNCHANGED <<now, sup, drv, channel, shutdown, runtime, outcome, sent,
                   bounds>>

RequestShutdown ==
    /\ Requesting /\ ~shutdown
    /\ shutdown' = TRUE
    /\ UNCHANGED <<now, sup, drv, channel, cancel, asked, runtime, outcome, sent,
                   bounds>>

\* A call of the runtime may still be open when time passes.
Tick ==
    /\ Branching
    /\ ~FlushDue /\ ~Receivable /\ ~ShutdownSeen
    /\ drv.pc = "busy" => ~cancel /\ now < drv.wakeAt
    /\ drv.pc = "sleep" => ~Woken
    /\ now < sup.wakeAt /\ now < Horizon
    /\ now' = now + 1
    /\ UNCHANGED <<sup, drv, channel, tokens, runtime, outcome, sent, bounds>>

\* The loop is held up between two selects: by the store lock, or because
\* the worker was polled late.
Stall ==
    /\ sup.pc \in {"poll", "retry", "guard", "queued"}
    /\ stalls < MaxStalls /\ now < Horizon
    /\ stalls' = stalls + 1
    /\ now' = now + 1
    /\ UNCHANGED <<sup, drv, channel, tokens, runtime, outcome, sent, appended,
                   faults>>

-----------------------------------------------------------------------------
SupervisorStep ==
    \/ Poll \/ Retry \/ Guard \/ DrainQueued
    \/ ExecReturned \/ Flush \/ Receive \/ SeeShutdown \/ Timer
    \/ Drain \/ Finish

\* What the executor does by itself, and the answers of the runtime.
DriverStep ==
    \/ Execute \/ BusyWake \/ Send \/ Announced
    \/ Ingest \/ Check \/ DriverGuard \/ Interrupted \/ Wake

RuntimeAnswer == StartTurn \/ ReadJournal \/ TurnDenied \/ StopTurn

Next ==
    \/ SupervisorStep \/ DriverStep \/ RuntimeAnswer
    \/ \E kind \in JournalKinds : JournalEvent(kind)
    \/ AskCancel \/ RequestShutdown \/ Tick \/ Stall

Spec == Init /\ [][Next]_vars

\* The worker's future is polled and time passes; the runtime may never
\* answer a call.
FairSpec == Spec /\ WF_vars(SupervisorStep) /\ WF_vars(DriverStep) /\ WF_vars(Tick)
-----------------------------------------------------------------------------
(* Properties. *)

InLoop == sup.pc \in {"poll", "retry", "guard", "queued", "select"}

Time == 0..Horizon
Moment == Time \cup {Never}

InterruptReasons == {"canceled", "shutdown", "wall_timeout", "idle_timeout"}
Reasons == InterruptReasons \cup {"none", "completed", "cancel_timeout", "failed"}

GuardType == [started : Time, progress : Time, at : Moment,
              reason : InterruptReasons \cup {"none"}]

EventKinds == {"runtime", "delta", "tool_started", "tool_completed", "status",
               "error", "linked", "heartbeat"}
Event == [kind : EventKinds, id : Nat]

SupervisorType ==
    [pc : {"poll", "retry", "guard", "queued", "select", "drain", "finish", "done"},
     guard : GuardType, dirty : Moment, persistAt : Nat \cup {Never},
     nextPoll : Nat, nextRetry : Nat, wakeAt : Nat, watching : BOOLEAN,
     started : BOOLEAN, left : Nat, blocked : Event \cup {NoEvent},
     applied : Nat, result : Reasons]

DriverType ==
    [pc : {"new", "start", "busy", "announce", "read", "ingest", "deny",
           "evaluate", "stop", "interrupt", "sleep", "returned"},
     guard : GuardType, tool : BOOLEAN, approval : Nat \cup {Never},
     batch : Seq(Kinds), sending : Seq(EventKinds), end : Reasons,
     checked : Time, wakeAt : Nat, watching : BOOLEAN, result : Reasons]

\* The type invariant: the locals of the two loops, and a channel that never
\* holds more than its capacity.
SupervisorTypeOK ==
    /\ now \in Time
    /\ sup \in SupervisorType
    /\ drv \in DriverType
    /\ channel \in Seq(Event) /\ Len(channel) <= ChannelCap
    /\ cancel \in BOOLEAN /\ shutdown \in BOOLEAN
    /\ asked \in Moment
    /\ runtime \in [journal : Seq(Kinds), tool : BOOLEAN, approval : BOOLEAN,
                    ended : BOOLEAN]
    /\ outcome \in Reasons
    /\ {sent, appended, stalls, faults} \subseteq Nat

\* The execution is over when its wall time and the grace are spent, counted
\* without stalls: no traffic of events and heartbeats, no failing store, no
\* refused event and no executor that ignores the token keeps the watchdog
\* from releasing the worker (ExecutionGuard::evaluate, run_task).
Deadline == InLoop => now <= WallTime + CancelGrace + stalls

\* A cancellation recorded by any process ends the execution within two poll
\* intervals and the grace: a loop turn that just misses the poll sleeps up to
\* an interval before the next (observe_task_cancellation, ExecutionGuard).
CancelPrompt ==
    InLoop /\ asked # Never
        => now <= asked + 2 * Refresh - 1 + CancelGrace + stalls

\* The event after sup.applied that is not blocked.
Unblocked == sup.applied + (IF sup.blocked = NoEvent THEN 0 ELSE 1)

\* The places of the channel that hold an event to be recorded.
Queued == {i \in DOMAIN channel : channel[i].kind # "heartbeat"}

\* Task events are applied in the order they were sent, each once: what is
\* applied, blocked and queued is what was sent, and nothing is left when the
\* outcome is written (run_task, process_execution_event).
EventOrder ==
    /\ Unblocked <= sent
    /\ sup.blocked # NoEvent => sup.blocked.id = Unblocked
    /\ {channel[i].id : i \in Queued} = (Unblocked + 1)..sent
    /\ \A i, j \in Queued : i < j => channel[i].id < channel[j].id
    /\ sup.pc \in {"finish", "done"} => sup.applied = sent

\* While the store works, an accepted event is written within the debounce
\* after the first unwritten one: neither heartbeats, polls nor a busy
\* channel postpone the write (run_task's persist_deadline).
DebouncedWrite ==
    sup.pc = "select" /\ sup.dirty # Never /\ faults = 0
        => now <= sup.dirty + PersistDebounce + stalls

\* The supervisor's guard gives up on the execution for idleness.
IdleInterrupt ==
    sup.guard.reason = "none" /\ sup'.guard.reason = "idle_timeout"

\* The longest sleep of the driver: a poll, or the grace once it has
\* interrupted the turn itself.
DriverNap == IF drv.guard.at = Never THEN Refresh ELSE CancelGrace

\* "Progress already accepted by the executor must win an idle deadline race",
\* and "A tool that is still running IS progress": the supervisor's idle
\* deadline never fires with progress in the channel, nor while the driver
\* sleeps next to a running tool, unless the sleep and the worker's stalls
\* make up the whole idle limit.
IdleHonest ==
    [][IdleInterrupt =>
          /\ \A i \in DOMAIN channel : channel[i].kind \notin ProgressEvents
          /\ drv.tool /\ drv.pc = "sleep" => stalls + DriverNap >= IdleProgress]_vars

\* Every execution ends and its outcome is written, whatever the executor and
\* the runtime do, while at most MaxFaults writes of the store fail (one in the
\* run): a blocked event is retried, a failed flush reported and a failed final
\* write repeated (run_task, finish_task).
Finishes == <>(sup.pc = "done")

\* "Task made no model or tool progress before the idle deadline": the
\* supervisor's idle deadline fires only when the driver saw no model or tool
\* progress for that long.
IdleReceiptTrue ==
    [][IdleInterrupt => \/ drv.guard.progress = drv.guard.started
                        \/ now - drv.guard.progress >= IdleProgress]_vars

\* "receipts and status views can show a forced timeout separately from a
\* cooperative cancel": an outcome of canceled means that a cancellation was
\* requested, that the executor reported one, or that storage trouble
\* stopped the execution.
CanceledWasAsked ==
    outcome = "canceled" => asked # Never \/ drv.result = "canceled" \/ faults > 0
=============================================================================
