--------------------------- MODULE TaskLifecycle ---------------------------
(***************************************************************************)
(* What the task store promises the callers of add_task, cancel_task and   *)
(* the readers of task records, without processes, locks, files, leases,   *)
(* storage failures or crashes.  A task is accepted once, is started at    *)
(* most once, ends once, and its end respects a cancellation that was      *)
(* recorded while it ran.                                                  *)
(***************************************************************************)
EXTENDS Naturals

CONSTANT Tasks

VARIABLES
    life,     \* per task: none, queued, running or how it ended
    asked,    \* per task: a cancellation was recorded while it ran
    started   \* per task: its execution was begun

lifecycleVars == <<life, asked, started>>

Ends == {"completed", "failed", "canceled"}

LifecycleInit ==
    /\ life = [t \in Tasks |-> "none"]
    /\ asked = [t \in Tasks |-> FALSE]
    /\ started = [t \in Tasks |-> 0]

Accept(t) ==
    /\ life[t] = "none"
    /\ life' = [life EXCEPT ![t] = "queued"]
    /\ UNCHANGED <<asked, started>>

Take(t) ==
    /\ life[t] = "queued"
    /\ life' = [life EXCEPT ![t] = "running"]
    /\ UNCHANGED <<asked, started>>

Execute(t) ==
    /\ life[t] = "running"
    /\ started[t] = 0
    /\ started' = [started EXCEPT ![t] = 1]
    /\ UNCHANGED <<life, asked>>

\* A queued task is closed at once, a running one is asked to stop.
Cancel(t) ==
    \/ /\ life[t] = "queued"
       /\ life' = [life EXCEPT ![t] = "canceled"]
       /\ UNCHANGED <<asked, started>>
    \/ /\ life[t] = "running"
       /\ asked' = [asked EXCEPT ![t] = TRUE]
       /\ UNCHANGED <<life, started>>

\* Success needs an execution and no recorded cancellation.
End(t, how) ==
    /\ life[t] = "running"
    /\ how = "completed" => started[t] = 1 /\ ~asked[t]
    /\ life' = [life EXCEPT ![t] = how]
    /\ UNCHANGED <<asked, started>>

LifecycleNext ==
    \E t \in Tasks :
        \/ Accept(t) \/ Take(t) \/ Execute(t) \/ Cancel(t)
        \/ \E how \in Ends : End(t, how)

LifecycleSpec == LifecycleInit /\ [][LifecycleNext]_lifecycleVars
=============================================================================
