-------------------------- MODULE MCTaskSupervisor --------------------------
(* Small instances of TaskSupervisor for TLC. *)
EXTENDS TaskSupervisor

\* A turn that talks, runs a tool that does not end, and completes.
Work == {"message", "tool_start", "turn_completed"}

\* A turn that waits for a decision, in time or not, or whose journal breaks.
Waits == {"approval", "decided", "approval_timeout", "store_failed"}

Thinking == {"reasoning"}
Completion == {"turn_completed"}
=============================================================================
