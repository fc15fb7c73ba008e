---------------------------- MODULE MCTaskStore ----------------------------
(* Small instances of TaskStore for TLC. *)
EXTENDS TaskStore

\* The reasons finish_task tells apart: success, an error, and a deadline.
MCOutcomes == {"completed", "failed", "cancel_timeout"}
=============================================================================
