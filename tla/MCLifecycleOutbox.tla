------------------------- MODULE MCLifecycleOutbox -------------------------
(* Small instances of LifecycleOutbox for TLC: one process, its restarts and
   the bounds of each configuration. *)
EXTENDS LifecycleOutbox
=============================================================================
