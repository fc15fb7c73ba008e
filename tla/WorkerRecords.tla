---------------------------- MODULE WorkerRecords ----------------------------
(***************************************************************************)
(* The coordination record of one Fleet worker, kept by the sub-agent      *)
(* manager (engine/src/tools/subagent/mod.rs) beside the Fleet ledger, and *)
(* what the Fleet manager does to it.  The record names the launch         *)
(* generation that may be started and remembers whether the process of the *)
(* generation before it is known to be gone.                               *)
(*                                                                         *)
(* gen is the generation of the launch manifest; prepared says that        *)
(* prepared_generation is set; unsettled is                                *)
(* prepared_previous_attempt_unsettled; recint is recovery_interrupted;    *)
(* started says that started_at_ms is set.  "done" is Completed, Failed or *)
(* Cancelled.  s is the ledger's view of the worker's task.                *)
(***************************************************************************)
EXTENDS Naturals

RecordStatus == {"starting", "running", "interrupted", "done"}

NoRec == [gen |-> 0, status |-> "done", prepared |-> FALSE,
          unsettled |-> FALSE, recint |-> FALSE, started |-> FALSE]

\* register_worker_for_session writes a fresh record for generation 1.
Registered == [NoRec EXCEPT !.gen = 1, !.status = "starting"]

\* AgentWorkerStatus::is_terminal.
Ended(r) == r.status \in {"interrupted", "done"}

Closed(s) == s.status \in {"completed", "failed", "cancelled"}

\* A record whose host process is gone.
Recovered(r) ==
    IF ~r.prepared /\ r.status \in {"starting", "running"}
    THEN [r EXCEPT !.status = "interrupted", !.recint = TRUE]
    ELSE r

\* What a publication leaves in the store: a record that has ended there is
\* not reopened by the same generation.
Merged(stored, r) ==
    IF Ended(stored) /\ ~Ended(r) /\ r.gen <= stored.gen THEN stored ELSE r

-----------------------------------------------------------------------------
(* A restart prepares the next generation.                                  *)

\* The attempt a restart replaces needs no proof that its process is gone.
Settled(r) ==
    \/ r.status = "done" /\ ~r.recint
    \/ ~r.started /\ (r.prepared \/ ((r.status = "starting" \/ r.recint) /\ r.gen = 1))

\* Mutant: the process of the attempt before is taken to be gone.
Prepared_Settled(r) ==
    [r EXCEPT !.gen = @ + 1, !.status = "starting", !.prepared = TRUE,
              !.recint = FALSE, !.started = FALSE, !.unsettled = FALSE]

\* Mutant: the prepared mark is left as it was.
Prepared_Unmarked(r) ==
    [r EXCEPT !.gen = @ + 1, !.status = "starting",
              !.recint = FALSE, !.started = FALSE, !.unsettled = @ \/ ~Settled(r)]

Prepared(r) ==
    [r EXCEPT !.gen = @ + 1, !.status = "starting", !.prepared = TRUE,
              !.recint = FALSE, !.started = FALSE, !.unsettled = @ \/ ~Settled(r)]

\* prepare_registered_restart_generation for attempt a: the next generation is
\* prepared, or the one an earlier restart prepared is used.
Preparable(r, a) == (r.gen = a /\ ~r.unsettled) \/ r.gen = a + 1

PreparedFor(r, a) == IF r.gen = a THEN Prepared(r) ELSE r

-----------------------------------------------------------------------------
(* The driver admits a launch.                                              *)

Launchable(r, a) ==
    r.gen = a /\ ~r.unsettled /\ r.status = "starting" /\ ~r.started

Activated(r) == [r EXCEPT !.prepared = FALSE, !.recint = FALSE, !.started = TRUE]

-----------------------------------------------------------------------------
(* Reconciliation of a record with the ledger.  ev is the attempt whose     *)
(* process the executor saw stop, 0 for none.                               *)

\* The record is of the ledger's attempt or prepared for the one after it.
Matches(r, s) == r.gen = s.attempts \/ (r.prepared /\ r.gen = s.attempts + 1)

Cleared(r, s, ev) ==
    [r EXCEPT !.unsettled = @ /\ r.gen - 1 \notin {ev, s.receipt}]

\* A closed task ends its record only on proof that the process is gone.
Unproven(r, s, ev) ==
    /\ Closed(s)
    /\ ~(Ended(r) /\ ~r.recint)
    /\ r.started \/ ~(r.gen = 1 \/ r.prepared)
    /\ s.attempts \notin {ev, s.receipt}

Refused(old, s, ev) ==
    LET r == Cleared(old, s, ev)
    IN  \/ ~Matches(old, s)
        \/ /\ ~r.unsettled
           /\ \/ Unproven(r, s, ev) /\ r.recint
              \/ ~Closed(s) /\ r.gen = s.attempts /\ Ended(r)

Waiting(old, s, ev) ==
    LET r == Cleared(old, s, ev)
    IN  Closed(s) /\ (r.unsettled \/ Unproven(r, s, ev))

\* project_external_worker_status.
Projected(old, s, ev) ==
    LET r == Cleared(old, s, ev)
        keep == \/ r.unsettled \/ Unproven(r, s, ev)
                \/ r.gen # s.attempts
                \/ ~Closed(s) /\ r.status = "starting" /\ (r.prepared \/ ~r.started)
    IN  IF keep THEN r
        ELSE [r EXCEPT !.status = IF Closed(s) THEN "done" ELSE "running",
                       !.prepared = FALSE, !.recint = FALSE,
                       !.started = @ \/ ~Closed(s)]
=============================================================================
