------------------------------- MODULE MCFleet -------------------------------
(* Small instances of FleetManager for TLC. *)
EXTENDS FleetManager
=============================================================================
