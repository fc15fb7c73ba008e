-------------------------- MODULE MCLaunchGovernor --------------------------
(* Small instances of LaunchGovernor for TLC. *)
EXTENDS LaunchGovernor, TLC

CONSTANTS c1, c2, c3, o

\* Two children of one owner and one whose runtime has no limits.
MCOwnerOf == c1 :> o @@ c2 :> o @@ c3 :> None
=============================================================================
