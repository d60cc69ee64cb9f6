--------------------------- MODULE MCDaemonRunFile ---------------------------
(***************************************************************************)
(* An instance of DaemonRunFile for TLC: launches after an earlier session. *)
(***************************************************************************)
EXTENDS DaemonRunFile, TLC

CONSTANTS d0, d1, d2

\* Launches differ only in their names.
LaunchSymmetry == Permutations(Procs \ {Earlier})

\* Once the locks are defeated the daemon promises nothing more.
UntilDefeat == LocksHeld
=============================================================================
