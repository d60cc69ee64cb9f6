---------------------------- MODULE MCPowerEvents ----------------------------
(* Automatic refresh, never, and a timer. *)
EXTENDS PowerEvents

MCIntervals == {0, -1, 5}
=============================================================================
