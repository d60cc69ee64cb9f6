--------------------------- MODULE MCControlServer ---------------------------
(* Three connections for two places. *)
EXTENDS ControlServer
CONSTANTS c1, c2, c3

MCClients == {c1, c2, c3}
=============================================================================
