--------------------------- MODULE MCPluginStartup ---------------------------
(***************************************************************************)
(* An instance of PluginStartup for TLC: an official plug-in in the app    *)
(* bundle and a third-party one, in two builds.                            *)
(***************************************************************************)
EXTENDS PluginStartup, TLC

CONSTANTS p1, p2, b1, b2

\* Builds are interchangeable: only the record ties a plug-in to one of them.
BuildSymmetry == Permutations(Builds)
=============================================================================
