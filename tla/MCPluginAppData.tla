--------------------------- MODULE MCPluginAppData ---------------------------
(***************************************************************************)
(* Instances of PluginAppData for TLC.                                     *)
(***************************************************************************)
EXTENDS PluginAppData, TLC

CONSTANTS p1, p2, b1, b2, b3, t1, t2

\* One plug-in in two releases: b2 is the later one.
OneOwner == b1 :> p1 @@ b2 :> p1
OneSequence == b1 :> 1 @@ b2 :> 2

\* Two plug-ins competing for one record; p1 has two releases, p2 one.
TwoOwner == b1 :> p1 @@ b2 :> p1 @@ b3 :> p2
TwoSequence == b1 :> 1 @@ b2 :> 2 @@ b3 :> 1

\* Transaction identifiers are interchangeable.
TokenSymmetry == Permutations(Tokens)
=============================================================================
