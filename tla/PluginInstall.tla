---------------------------- MODULE PluginInstall ----------------------------
(***************************************************************************)
(* What the app-data transaction promises: the bytes a restart will find   *)
(* and the record it will find them under change together, in one step.    *)
(* A record also changes alone, by the enable switches; a switch that      *)
(* schedules app-data bytes stores the digest it read when it was tapped.  *)
(***************************************************************************)
EXTENDS Naturals

CONSTANTS Plugins, Builds, Owner, Sequence, None

VARIABLES
  bytes,   \* the build at each plug-in's canonical place after a restart
  rec,     \* the record that governs it
  choice   \* an enable switch that has read its digest

vars == <<bytes, rec, choice>>

Init ==
  /\ bytes = [p \in Plugins |-> None]
  /\ rec = [p \in Plugins |-> None]
  /\ choice = None

AppData(b, enabled) == [digest |-> b, source |-> "appData", enabled |-> enabled]

\* A build replaces nothing, itself, or an older release.  The plug-in stays
\* disabled if it was, and is enabled when it is new.
Install(b) ==
  LET p == Owner[b]
      keep == IF rec[p] = None THEN TRUE ELSE rec[p].enabled IN
  /\ bytes[p] \in {None, b} \/ Sequence[b] > Sequence[bytes[p]]
  /\ rec[p] = None \/ rec[p] = AppData(bytes[p], keep)
  /\ bytes' = [bytes EXCEPT ![p] = b]
  /\ rec' = [rec EXCEPT ![p] = AppData(b, keep)]
  /\ UNCHANGED choice

Remove(p) ==
  /\ bytes[p] # None
  /\ rec[p] = None \/ rec[p] = AppData(bytes[p], rec[p].enabled)
  /\ bytes' = [bytes EXCEPT ![p] = None]
  /\ rec' = [rec EXCEPT ![p] = None]
  /\ UNCHANGED choice

Choose(p, b, enabled) ==
  /\ choice = None
  /\ choice' = [plugin |-> p, digest |-> b, enabled |-> enabled]
  /\ UNCHANGED <<bytes, rec>>

Store ==
  /\ choice # None
  /\ rec' = [rec EXCEPT ![choice.plugin] = AppData(choice.digest, choice.enabled)]
  /\ choice' = None
  /\ UNCHANGED bytes

Forget ==
  /\ choice # None
  /\ choice' = None
  /\ UNCHANGED <<bytes, rec>>

StoreOther(b, enabled) ==
  /\ rec' = [rec EXCEPT ![Owner[b]] = [digest |-> b, source |-> "other", enabled |-> enabled]]
  /\ UNCHANGED <<bytes, choice>>

Enable(p, enabled) ==
  /\ rec[p] # None
  /\ rec' = [rec EXCEPT ![p] = [@ EXCEPT !.enabled = enabled]]
  /\ UNCHANGED <<bytes, choice>>

Drop(p) ==
  /\ rec' = [rec EXCEPT ![p] = None]
  /\ UNCHANGED <<bytes, choice>>

Next ==
  \/ \E b \in Builds : Install(b)
  \/ \E p \in Plugins : Remove(p) \/ Drop(p)
  \/ \E p \in Plugins, b \in Builds, enabled \in BOOLEAN : Choose(p, b, enabled)
  \/ Store \/ Forget
  \/ \E b \in Builds, enabled \in BOOLEAN : StoreOther(b, enabled)
  \/ \E p \in Plugins, enabled \in BOOLEAN : Enable(p, enabled)

Spec == Init /\ [][Next]_vars
=============================================================================
