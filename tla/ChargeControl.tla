---------------------------- MODULE ChargeControl ----------------------------
(***************************************************************************)
(* The policy of the charging-limit daemon: battery events and commands of *)
(* the app are turned into writes of two SMC keys, CH0C (charge) and CH0I  *)
(* (inflow).  Three threads run update_power_level without a lock: main,   *)
(* once, at startup; power, the serial queue of battery events; client,    *)
(* for each command 4.  The settings are mapped from a file the app writes *)
(* one byte at a time, so each read of a byte is a step of its own, and so *)
(* are the comparison with a key's cache, the write and its note.          *)
(*                                                                         *)
(* A key is its bit 0, the inhibition; managed is bit 1, which says that   *)
(* Optimized Battery Charging has taken the key over.                      *)
(***************************************************************************)
EXTENDS Integers, Sequences

CONSTANTS
  MaxLevel,   \* battery levels are 0..MaxLevel (100 in the program)
  MaxMoves,   \* bound on failed accesses to the SMC, edits and changes of the device
  Off         \* the byte 255, no threshold

ASSUME LevelAssumption == MaxLevel \in Nat \ {0} /\ MaxMoves \in Nat
ASSUME OffAssumption == Off \notin Nat

Keys    == {"CH0C", "CH0I"}
Threads == {"main", "power", "client"}
Level   == 0..MaxLevel
Threshold == Level \cup {Off}
Mode == [keepAC : BOOLEAN, override : BOOLEAN]             \* the bits of drain_config
Settings == [resume : Threshold, limit : Threshold, mode : Mode]
Stores == ({"resume", "limit"} \X Threshold) \cup ({"mode"} \X Mode)
Badges  == {"none", "failed", "noAdapter", "noVBUS", "managed", "inhibited", "allowed"}

VARIABLES
  key, managed,   \* bits 0 and 1 of the keys
  adapter,        \* "none", "noVBUS" or "there"
  level,          \* what the battery reports
  settings,       \* the bytes of daemon_settings
  stores,         \* stores the app has still to do for one edit
  present,        \* the settings file exists
  up,             \* the daemon: "no", "starting", "running"
  cache,          \* CH0CCache and CH0ICache; "unknown" is -1
  lastLevel,      \* last_power_level; -1 at first
  badge,
  th,             \* the threads
  moves,
  \* History, for the properties:
  upset,          \* handlers overlapped, a stop failed halfway or a key was set by hand
  switched        \* a key may be left from another mode or an earlier daemon

hardware == <<key, managed, adapter, level>>
appVars  == <<settings, stores, present>>
daemon   == <<cache, lastLevel, badge>>
vars == <<hardware, appVars, up, daemon, th, moves, upset, switched>>

-----------------------------------------------------------------------------
Steps == {"idle", "check", "decide", "paired", "alone", "probe",
          "compare", "write", "note", "stopI", "stopC", "leave"}
Thread == [at : Steps, level : Level \cup {-1}, mode : Mode,
           inhibit : BOOLEAN, taken : BOOLEAN, failed : BOOLEAN, quiet : BOOLEAN]
Plain == [keepAC |-> FALSE, override |-> FALSE]
Idle == [at |-> "idle", level |-> -1, mode |-> Plain,
         inhibit |-> FALSE, taken |-> FALSE, failed |-> FALSE, quiet |-> FALSE]

AtLeast(v, limit) == limit # Off /\ v >= limit          \* Off is 255
AtMost(v, resume) == resume # Off /\ v <= resume

\* daemon_settings_valid: no resume threshold without a greater limit.
Valid(resume, limit) == resume # Off => limit # Off /\ resume < limit

Target(t) == IF th[t].mode.keepAC THEN "CH0C" ELSE "CH0I"
Busy(t) == th[t].at # "idle"
Goes(t, step) == th' = [th EXCEPT ![t].at = step]
Done(t) == th' = [th EXCEPT ![t] = Idle]
Ends(t, shown) == Done(t) /\ badge' = shown
Moves == moves < MaxMoves /\ moves' = moves + 1

Init ==
  /\ key = [k \in Keys |-> FALSE] /\ managed = [k \in Keys |-> FALSE]
  /\ adapter = "there" /\ level \in Level
  /\ settings = [resume |-> 0, limit |-> MaxLevel, mode |-> Plain]
  /\ stores = <<>> /\ present = TRUE
  /\ up = "no"
  /\ cache = [k \in Keys |-> "unknown"] /\ lastLevel = -1 /\ badge = "none"
  /\ th = [t \in Threads |-> Idle]
  /\ moves = 0 /\ upset = FALSE /\ switched = FALSE

-----------------------------------------------------------------------------
(* The daemon starts, with what its predecessor left in the keys.          *)

Launch ==
  /\ up = "no"
  /\ up' = "starting"
  /\ cache' = [k \in Keys |-> "unknown"] /\ lastLevel' = -1
  /\ upset' = FALSE /\ switched' = \E k \in Keys : key[k]
  /\ UNCHANGED <<hardware, appVars, badge, th, moves>>

\* It checks the settings once and applies them without waiting for an event.
Begin(t, val) == th' = [th EXCEPT ![t] = [Idle EXCEPT !.at = "check", !.level = val,
                                                      !.quiet = stores = <<>>]]
Overlap(t) == upset' = (upset \/ \E u \in Threads \ {t} : Busy(u))

Start ==
  /\ up = "starting"
  /\ IF present /\ Valid(settings.resume, settings.limit)
     THEN /\ up' = "running"
          /\ Begin("main", level)
     ELSE up' = "no" /\ UNCHANGED th
  /\ UNCHANGED <<hardware, appVars, daemon, moves, upset, switched>>

-----------------------------------------------------------------------------
(* powerevent_listener and the commands.                                   *)

\* The queue is serial.  Without its settings file the daemon leaves at once.
PowerEvent ==
  /\ up = "running" /\ ~Busy("power")
  /\ IF present
     THEN Begin("power", level) ELSE Goes("power", "leave")
  /\ Overlap("power")
  /\ UNCHANGED <<hardware, appVars, up, daemon, moves, switched>>

\* The control thread exists once main is past the initial event.
ClientReady == up = "running" /\ ~Busy("client") /\ ~Busy("main")

\* Command 4: the last level is decided again.
Redecide ==
  /\ ClientReady
  /\ lastLevel # -1
  /\ Begin("client", lastLevel)
  /\ Overlap("client")
  /\ UNCHANGED <<hardware, appVars, up, daemon, moves, switched>>

\* Command 3: both keys are released, CH0I first, and the process ends.
Stop ==
  /\ ClientReady
  /\ Goes("client", "stopI")
  /\ Overlap("client")
  /\ UNCHANGED <<hardware, appVars, up, daemon, moves, switched>>

\* A mutant: either release will do.
ReleaseEither(k, at, next) ==
  /\ th["client"].at = at
  /\ \/ /\ key' = [key EXCEPT ![k] = FALSE]
        /\ UNCHANGED moves
     \/ /\ Moves
        /\ UNCHANGED key
  /\ Goes("client", next)
  /\ UNCHANGED <<managed, adapter, level, appVars, up, daemon, upset, switched>>

\* A failure is answered and the daemon goes on, without a word to its caches.
Release(k, at, next) ==
  /\ th["client"].at = at
  /\ \/ /\ key' = [key EXCEPT ![k] = FALSE]
        /\ Goes("client", next)
        /\ UNCHANGED <<badge, moves, upset>>
     \/ /\ Moves
        /\ Ends("client", "failed")
        /\ upset' = (upset \/ at = "stopC")
        /\ UNCHANGED key
  /\ UNCHANGED <<managed, adapter, level, appVars, up, cache, lastLevel, switched>>

StopInflow == Release("CH0I", "stopI", "stopC")
StopCharge == Release("CH0C", "stopC", "leave")

\* exit(0): its destructor waits for the callback the power queue is running.
Exit(t) ==
  /\ th[t].at = "leave"
  /\ t # "power" => ~Busy("power")
  /\ up' = "no"
  /\ th' = [u \in Threads |-> Idle]
  /\ badge' = IF t = "client" THEN "none" ELSE badge
  /\ UNCHANGED <<hardware, appVars, cache, lastLevel, moves, upset, switched>>

-----------------------------------------------------------------------------
(* update_power_level.                                                     *)

\* Invalid settings are ignored; with two thresholds of 255 the badge goes, the keys stay.
\* (is_charging, which follows, only serves an alert about wireless charging.)
Check(t) ==
  /\ th[t].at = "check"
  /\ IF ~Valid(settings.resume, settings.limit)
     THEN Done(t) /\ UNCHANGED <<badge, lastLevel>>
     ELSE /\ lastLevel' = th[t].level
          /\ IF settings.resume = Off /\ settings.limit = Off
             THEN Ends(t, "none")
             ELSE Goes(t, "decide") /\ UNCHANGED badge
  /\ UNCHANGED <<hardware, appVars, up, cache, moves, upset, switched>>

Switch(t, on) == th' = [th EXCEPT ![t] = [@ EXCEPT !.at = "probe", !.inhibit = on]]

\* The mode and the thresholds are read again.  At or below resume, charging is allowed.
DecideResume(t) ==
  /\ th[t].at = "decide"
  /\ LET step == CASE settings.resume = Off -> "alone"
                   [] AtMost(th[t].level, settings.resume) -> "probe"
                   [] OTHER -> "paired"
     IN th' = [th EXCEPT ![t] = [@ EXCEPT !.at = step, !.mode = settings.mode]]
  /\ UNCHANGED <<hardware, appVars, up, daemon, moves, upset, switched>>

\* Mutants: between the thresholds the level itself is taken for the bit; the limit is
\* reached only when it is passed.
DecidePairedByLevel(t) ==
  /\ th[t].at = "paired"
  /\ Switch(t, IF AtLeast(th[t].level, settings.limit) THEN TRUE ELSE th[t].level # 0)
  /\ UNCHANGED <<hardware, appVars, up, daemon, moves, upset, switched>>

DecidePairedAbove(t) ==
  /\ th[t].at = "paired"
  /\ IF AtLeast(th[t].level, settings.limit) /\ th[t].level # settings.limit
     THEN Switch(t, TRUE) ELSE Done(t)
  /\ UNCHANGED <<hardware, appVars, up, daemon, moves, upset, switched>>

\* At the limit it is inhibited; between the two the keys keep what they have.
DecidePaired(t) ==
  /\ th[t].at = "paired"
  /\ IF AtLeast(th[t].level, settings.limit) THEN Switch(t, TRUE) ELSE Done(t)
  /\ UNCHANGED <<hardware, appVars, up, daemon, moves, upset, switched>>

DecideAlone(t) ==
  /\ th[t].at = "alone"
  /\ IF settings.limit = Off THEN Done(t) ELSE Switch(t, th[t].level >= settings.limit)
  /\ UNCHANGED <<hardware, appVars, up, daemon, moves, upset, switched>>

-----------------------------------------------------------------------------
(* power_switch_safe.                                                      *)

\* Without an adapter or without VBUS nothing is written.
NoPower(t) ==
  /\ th[t].at = "probe"
  /\ adapter # "there"
  /\ Ends(t, IF adapter = "none" THEN "noAdapter" ELSE "noVBUS")
  /\ UNCHANGED <<hardware, appVars, up, cache, lastLevel, moves, upset, switched>>

\* A key Optimized Battery Charging has taken is taken back, or only reported.
Overrides(t) == managed[Target(t)] /\ th[t].mode.override
Reports(t) == managed[Target(t)] /\ ~th[t].mode.override

\* To take it back the preference is switched off and, for CH0C only, its managed twin CH0B
\* is written; both are tried, whichever fails.
TakenBack(t) == [managed EXCEPT ![Target(t)] =
                   IF Overrides(t) /\ Target(t) = "CH0C" THEN th[t].inhibit ELSE @]

Probe(t) ==
  /\ th[t].at = "probe"
  /\ adapter = "there"
  /\ \/ /\ managed' = TakenBack(t)
        /\ th' = [th EXCEPT ![t] = [@ EXCEPT !.at = "compare", !.mode.override = FALSE,
                                              !.taken = Reports(t)]]
        /\ UNCHANGED moves
     \/ /\ Overrides(t)
        /\ Moves
        /\ th' = [th EXCEPT ![t] = [@ EXCEPT !.at = "compare", !.mode.override = FALSE,
                                              !.failed = TRUE]]
        /\ managed' \in {managed, TakenBack(t)}
  /\ UNCHANGED <<key, adapter, level, appVars, up, daemon, upset, switched>>

\* CHCE, CH0R or the key itself cannot be read.
ProbeFails(t) ==
  /\ th[t].at = "probe"
  /\ Moves
  /\ Ends(t, "failed")
  /\ UNCHANGED <<hardware, appVars, up, cache, lastLevel, upset, switched>>

Bit(b) == IF b THEN "on" ELSE "off"

Shown(t) == CASE th[t].failed -> "failed"
              [] ~th[t].failed /\ th[t].taken -> "managed"
              [] OTHER -> IF th[t].inhibit THEN "inhibited" ELSE "allowed"

\* The key is written only when it differs from what was written last.
Compare(t) ==
  /\ th[t].at = "compare"
  /\ IF cache[Target(t)] = Bit(th[t].inhibit)
     THEN Ends(t, Shown(t))
     ELSE Goes(t, "write") /\ UNCHANGED badge
  /\ UNCHANGED <<hardware, appVars, up, cache, lastLevel, moves, upset, switched>>

Write(t) ==
  /\ th[t].at = "write"
  /\ key' = [key EXCEPT ![Target(t)] = th[t].inhibit]
  /\ Goes(t, "note")
  /\ UNCHANGED <<managed, adapter, level, appVars, up, daemon, moves, upset, switched>>

\* A mutant: a failed write is noted like one that was done.
WriteFailsNoted(t) ==
  /\ th[t].at = "write"
  /\ Moves
  /\ cache' = [cache EXCEPT ![Target(t)] = Bit(th[t].inhibit)]
  /\ Ends(t, "failed")
  /\ UNCHANGED <<hardware, appVars, up, lastLevel, upset, switched>>

WriteFails(t) ==
  /\ th[t].at = "write"
  /\ Moves
  /\ Ends(t, "failed")
  /\ UNCHANGED <<hardware, appVars, up, cache, lastLevel, upset, switched>>

Note(t) ==
  /\ th[t].at = "note"
  /\ cache' = [cache EXCEPT ![Target(t)] = Bit(th[t].inhibit)]
  /\ Ends(t, Shown(t))
  /\ UNCHANGED <<hardware, appVars, up, lastLevel, moves, upset, switched>>

Update(t) ==
  \/ Check(t) \/ DecideResume(t) \/ DecidePaired(t) \/ DecideAlone(t)
  \/ NoPower(t) \/ Probe(t) \/ ProbeFails(t)
  \/ Compare(t) \/ Write(t) \/ WriteFails(t) \/ Note(t)

-----------------------------------------------------------------------------
(* The app: an edit is the list of the bytes it stores, in order.          *)

\* The resume threshold is kept below the limit; the limit slider begins at 1.
EditLimit(v) ==
  IF settings.resume # Off /\ v <= settings.resume
  THEN << <<"resume", v - 1>>, <<"limit", v>> >>
  ELSE << <<"limit", v>> >>

EditResume(v) ==
  IF settings.limit # Off /\ v >= settings.limit
  THEN IF v = MaxLevel THEN << <<"limit", MaxLevel>>, <<"resume", MaxLevel - 1>> >>
                       ELSE << <<"limit", v + 1>>, <<"resume", v>> >>
  ELSE << <<"resume", v>> >>

EditType ==
  IF settings.resume # Off THEN << <<"resume", Off>> >>
  ELSE IF settings.limit = Off THEN << <<"limit", MaxLevel>>, <<"resume", 0>> >>
  ELSE << <<"resume", 0>> >>

Defaults == << <<"resume", Off>>, <<"limit", Off>>, <<"mode", Plain>> >>

Edits ==
  {EditLimit(v) : v \in 1..MaxLevel}
  \cup (IF settings.resume = Off THEN {} ELSE {EditResume(v) : v \in Level})
  \cup {EditType, Defaults}
  \cup {<< <<"mode", [settings.mode EXCEPT !.keepAC = ~@]>> >>,
         << <<"mode", [settings.mode EXCEPT !.override = ~@]>> >>}

Edit ==
  /\ stores = <<>> /\ present
  /\ Moves
  /\ stores' \in Edits
  /\ th' = [t \in Threads |-> [th[t] EXCEPT !.quiet = FALSE]]
  /\ UNCHANGED <<hardware, settings, present, up, daemon, upset, switched>>

Store ==
  /\ stores # <<>>
  /\ settings' = [settings EXCEPT ![Head(stores)[1]] = Head(stores)[2]]
  /\ stores' = Tail(stores)
  /\ switched' = (switched \/ settings'.mode.keepAC # settings.mode.keepAC)
  /\ UNCHANGED <<hardware, present, up, daemon, th, moves, upset>>

\* The app is removed, or its settings page writes a key by hand.
Removed ==
  /\ present /\ Moves
  /\ present' = FALSE /\ stores' = <<>>
  /\ UNCHANGED <<hardware, settings, up, daemon, th, upset, switched>>

Toggle(k) ==
  /\ Moves
  /\ key' = [key EXCEPT ![k] = ~@]
  /\ upset' = TRUE
  /\ UNCHANGED <<managed, adapter, level, appVars, up, daemon, th, switched>>

-----------------------------------------------------------------------------
(* The device.                                                             *)

LevelMoves ==
  /\ Moves
  /\ level' \in {level - 1, level + 1} \cap Level
  /\ UNCHANGED <<key, managed, adapter, appVars, up, daemon, th, upset, switched>>

AdapterMoves ==
  /\ Moves
  /\ adapter' \in {"none", "noVBUS", "there"} \ {adapter}
  /\ UNCHANGED <<key, managed, level, appVars, up, daemon, th, upset, switched>>

ManagedMoves(k) ==
  /\ Moves
  /\ managed' = [managed EXCEPT ![k] = ~@]
  /\ UNCHANGED <<key, adapter, level, appVars, up, daemon, th, upset, switched>>

Next ==
  \/ Launch \/ Start \/ PowerEvent \/ Redecide \/ Stop \/ StopInflow \/ StopCharge
  \/ \E t \in Threads : Exit(t) \/ Update(t)
  \/ Edit \/ Store \/ Removed \/ LevelMoves \/ AdapterMoves
  \/ \E k \in Keys : Toggle(k) \/ ManagedMoves(k)

\* A thread that runs goes on; the battery keeps reporting.
Spec == Init /\ [][Next]_vars
        /\ WF_vars(Start) /\ WF_vars(PowerEvent) /\ WF_vars(Store)
        /\ \A t \in Threads : WF_vars(Update(t)) /\ WF_vars(Exit(t))
        /\ WF_vars(StopInflow) /\ WF_vars(StopCharge)
-----------------------------------------------------------------------------
\* Every variable has its shape; an edit stores levels of the scale, or no threshold.
TypeOK ==
  /\ key \in [Keys -> BOOLEAN] /\ managed \in [Keys -> BOOLEAN]
  /\ adapter \in {"none", "noVBUS", "there"} /\ level \in Level
  /\ settings \in Settings /\ stores \in Seq(Stores) /\ present \in BOOLEAN
  /\ up \in {"no", "starting", "running"}
  /\ cache \in [Keys -> {"unknown", "on", "off"}]
  /\ lastLevel \in Level \cup {-1}
  /\ badge \in Badges /\ th \in [Threads -> Thread] /\ moves \in 0..MaxMoves
  /\ upset \in BOOLEAN /\ switched \in BOOLEAN

\* What the daemon remembers of a key is what the key holds, outside the moment between a
\* write and its note.  Failed writes, edits at any point, changed modes, restarts and keys
\* under management never make CH0CCache or CH0ICache stale; only overlapping handlers, a
\* stop command that failed after releasing one key, and a key set by hand do.
CacheTrue ==
  up = "running" /\ ~upset
    => \A k \in Keys : \/ cache[k] \in {"unknown", Bit(key[k])}
                       \/ \E t \in Threads : th[t].at \in {"note", "stopC", "leave"}

\* A stop command that ends the daemon leaves both keys released: a success half done, or
\* one undone by what the daemon's caches still say, does not happen unless an update ran
\* while the command did.
StopReleases ==
  [][th["client"].at = "leave" /\ up' = "no" /\ ~upset => \A k \in Keys : ~key'[k]]_vars

\* Hysteresis: an update no edit disturbed writes a key only at a level outside the band
\* between the thresholds, and inhibits exactly when the level has reached the limit.
BandKept ==
  [][\A t \in Threads : th[t].at = "write" /\ th'[t].at = "note" /\ th[t].quiet =>
       /\ ~(settings.resume # Off /\ settings.resume < th[t].level
              /\ th[t].level < settings.limit)
       /\ key'[Target(t)] <=> AtLeast(th[t].level, settings.limit)]_vars

\* A daemon that is left alone enforces its thresholds: while the level stays at the limit
\* its key ends inhibited, while it stays at the resume threshold both keys end released,
\* whatever edits, failures and restarts came before.
Calm == /\ up = "running" /\ present /\ stores = <<>> /\ adapter = "there"
        /\ Valid(settings.resume, settings.limit) /\ ~upset /\ ~switched
Selected == IF settings.mode.keepAC THEN "CH0C" ELSE "CH0I"
Enforced ==
  /\ AtLeast(level, settings.limit) => key[Selected]
  /\ AtMost(level, settings.resume) => \A k \in Keys : ~key[k]
Settles == <>[]Calm => <>[]Enforced
=============================================================================
