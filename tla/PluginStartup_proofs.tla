------------------------ MODULE PluginStartup_proofs ------------------------
(***************************************************************************)
(* Theorems about PluginStartup, for any plug-ins, builds and bounds.      *)
(***************************************************************************)
EXTENDS PluginStartup, TLAPS

-----------------------------------------------------------------------------
(* The inductive invariant.                                                *)

Before  == {"down", "reconcile", "check", "begin"}
Loading == {"load", "armed", "activate"}
Held    == {"armed", "activate"}

\* What the worker knows at each of its steps.
Knows ==
  /\ pc = "down" => session <= MaxDeaths
  /\ pc # "down" => session > 0
  /\ pc \in {"down", "reconcile", "check"} => requested = "unknown"
  /\ pc = "begin" => requested # "unknown"
  /\ pc \in Before => snapshot = None
  /\ pc \in Loading => snapshot # None /\ snapshot.records = records
  /\ pc \in Held => current # None /\ Unsettled /\ launch.attempt = current

\* Nothing is settled, and nothing asked, before startup is over or in a launch that never opened.
Quiet ==
  /\ pc # "complete" => timers = {} /\ settling = "no" /\ ~asking
  /\ snapshot = None => timers = {} /\ settling = "no"

\* A snapshot keeps to the answer and the recovery it was made from.
Decided ==
  snapshot # None => /\ requested # "unknown"
                     /\ requested = "yes" \/ snapshot.recovery # None => snapshot.safe

\* Native code runs outside safe mode only, and an attempt of this launch is recorded.
Ran ==
  /\ pc \in Held => ~snapshot.safe
  /\ ran # {} => snapshot # None /\ ~snapshot.safe /\ (Unsettled => launch.attempt # None)

\* What a death in native code has left in the marker waits there for the launch that opens next.
Left ==
  /\ owed => snapshot = None /\ Unsettled /\ launch.attempt # None
  /\ culprit # None => snapshot = None /\ Unsettled /\ launch.attempt = culprit

\* Until a later process has found it, the request is in the file and on the disk.
Requests ==
  /\ promised <= session
  /\ promised # 0 /\ promised = session => pc \in {"complete", "down"}
  /\ promised # 0 => IF promised < session /\ requested # "unknown" THEN requested = "yes"
                     ELSE sentinel = "once" /\ sentinelDisk = "once"
  /\ asking => sentinel = "torn"

\* A banned plug-in has a record that says so, and what is about to run has none that does.
Bans ==
  /\ \A p \in banned : records[p] # None /\ ~records[p].enabled
  /\ pc \in Held /\ records[current.plugin] # None => records[current.plugin].enabled
  /\ banned \cap ran = {}

\* A timer the app was left under is of an earlier generation.
Timers ==
  \A t \in timers : t.generation <= generation /\ (~t.whole => t.generation < generation)

Facts == Knows /\ Quiet /\ Decided /\ Ran /\ Left /\ Requests /\ Bans /\ Timers

StartupInv == TypeOK /\ Facts

-----------------------------------------------------------------------------
(* Type correctness.                                                       *)

LEMMA Limits == MaxDeaths \in Nat /\ MaxFaults \in Nat /\ MaxSwitches \in Nat
BY LimitAssumption

LEMMA TypeInit == Init => TypeOK
<1> SUFFICES ASSUME Init PROVE TypeOK
  OBVIOUS
<1>1. /\ session \in 0..(MaxDeaths + 1) /\ promised \in 0..(MaxDeaths + 1)
      /\ faults \in 0..MaxFaults /\ switches \in 0..MaxSwitches /\ generation \in Nat
  BY Limits DEF Init
<1>2. launch \in Launch \cup {None} /\ records \in [Plugins -> Record \cup {None}]
  BY DEF Init
<1>3. snapshot \in Snapshot \cup {None} /\ culprit \in Build \cup {None} /\ current \in Build \cup {None}
  BY DEF Init
<1> QED
  BY <1>1, <1>2, <1>3 DEF Init, TypeOK

\* A fault is counted up to the bound.
LEMMA FaultType == ASSUME TypeOK, Fault PROVE faults' \in 0..MaxFaults
BY Limits DEF TypeOK, Fault

LEMMA ArmType ==
  ASSUME TypeOK, Arm PROVE generation' \in Nat /\ timers' \subseteq Timer
<1>1. generation \in Nat /\ timers \subseteq Timer
  BY DEF TypeOK
<1>2. [generation |-> generation + 1, whole |-> TRUE] \in Timer
  BY <1>1 DEF Timer
<1>3. generation' \in Nat
  BY <1>1 DEF Arm
<1>4. timers' \subseteq Timer
  BY <1>1, <1>2 DEF Arm
<1> QED
  BY <1>3, <1>4

\* A record that is put in place of another is one the store decodes.
LEMMA PutType ==
  ASSUME TypeOK, NEW p \in Plugins, NEW r \in Record \cup {None}, PutRecord(p, r)
  PROVE  records' \in [Plugins -> Record \cup {None}]
BY DEF TypeOK, PutRecord

\* The worker's steps.
LEMMA StartupType == ASSUME StartupInv, Start \/ Startup PROVE TypeOK'
<1> USE Limits DEF StartupInv, Facts, TypeOK, keychain, file, screen, history
<1>1. CASE Start
  BY <1>1 DEF Start, Knows
<1>2. CASE Reconcile
  BY <1>2 DEF Reconcile
<1>3. CASE CheckSafeMode
  <2>1. faults' \in 0..MaxFaults
    BY <1>3, FaultType DEF CheckSafeMode
  <2> QED
    BY <1>3, <2>1 DEF CheckSafeMode
<1>4. CASE BeginStartup
  <2>1. Recovery \in Build \cup {None}
    BY DEF Recovery, Unsettled, Launch
  <2>2. snapshot' \in Snapshot /\ owed' \in BOOLEAN
    BY <1>4, <2>1 DEF BeginStartup, Snapshot
  <2>3. session \in 1..(MaxDeaths + 1)
    BY <1>4 DEF BeginStartup, Knows
  <2>4. launch' \in Launch
    BY <1>4, <2>3 DEF BeginStartup, Launch
  <2> QED
    BY <1>4, <2>2, <2>4 DEF BeginStartup
<1>5. ASSUME NEW p \in Plugins, Prepare(p) PROVE TypeOK'
  <2>1. [plugin |-> p, build |-> installed[p]] \in Build
    BY DEF Build
  <2>2. launch' \in Launch
    BY <1>5, <2>1 DEF Prepare, Unsettled, Launch
  <2> QED
    BY <1>5, <2>1, <2>2 DEF Prepare
<1>6. ASSUME NEW p \in Plugins, Skip(p) PROVE TypeOK'
  <2>1. faults' \in 0..MaxFaults
    BY <1>6, FaultType DEF Skip
  <2> QED
    BY <1>6, <2>1 DEF Skip
<1>7. CASE Map
  <2>1. current.plugin \in Plugins
    BY <1>7 DEF Map, Knows, Held, Build
  <2> QED
    BY <1>7, <2>1 DEF Map
<1>8. CASE MapRefused \/ Activated
  <2>1. faults' \in 0..MaxFaults
    BY <1>8, FaultType DEF MapRefused, Activated
  <2> QED
    BY <1>8, <2>1 DEF MapRefused, Activated
<1>9. CASE Complete
  <2>1. generation' \in Nat /\ timers' \subseteq Timer
    BY <1>9, ArmType DEF Complete
  <2>2. faults' \in 0..MaxFaults
    BY <1>9, FaultType DEF Complete
  <2> QED
    BY <1>9, <2>1, <2>2 DEF Complete
<1> QED
  BY <1>1, <1>2, <1>3, <1>4, <1>5, <1>6, <1>7, <1>8, <1>9 DEF Startup

\* The settlement's.
LEMMA SettlementType == ASSUME StartupInv, Settlement PROVE TypeOK'
<1> USE Limits
    DEF StartupInv, Facts, TypeOK, keychain, file, worker, history
<1>1. CASE BecomeActive
  <2>1. generation' \in Nat /\ timers' \subseteq Timer
    BY <1>1, ArmType DEF BecomeActive
  <2> QED
    BY <1>1, <2>1 DEF BecomeActive
<1>2. CASE LeaveActive
  <2>1. timers' \subseteq Timer
    <3>1. \A t \in timers : [generation |-> t.generation, whole |-> FALSE] \in Timer
      BY DEF Timer
    <3> QED
      BY <1>2, <3>1 DEF LeaveActive
  <2>2. switches' \in 0..MaxSwitches /\ generation' \in Nat
    BY <1>2 DEF LeaveActive
  <2>3. active' \in BOOLEAN
    BY <1>2 DEF LeaveActive
  <2>4. UNCHANGED <<keychain, file, installed, worker, session, settling, asking, faults, history>>
    BY <1>2 DEF LeaveActive
  <2> QED
    BY <2>1, <2>2, <2>3, <2>4
<1>3. ASSUME NEW t \in timers, GraceElapses(t) PROVE TypeOK'
  BY <1>3 DEF GraceElapses
<1>4. CASE Settle
  <2>1. launch' \in Launch
    BY <1>4 DEF Settle, Launch
  <2> QED
    BY <1>4, <2>1 DEF Settle
<1>5. CASE SettleFails \/ Settled
  <2>1. faults' \in 0..MaxFaults
    BY <1>5, FaultType DEF SettleFails, Settled
  <2> QED
    BY <1>5, <2>1 DEF SettleFails, Settled
<1> QED
  BY <1>1, <1>2, <1>3, <1>4, <1>5 DEF Settlement

\* The user's.
LEMMA ChoicesType == ASSUME StartupInv, Choices PROVE TypeOK'
<1> USE Limits
    DEF StartupInv, Facts, TypeOK, keychain, file, worker, screen, history
<1>1. ASSUME NEW p \in Plugins, NEW enabled \in BOOLEAN, SetEnabled(p, enabled) PROVE TypeOK'
  <2>1. [build |-> records[p].build, enabled |-> enabled] \in Record
    BY <1>1 DEF SetEnabled, Record
  <2> QED
    BY <1>1, <2>1, PutType DEF SetEnabled, Freed
<1>2. ASSUME NEW p \in Plugins, NEW enabled \in BOOLEAN, SetDiscovered(p, enabled) PROVE TypeOK'
  <2>1. [build |-> installed[p], enabled |-> enabled] \in Record
    BY DEF Record
  <2>2. records' \in [Plugins -> Record \cup {None}]
    BY <1>2, <2>1, PutType DEF SetDiscovered
  <2> QED
    BY <1>2, <2>2 DEF SetDiscovered, Freed
<1>3. ASSUME NEW enabled \in BOOLEAN, SetThirdParty(enabled) PROVE TypeOK'
  BY <1>3 DEF SetThirdParty
<1>4. CASE DisableRecovered
  <2>1. snapshot.recovery \in Build
    BY <1>4 DEF DisableRecovered, Snapshot
  <2>2. /\ snapshot.recovery.plugin \in Plugins
        /\ [build |-> snapshot.recovery.build, enabled |-> FALSE] \in Record
    BY <2>1 DEF Build, Record
  <2> QED
    BY <1>4, <2>2, PutType DEF DisableRecovered
<1>5. ASSUME NEW p \in Plugins, NEW b \in Builds, Update(p, b) PROVE TypeOK'
  <2>1. records[p] # None => [build |-> b, enabled |-> records[p].enabled] \in Record
    BY DEF Record
  <2>2. records' \in [Plugins -> Record \cup {None}]
    BY <1>5, <2>1, PutType DEF Update
  <2>3. installed' \in [Plugins -> Builds]
    BY <1>5 DEF Update
  <2>4. UNCHANGED <<launch, thirdParty, file, worker, session, screen, faults, history>>
    BY <1>5 DEF Update
  <2> QED
    BY <2>2, <2>3, <2>4
<1>6. CASE AskCreate \/ AskStored \/ AskFails
  <2>1. faults' \in 0..MaxFaults
    BY <1>6, FaultType DEF AskCreate, AskStored, AskFails
  <2>2. {sentinel', sentinelDisk'} \subseteq {"none", "once", "torn"}
    BY <1>6 DEF AskCreate, AskStored, AskFails
  <2>3. asking' \in BOOLEAN
    BY <1>6 DEF AskCreate, AskStored, AskFails
  <2>4. promised' \in 0..(MaxDeaths + 1)
    BY <1>6 DEF AskCreate, AskStored, AskFails
  <2>5. UNCHANGED <<keychain, installed, worker, session, active, generation, timers, settling,
                    switches, owed, culprit, banned>>
    BY <1>6 DEF AskCreate, AskStored, AskFails
  <2> QED
    BY <2>1, <2>2, <2>3, <2>4, <2>5
<1> QED
  BY <1>1, <1>2, <1>3, <1>4, <1>5, <1>6 DEF Choices

\* Deaths, and the file system.
LEMMA DeathsType == ASSUME StartupInv, Die \/ PowerLoss \/ WriteBack PROVE TypeOK'
<1> USE Limits
    DEF StartupInv, Facts, TypeOK, keychain, file, worker, screen, history
<1>1. ASSUME Stop, sentinelDisk' = sentinelDisk, sentinel' \in {sentinel, sentinelDisk}
      PROVE  TypeOK'
  <2>1. promised' \in 0..(MaxDeaths + 1)
    BY <1>1 DEF Stop, Spent
  <2>2. active' \in BOOLEAN /\ asking' \in BOOLEAN /\ owed' \in BOOLEAN
    BY <1>1 DEF Stop
  <2>3. /\ pc' = "down" /\ requested' = "unknown" /\ snapshot' = None
        /\ todo' = {} /\ current' = None /\ ran' = {}
        /\ generation' = 0 /\ timers' = {} /\ settling' = "no" /\ switches' = 0
        /\ culprit' \in {culprit, current}
        /\ UNCHANGED <<keychain, installed, session, faults, banned>>
    BY <1>1 DEF Stop
  <2> QED
    BY <1>1, <2>1, <2>2, <2>3
<1>2. CASE WriteBack
  BY <1>2 DEF WriteBack
<1> QED
  BY <1>1, <1>2 DEF Die, PowerLoss

-----------------------------------------------------------------------------
(* The worker.                                                             *)

LEMMA FactsInit == Init => Facts
<1> SUFFICES ASSUME Init PROVE Facts
  OBVIOUS
<1> USE Limits DEF Init, Before, Loading, Held
<1>1. Knows /\ Quiet /\ Decided /\ Ran
  BY DEF Knows, Quiet, Decided, Ran
<1>2. Left /\ Requests /\ Bans /\ Timers
  BY DEF Left, Requests, Bans, Timers
<1> QED
  BY <1>1, <1>2 DEF Facts

\* A launch begins with nothing of the last process, until it opens the marker.
LEMMA OpeningKeeps ==
  ASSUME StartupInv, Start \/ Reconcile \/ CheckSafeMode \/ BeginStartup PROVE Facts'
<1> USE Limits DEF StartupInv, Facts, Before, Loading, Held, keychain, file, screen, history
<1>1. CASE Start
  <2>1. Knows' /\ Quiet' /\ Decided' /\ Ran'
    BY <1>1 DEF Start, Knows, Quiet, Decided, Ran, TypeOK, Unsettled
  <2>2. Left' /\ Bans' /\ Timers'
    BY <1>1 DEF Start, Left, Bans, Timers, Unsettled
  <2>3. Requests'
    BY <1>1 DEF Start, Requests, Knows, TypeOK
  <2> QED
    BY <2>1, <2>2, <2>3
<1>2. CASE Reconcile
  <2>1. Knows' /\ Quiet' /\ Decided' /\ Ran'
    BY <1>2 DEF Reconcile, Knows, Quiet, Decided, Ran, Unsettled
  <2>2. Left' /\ Bans' /\ Timers' /\ Requests'
    BY <1>2 DEF Reconcile, Left, Bans, Timers, Requests, Unsettled
  <2> QED
    BY <2>1, <2>2
<1>3. CASE CheckSafeMode
  <2>1. Knows' /\ Quiet' /\ Decided' /\ Ran'
    BY <1>3 DEF CheckSafeMode, Knows, Quiet, Decided, Ran, Unsettled
  <2>2. Left' /\ Bans' /\ Timers'
    BY <1>3 DEF CheckSafeMode, Left, Bans, Timers, Unsettled
  <2>3. Requests'
    <3>1. promised # 0 => sentinel = "once" /\ promised < session
      BY <1>3 DEF CheckSafeMode, Requests, Knows, TypeOK
    <3>2. /\ requested' # "unknown" /\ (sentinel # "none" => requested' = "yes")
          /\ pc = "check" /\ pc' = "begin" /\ UNCHANGED <<promised, session, asking>>
      BY <1>3 DEF CheckSafeMode
    <3>3. ~asking
      BY <3>2 DEF Quiet
    <3> QED
      BY <3>1, <3>2, <3>3 DEF Requests, TypeOK
  <2> QED
    BY <2>1, <2>2, <2>3
<1>4. CASE BeginStartup
  <2>0. /\ snapshot = None /\ ran = {}
        /\ snapshot' = [safe |-> requested = "yes" \/ Recovery # None,
                        thirdParty |-> thirdParty /\ ~(requested = "yes" \/ Recovery # None),
                        recovery |-> Recovery, records |-> records]
        /\ owed' = (owed /\ ~(requested = "yes" \/ Recovery # None))
    BY <1>4 DEF BeginStartup, Knows, Ran
  <2>1. Recovery \in Build \cup {None}
    BY DEF Recovery, Unsettled, Launch, TypeOK
  <2>2. snapshot' # None
    <3>1. snapshot' \in Snapshot
      BY <1>4, <2>1 DEF BeginStartup, Snapshot, TypeOK
    <3> QED
      BY <3>1, NoneIsNoValue
  <2>3. /\ snapshot'.records = records /\ snapshot'.recovery = Recovery
        /\ snapshot'.safe <=> requested = "yes" \/ Recovery # None
    BY <2>0
  <2>4. ~owed' /\ culprit' = None
    BY <1>4, <2>0 DEF BeginStartup, Left, Recovery
  <2>5. Knows'
    BY <1>4, <2>2, <2>3 DEF BeginStartup, Knows, TypeOK
  <2>6. Quiet' /\ Ran'
    BY <1>4, <2>0 DEF BeginStartup, Quiet, Ran
  <2>7. Decided'
    BY <1>4, <2>2, <2>3 DEF BeginStartup, Decided, Knows
  <2>8. Left'
    BY <2>4 DEF Left
  <2>9. Requests' /\ Bans' /\ Timers'
    BY <1>4 DEF BeginStartup, Requests, Bans, Timers
  <2> QED
    BY <2>5, <2>6, <2>7, <2>8, <2>9
<1> QED
  BY <1>1, <1>2, <1>3, <1>4

\* A package is loaded after its attempt has been recorded, and only if its record lets it.
LEMMA LoadingKeeps ==
  ASSUME StartupInv,
         (\E p \in Plugins : Prepare(p) \/ Skip(p)) \/ Map \/ MapRefused \/ Activated
  PROVE  Facts'
<1> USE DEF StartupInv, Facts, Before, Loading, Held, keychain, file, screen, history
<1>1. ASSUME NEW p \in Plugins, Prepare(p) PROVE Facts'
  <2>1. /\ current' = [plugin |-> p, build |-> installed[p]]
        /\ launch' = [session |-> launch.session, settled |-> launch.settled, attempt |-> current']
        /\ Unsettled /\ pc = "load" /\ pc' = "armed" /\ Loadable(p)
        /\ UNCHANGED <<records, thirdParty, file, requested, snapshot, ran, session, screen, history>>
    BY <1>1 DEF Prepare
  <2>2. current' # None /\ launch' # None
    <3>1. current' \in Build
      BY <2>1 DEF TypeOK, Build
    <3>2. launch' \in Launch
      BY <2>1, <3>1 DEF TypeOK, Unsettled, Launch
    <3> QED
      BY <3>1, <3>2, NoneIsNoValue
  <2>3. Unsettled' /\ launch'.attempt = current' /\ current'.plugin = p
    BY <2>1, <2>2 DEF Unsettled
  <2>4. Knows' /\ Quiet' /\ Decided'
    BY <2>1, <2>2, <2>3 DEF Knows, Quiet, Decided
  <2>5. Ran'
    BY <2>1, <2>2, <2>3 DEF Ran, Loadable
  <2>6. Left'
    BY <2>1 DEF Left, Knows
  <2>7. Bans'
    BY <2>1, <2>3 DEF Bans, Loadable, Knows
  <2>8. Requests' /\ Timers'
    BY <2>1 DEF Requests, Timers
  <2> QED
    BY <2>4, <2>5, <2>6, <2>7, <2>8
<1>2. ASSUME NEW p \in Plugins, Skip(p) PROVE Facts'
  <2>1. UNCHANGED <<keychain, file, pc, requested, snapshot, current, ran, session, screen, history>>
    BY <1>2 DEF Skip
  <2>2. Knows' /\ Quiet' /\ Decided' /\ Ran'
    BY <2>1 DEF Knows, Quiet, Decided, Ran, Unsettled
  <2>3. Left' /\ Requests' /\ Bans' /\ Timers'
    BY <2>1 DEF Left, Requests, Bans, Timers, Unsettled
  <2> QED
    BY <2>2, <2>3
<1>3. CASE Map
  <2>1. /\ pc = "armed" /\ pc' = "activate" /\ ran' = ran \cup {current.plugin}
        /\ UNCHANGED <<keychain, file, requested, snapshot, current, session, screen, history>>
    BY <1>3 DEF Map
  <2>2. Knows' /\ Quiet' /\ Decided'
    BY <2>1 DEF Knows, Quiet, Decided, Unsettled
  <2>3. Ran'
    BY <2>1 DEF Ran, Knows, Unsettled
  <2>4. current.plugin \notin banned
    BY <2>1 DEF Bans
  <2>5. Bans'
    BY <2>1, <2>4 DEF Bans
  <2>6. Left' /\ Requests' /\ Timers'
    BY <2>1 DEF Left, Requests, Timers, Unsettled
  <2> QED
    BY <2>2, <2>3, <2>5, <2>6
<1>4. CASE MapRefused \/ Activated
  <2>1. /\ pc \in Held /\ pc' = "load"
        /\ UNCHANGED <<keychain, file, requested, snapshot, ran, session, screen, history>>
    BY <1>4 DEF MapRefused, Activated
  <2>2. Knows' /\ Quiet' /\ Decided' /\ Ran'
    BY <2>1 DEF Knows, Quiet, Decided, Ran, Unsettled
  <2>3. Left' /\ Requests' /\ Bans' /\ Timers'
    BY <2>1 DEF Left, Requests, Bans, Timers, Unsettled
  <2> QED
    BY <2>2, <2>3
<1> QED
  BY <1>1, <1>2, <1>3, <1>4

-----------------------------------------------------------------------------
(* Settlement.                                                             *)

\* A timer is armed only after the launch has opened, and the new one is whole.
LEMMA ArmKeeps ==
  ASSUME TypeOK, Timers, Arm
  PROVE  /\ Timers'
         /\ snapshot = None => timers' = timers
<1>1. generation \in Nat /\ \A t \in timers : t.generation \in Nat
  BY DEF TypeOK, Timer
<1> QED
  BY <1>1 DEF Arm, Timers

LEMMA CompleteKeeps == ASSUME StartupInv, Complete PROVE Facts'
<1> USE DEF StartupInv, Facts, Before, Loading, Held, keychain, file, history
<1>1. /\ pc # "complete" /\ pc # "down" /\ pc' = "complete"
      /\ UNCHANGED <<keychain, file, requested, snapshot, ran, session, settling, asking, history>>
  BY DEF Complete
<1>2. Timers' /\ (snapshot = None => timers' = timers)
  BY ArmKeeps DEF Complete, Timers
<1>3. Knows' /\ Quiet' /\ Decided' /\ Ran'
  BY <1>1, <1>2 DEF Knows, Quiet, Decided, Ran, Unsettled
<1>4. Left' /\ Requests' /\ Bans'
  BY <1>1 DEF Left, Requests, Bans, Unsettled
<1> QED
  BY <1>2, <1>3, <1>4

LEMMA SettlementKeeps == ASSUME StartupInv, Settlement PROVE Facts'
<1> USE DEF StartupInv, Facts, Before, Loading, Held, keychain, file, worker, history
<1>1. ASSUME UNCHANGED <<keychain, file, worker, session, asking, history>>, Quiet', Timers'
      PROVE  Facts'
  <2>1. Knows' /\ Decided' /\ Ran'
    BY <1>1 DEF Knows, Decided, Ran, Unsettled
  <2>2. Left' /\ Requests' /\ Bans'
    BY <1>1 DEF Left, Requests, Bans, Unsettled
  <2> QED
    BY <1>1, <2>1, <2>2
<1>2. CASE BecomeActive
  <2>1. UNCHANGED <<keychain, file, worker, session, settling, asking, history>>
    BY <1>2 DEF BecomeActive
  <2>2. Timers' /\ (snapshot = None => timers' = timers)
    BY <1>2, ArmKeeps DEF BecomeActive, Timers
  <2>3. pc # "complete" => timers' = timers
    BY <1>2 DEF BecomeActive
  <2>4. Quiet'
    BY <2>1, <2>2, <2>3 DEF Quiet
  <2> QED
    BY <1>1, <2>1, <2>2, <2>4
<1>3. CASE LeaveActive
  <2>1. UNCHANGED <<keychain, file, worker, session, settling, asking, history>>
    BY <1>3 DEF LeaveActive
  <2>2. generation \in Nat /\ \A t \in timers : t.generation \in Nat
    BY DEF TypeOK, Timer
  <2>3. Timers'
    BY <1>3, <2>2 DEF LeaveActive, Timers
  <2>4. timers = {} => timers' = {}
    BY <1>3 DEF LeaveActive
  <2>5. Quiet'
    BY <2>1, <2>4 DEF Quiet
  <2> QED
    BY <1>1, <2>1, <2>3, <2>5
<1>4. ASSUME NEW t \in timers, GraceElapses(t) PROVE Facts'
  <2>1. /\ UNCHANGED <<keychain, file, worker, session, generation, asking, history>>
        /\ timers' = timers \ {t}
    BY <1>4 DEF GraceElapses
  <2>2. Quiet' /\ Timers'
    BY <1>4, <2>1 DEF Quiet, Timers
  <2> QED
    BY <1>1, <2>1, <2>2
<1>5. CASE Settle
  <2>1. /\ launch # None /\ launch' = [session |-> launch.session, settled |-> TRUE,
                                       attempt |-> launch.attempt]
        /\ UNCHANGED <<records, thirdParty, file, worker, session, timers, generation, asking, history>>
        /\ settling = "queued" /\ settling' = "stored"
    BY <1>5 DEF Settle
  <2>2. pc = "complete" /\ snapshot # None
    BY <2>1 DEF Quiet
  <2>3. ~Unsettled'
    BY <2>1 DEF Unsettled
  <2>4. Knows' /\ Quiet' /\ Decided' /\ Ran'
    BY <2>1, <2>2, <2>3 DEF Knows, Quiet, Decided, Ran
  <2>5. Left' /\ Requests' /\ Bans' /\ Timers'
    BY <2>1, <2>2 DEF Left, Requests, Bans, Timers
  <2> QED
    BY <2>4, <2>5
<1>6. CASE SettleFails \/ Settled
  <2>1. /\ UNCHANGED <<keychain, file, worker, session, timers, generation, asking, history>>
        /\ settling # "no"
    BY <1>6 DEF SettleFails, Settled
  <2>2. Quiet' /\ Timers'
    BY <2>1 DEF Quiet, Timers
  <2> QED
    BY <1>1, <2>1, <2>2
<1> QED
  BY <1>2, <1>3, <1>4, <1>5, <1>6 DEF Settlement

-----------------------------------------------------------------------------
(* The user.                                                               *)

\* A record replaced by one that is disabled, or by any when its plug-in is no longer banned.
LEMMA PutKeeps ==
  ASSUME StartupInv, NEW p \in Plugins, NEW r \in Record \cup {None}, PutRecord(p, r),
         pc \in {"complete", "down"},
         UNCHANGED <<launch, worker, session, file, screen, owed, culprit, promised>>,
         banned' \subseteq banned \cup {p}, banned' \cap ran = {},
         p \in banned' => r # None /\ ~r.enabled
  PROVE  Facts'
<1> USE DEF StartupInv, Facts, Before, Loading, Held, worker, file, screen
<1>1. records'[p] = r /\ \A q \in Plugins \ {p} : records'[q] = records[q]
  BY DEF PutRecord, TypeOK
<1>2. banned \subseteq Plugins
  BY DEF TypeOK
<1>3. \A q \in banned' : records'[q] # None /\ ~records'[q].enabled
  BY <1>1, <1>2 DEF Bans
<1>4. Bans'
  BY <1>3 DEF Bans
<1>5. Knows' /\ Quiet' /\ Decided' /\ Ran'
  BY DEF Knows, Quiet, Decided, Ran, Unsettled
<1>6. Left' /\ Requests' /\ Timers'
  BY DEF Left, Requests, Timers, Unsettled
<1> QED
  BY <1>4, <1>5, <1>6

LEMMA RecordsKeep ==
  ASSUME StartupInv,
         \/ \E p \in Plugins, enabled \in BOOLEAN : SetEnabled(p, enabled) \/ SetDiscovered(p, enabled)
         \/ DisableRecovered
         \/ \E p \in Plugins, b \in Builds : Update(p, b)
  PROVE  Facts'
<1> USE DEF StartupInv, Facts, file, worker, screen, history
<1>0. banned \subseteq Plugins /\ banned \cap ran = {}
  BY DEF TypeOK, Bans
<1>1. ASSUME NEW p \in Plugins, NEW enabled \in BOOLEAN, NEW b \in Builds,
             PutRecord(p, [build |-> b, enabled |-> enabled]), Freed(p, enabled), Idle,
             UNCHANGED <<launch, worker, session, file, screen, owed, culprit, promised>>
      PROVE  Facts'
  <2>1. [build |-> b, enabled |-> enabled] \in Record
    BY DEF Record
  <2>2. [build |-> b, enabled |-> enabled] # None
    BY <2>1, NoneIsNoValue
  <2>3. banned' \subseteq banned /\ (p \in banned' => ~enabled)
    BY <1>1 DEF Freed
  <2>4. banned' \cap ran = {}
    BY <1>0, <2>3
  <2> QED
    BY <1>1, <2>1, <2>2, <2>3, <2>4, PutKeeps DEF Idle
<1>2. ASSUME NEW p \in Plugins, NEW enabled \in BOOLEAN, SetEnabled(p, enabled) PROVE Facts'
  <2>1. records[p].build \in Builds
    BY <1>2 DEF SetEnabled, TypeOK, Record
  <2> QED
    BY <1>1, <1>2, <2>1 DEF SetEnabled
<1>3. ASSUME NEW p \in Plugins, NEW enabled \in BOOLEAN, SetDiscovered(p, enabled) PROVE Facts'
  <2>1. installed[p] \in Builds
    BY DEF TypeOK
  <2>2. CASE enabled /\ p \in Official
    <3>1. banned' = banned \ {p} /\ PutRecord(p, None)
      BY <1>3, <2>2 DEF SetDiscovered, Freed
    <3>2. banned' \cap ran = {} /\ p \notin banned' /\ banned' \subseteq banned
      BY <1>0, <3>1
    <3> QED
      BY <1>3, <3>1, <3>2, PutKeeps DEF SetDiscovered, Idle
  <2>3. CASE ~(enabled /\ p \in Official)
    BY <1>1, <1>3, <2>1, <2>3 DEF SetDiscovered
  <2> QED
    BY <2>2, <2>3
<1>4. CASE DisableRecovered
  <2> DEFINE p == snapshot.recovery.plugin
             r == [build |-> snapshot.recovery.build, enabled |-> FALSE]
  <2>1. snapshot # None /\ snapshot.recovery # None /\ PutRecord(p, r) /\ banned' = banned \cup {p}
    BY <1>4 DEF DisableRecovered
  <2>2. snapshot.recovery \in Build
    BY <2>1 DEF TypeOK, Snapshot
  <2>3. p \in Plugins /\ r \in Record
    BY <2>2 DEF Build, Record
  <2>4. r # None /\ ~r.enabled
    BY <2>3, NoneIsNoValue
  <2>5. ran = {}
    BY <2>1 DEF Decided, Ran
  <2>6. UNCHANGED <<launch, worker, session, file, screen, owed, culprit, promised>>
    BY <1>4 DEF DisableRecovered
  <2> HIDE DEF p, r
  <2>7. banned' \subseteq banned \cup {p} /\ banned' \cap ran = {}
    BY <2>1, <2>5
  <2> QED
    BY <1>4, <2>1, <2>3, <2>4, <2>6, <2>7, PutKeeps DEF DisableRecovered, Idle
<1>5. ASSUME NEW p \in Plugins, NEW b \in Builds, Update(p, b) PROVE Facts'
  <2>1. CASE pc = "down" /\ UNCHANGED records
    <3>1. UNCHANGED <<launch, records, file, worker, session, screen, history>>
      BY <1>5, <2>1 DEF Update
    <3>2. Knows' /\ Quiet' /\ Decided' /\ Ran'
      BY <3>1 DEF Knows, Quiet, Decided, Ran, Unsettled
    <3>3. Left' /\ Requests' /\ Bans' /\ Timers'
      BY <3>1 DEF Left, Requests, Bans, Timers, Unsettled
    <3> QED
      BY <3>2, <3>3
  <2>2. CASE ~(pc = "down" /\ UNCHANGED records)
    <3> DEFINE r == [build |-> b, enabled |-> records[p].enabled]
    <3>1. Idle /\ records[p] # None /\ PutRecord(p, r)
      BY <1>5, <2>2 DEF Update
    <3>2. r \in Record
      BY <3>1 DEF TypeOK, Record
    <3>3. r # None /\ (p \in banned => ~r.enabled)
      BY <3>2, NoneIsNoValue DEF Bans
    <3>4. UNCHANGED <<launch, worker, session, file, screen, history>>
      BY <1>5 DEF Update
    <3> HIDE DEF r
    <3> QED
      BY <1>0, <3>1, <3>2, <3>3, <3>4, PutKeeps DEF Idle
  <2> QED
    BY <2>1, <2>2
<1> QED
  BY <1>2, <1>3, <1>4, <1>5

\* The request is written with nothing in between, and promised once it is on the disk.
LEMMA AskingKeeps ==
  ASSUME StartupInv,
         AskCreate \/ AskStored \/ AskFails \/ \E enabled \in BOOLEAN : SetThirdParty(enabled)
  PROVE  Facts'
<1> USE DEF StartupInv, Facts, Before, Loading, Held, keychain, file, worker, screen, history
<1>1. ASSUME UNCHANGED <<launch, records, worker, session, generation, timers, settling, owed, culprit, banned>>,
             Requests', asking' => pc = "complete"
      PROVE  Facts'
  <2>1. Knows' /\ Quiet' /\ Decided' /\ Ran'
    BY <1>1 DEF Knows, Quiet, Decided, Ran, Unsettled
  <2>2. Left' /\ Bans' /\ Timers'
    BY <1>1 DEF Left, Bans, Timers, Unsettled
  <2> QED
    BY <1>1, <2>1, <2>2
<1>2. CASE AskCreate
  <2>1. /\ UNCHANGED <<launch, records, worker, session, generation, timers, settling, owed, culprit, banned>>
        /\ pc = "complete" /\ sentinel = "none" /\ sentinel' = "torn"
        /\ UNCHANGED <<promised, sentinelDisk>>
    BY <1>2 DEF AskCreate, Idle
  <2>2. Requests'
    BY <2>1 DEF Requests
  <2> QED
    BY <1>1, <2>1, <2>2
<1>3. CASE AskStored
  <2>1. /\ UNCHANGED <<launch, records, worker, session, generation, timers, settling, owed, culprit, banned>>
        /\ sentinel' = "once" /\ sentinelDisk' = "once" /\ promised' = session /\ asking /\ ~asking'
    BY <1>3 DEF AskStored
  <2>2. pc = "complete"
    BY <2>1 DEF Quiet
  <2>3. Requests'
    BY <2>1, <2>2 DEF Requests, TypeOK
  <2> QED
    BY <1>1, <2>1, <2>2, <2>3
<1>4. CASE AskFails
  <2>1. /\ UNCHANGED <<launch, records, worker, session, generation, timers, settling, owed, culprit, banned>>
        /\ sentinel' = "none" /\ UNCHANGED <<promised, sentinelDisk>> /\ asking /\ ~asking'
    BY <1>4 DEF AskFails
  <2>2. Requests'
    BY <2>1 DEF Requests
  <2> QED
    BY <1>1, <2>1, <2>2
<1>5. ASSUME NEW enabled \in BOOLEAN, SetThirdParty(enabled) PROVE Facts'
  <2>1. UNCHANGED <<launch, records, worker, session, generation, timers, settling, owed, culprit, banned,
                    file, promised, asking>>
    BY <1>5 DEF SetThirdParty
  <2>2. Requests' /\ (asking' => pc = "complete")
    BY <2>1 DEF Requests, Quiet
  <2> QED
    BY <1>1, <2>1, <2>2
<1> QED
  BY <1>2, <1>3, <1>4, <1>5

-----------------------------------------------------------------------------
(* Deaths.                                                                 *)

LEMMA StopKeeps ==
  ASSUME StartupInv, Stop, pc # "down", session <= MaxDeaths, sentinelDisk' = sentinelDisk,
         sentinel' \in {sentinel, sentinelDisk}
  PROVE  Facts'
<1> USE DEF StartupInv, Facts, Before, Loading, Held, keychain
<1>1. /\ pc' = "down" /\ requested' = "unknown" /\ snapshot' = None /\ ran' = {}
      /\ timers' = {} /\ settling' = "no" /\ ~asking'
      /\ promised' = Spent(promised)
      /\ UNCHANGED <<launch, records, session, banned>>
  BY DEF Stop
<1>2. Knows' /\ Quiet' /\ Decided' /\ Ran' /\ Timers' /\ Bans'
  BY <1>1 DEF Knows, Quiet, Decided, Ran, Timers, Bans
<1>3. owed' => Unsettled /\ launch.attempt # None
  BY DEF Stop, Left, Ran
<1>4. culprit' # None => Unsettled /\ launch.attempt = culprit'
  BY DEF Stop, Left, Knows
<1>5. Left'
  BY <1>1, <1>3, <1>4 DEF Left, Unsettled
<1>6. Requests'
  BY <1>1 DEF Requests, Spent, TypeOK
<1> QED
  BY <1>2, <1>5, <1>6

LEMMA DeathsKeep == ASSUME StartupInv, Die \/ PowerLoss \/ WriteBack PROVE Facts'
<1> USE DEF StartupInv, Facts, Before, Loading, Held, keychain, file, worker, screen, history
<1>1. CASE Die \/ PowerLoss
  BY <1>1, StopKeeps DEF Die, PowerLoss
<1>2. CASE WriteBack
  <2>1. UNCHANGED <<keychain, sentinel, worker, session, screen, history>> /\ sentinelDisk' = sentinel
    BY <1>2 DEF WriteBack
  <2>2. Knows' /\ Quiet' /\ Decided' /\ Ran'
    BY <2>1 DEF Knows, Quiet, Decided, Ran, Unsettled
  <2>3. Left' /\ Requests' /\ Bans' /\ Timers'
    BY <2>1 DEF Left, Requests, Bans, Timers, Unsettled
  <2> QED
    BY <2>2, <2>3
<1> QED
  BY <1>1, <1>2

-----------------------------------------------------------------------------
(* The theorems.                                                           *)

LEMMA StartupInit == Init => StartupInv
BY TypeInit, FactsInit DEF StartupInv

LEMMA StartupStep == StartupInv /\ [Next]_vars => StartupInv'
<1> SUFFICES ASSUME StartupInv, [Next]_vars PROVE StartupInv'
  OBVIOUS
<1>1. CASE Start \/ Startup
  BY <1>1, StartupType, OpeningKeeps, LoadingKeeps, CompleteKeeps DEF StartupInv, Startup
<1>2. CASE Settlement
  BY <1>2, SettlementType, SettlementKeeps DEF StartupInv
<1>3. CASE Choices
  BY <1>3, ChoicesType, RecordsKeep, AskingKeeps DEF StartupInv, Choices
<1>4. CASE Die \/ PowerLoss \/ WriteBack
  BY <1>4, DeathsType, DeathsKeep DEF StartupInv
<1>5. CASE UNCHANGED vars
  <2> USE DEF vars, keychain, file, worker, screen, history
  <2>1. TypeOK'
    BY <1>5 DEF StartupInv, TypeOK
  <2>2. Knows' /\ Quiet' /\ Decided' /\ Ran'
    BY <1>5 DEF StartupInv, Facts, Knows, Quiet, Decided, Ran, Unsettled
  <2>3. Left' /\ Requests' /\ Bans' /\ Timers'
    BY <1>5 DEF StartupInv, Facts, Left, Requests, Bans, Timers, Unsettled
  <2> QED
    BY <2>1, <2>2, <2>3 DEF StartupInv, Facts
<1> QED
  BY <1>1, <1>2, <1>3, <1>4, <1>5 DEF Next

\* The parts of the invariant hold throughout, for any plug-ins, builds and bounds.
THEOREM StartupInvariance == Spec => []StartupInv
BY StartupInit, StartupStep, PTL DEF Spec

\* The launch marker, the records and the request file keep the shapes their stores decode, and
\* so does all the platform keeps in memory.
THEOREM StartupTypeOK == Spec => []TypeOK
<1>1. StartupInv => TypeOK
  BY DEF StartupInv
<1> QED
  BY <1>1, StartupInvariance, PTL

\* After a death with native code in an unsettled launch, none runs again before
\* beginStartupSession: has opened a launch in safe mode, whatever fails or dies in between.
THEOREM CrashThenSafeHolds == Spec => []CrashThenSafe
<1>1. StartupInv => CrashThenSafe
  BY DEF StartupInv, Facts, Left, Ran, CrashThenSafe
<1> QED
  BY <1>1, StartupInvariance, PTL

\* A request that requestOneShot: has stored keeps native code out of the next process in which
\* safeModeWasRequested looks for it, and out of those that died before.
THEOREM RequestHonouredHolds == Spec => []RequestHonoured
<1>1. StartupInv => RequestHonoured
  <2> SUFFICES ASSUME StartupInv, promised # 0, promised < session, ran # {} PROVE FALSE
    BY DEF RequestHonoured
  <2>1. snapshot # None /\ ~snapshot.safe
    BY DEF StartupInv, Facts, Ran
  <2>2. requested = "yes"
    BY <2>1 DEF StartupInv, Facts, Decided, Requests
  <2> QED
    BY <2>1, <2>2 DEF StartupInv, Facts, Decided
<1> QED
  BY <1>1, StartupInvariance, PTL

\* What disablePluginFromRecovery: has disabled does not run until the user enables it.
THEOREM BannedStaysOutHolds == Spec => []BannedStaysOut
<1>1. StartupInv => BannedStaysOut
  BY DEF StartupInv, Facts, Bans, BannedStaysOut
<1> QED
  BY <1>1, StartupInvariance, PTL

\* The launch that opens after a death in the code of a build names that build.
THEOREM BlamesCulpritHolds == Spec => BlamesCulprit
<1> DEFINE A == culprit # None /\ culprit' = None => snapshot'.recovery = culprit
<1>1. StartupInv /\ [Next]_vars => A
  <2> SUFFICES ASSUME StartupInv, [Next]_vars, culprit # None, culprit' = None
               PROVE  snapshot'.recovery = culprit
    OBVIOUS
  <2> USE DEF keychain, file, worker, screen, history
  <2>1. snapshot = None /\ Unsettled /\ launch.attempt = culprit
    BY DEF StartupInv, Facts, Left
  <2>2. pc # "activate"
    BY <2>1 DEF StartupInv, Facts, Knows, Loading
  <2>3. ~Stop
    BY <2>2 DEF Stop
  <2>4. BeginStartup
    <3>1. Start \/ Startup => BeginStartup
      BY DEF Start, Startup, Reconcile, CheckSafeMode, Prepare, Skip, Map, MapRefused, Activated, Complete
    <3>2. ~Settlement
      BY DEF Settlement, BecomeActive, LeaveActive, GraceElapses, Settle, SettleFails, Settled
    <3>3. ~Choices
      BY DEF Choices, SetEnabled, SetDiscovered, SetThirdParty, DisableRecovered, Update, AskCreate,
             AskStored, AskFails
    <3>4. ~Die /\ ~PowerLoss /\ ~WriteBack /\ ~UNCHANGED vars
      BY <2>3 DEF Die, PowerLoss, WriteBack, vars
    <3> QED
      BY <3>1, <3>2, <3>3, <3>4 DEF Next
  <2>5. snapshot'.recovery = Recovery
    BY <2>4 DEF BeginStartup
  <2> QED
    BY <2>1, <2>5 DEF Recovery
<1>2. A \/ UNCHANGED vars => [A]_vars
  OBVIOUS
<1> QED
  BY <1>1, <1>2, StartupInvariance, PTL DEF Spec, BlamesCulprit

\* The launch is settled by a timer under which the app was not left (activeSettlementGeneration).
THEOREM SettledAfterGraceHolds == Spec => SettledAfterGrace
<1> DEFINE A == settling # "queued" /\ settling' = "queued" => \E t \in timers \ timers' : t.whole
<1>1. StartupInv /\ [Next]_vars => A
  <2> SUFFICES ASSUME StartupInv, [Next]_vars, settling # "queued", settling' = "queued"
               PROVE  \E t \in timers \ timers' : t.whole
    OBVIOUS
  <2> USE DEF keychain, file, worker, screen, history
  <2>1. PICK t \in timers : GraceElapses(t)
    <3>1. ~Start /\ ~Startup
      BY DEF Start, Startup, Reconcile, CheckSafeMode, BeginStartup, Prepare, Skip, Map, MapRefused,
             Activated, Complete
    <3>2. ~BecomeActive /\ ~LeaveActive /\ ~Settle /\ ~SettleFails /\ ~Settled
      BY DEF BecomeActive, LeaveActive, Settle, SettleFails, Settled
    <3>3. ~Choices
      BY DEF Choices, SetEnabled, SetDiscovered, SetThirdParty, DisableRecovered, Update, AskCreate,
             AskStored, AskFails
    <3>4. ~Die /\ ~PowerLoss /\ ~WriteBack /\ ~UNCHANGED vars
      BY DEF Die, PowerLoss, Stop, WriteBack, vars
    <3> QED
      BY <3>1, <3>2, <3>3, <3>4 DEF Next, Settlement
  <2>2. t.generation = generation /\ timers' = timers \ {t}
    BY <2>1 DEF GraceElapses
  <2>3. t.whole
    BY <2>2 DEF StartupInv, Facts, Timers, TypeOK
  <2> QED
    BY <2>2, <2>3
<1>2. A \/ UNCHANGED vars => [A]_vars
  OBVIOUS
<1> QED
  BY <1>1, <1>2, StartupInvariance, PTL DEF Spec, SettledAfterGrace
=============================================================================
