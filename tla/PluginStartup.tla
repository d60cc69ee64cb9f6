---------------------------- MODULE PluginStartup ----------------------------
(***************************************************************************)
(* Startup of the plug-in host: BTPluginPlatform loads external native     *)
(* code at every launch, BTPluginKeychainActivationStore keeps the launch  *)
(* marker that detects a crash loop, BTPluginSafeModeRequest the one-shot  *)
(* safe-mode file.                                                         *)
(*                                                                         *)
(* A serial worker (startupQueue) reconciles, decides on safe mode, opens  *)
(* the launch and prepares the discovered packages one by one; each one is *)
(* mapped on the main thread while the worker waits.  Once all are done    *)
(* and the app has stayed active for a grace period the launch is settled. *)
(* The process may die between any two steps.                              *)
(*                                                                         *)
(* What reconciliation does is the subject of PluginAppData; here it       *)
(* succeeds or fails.                                                      *)
(***************************************************************************)
EXTENDS Naturals, FiniteSets

CONSTANTS
  Plugins,      \* plug-ins found under the discovery roots
  Official,     \* those in the app bundle under an official signature
  Builds,       \* package digests
  MaxRecords,   \* BTPluginActivationMaximumRecords
  MaxDeaths,    \* bound on process deaths
  MaxFaults,    \* bound on Keychain, file and verification failures
  MaxSwitches,  \* bound on how often the user leaves the app, per process
  None

ASSUME OfficialAssumption == Official \subseteq Plugins
ASSUME LimitAssumption ==
  {MaxRecords, MaxDeaths, MaxFaults, MaxSwitches} \subseteq Nat

VARIABLES
  launch,       \* the launch marker (Keychain), or None before the first
  records,      \* activation records (Keychain)
  thirdParty,   \* the global third-party switch (Keychain)
  sentinel,     \* the safe-mode file: "none", "once", or "torn" (any other content)
  sentinelDisk, \* what a power loss would leave of it
  installed,    \* the build each root holds
  pc,           \* where the startup worker is
  session,      \* the process; its startupIdentifier
  requested,    \* the answer of safeModeWasRequested in this process
  snapshot,     \* this process's BTPluginStartupSnapshot
  todo,         \* packages not yet prepared
  current,      \* the prepared package: plug-in and build
  ran,          \* plug-ins whose native code has run in this process
  active,       \* UIApplicationStateActive
  generation,   \* activeSettlementGeneration
  timers,       \* pending grace-period timers
  settling,     \* the settlement of this launch
  asking,       \* the main thread is writing the safe-mode file
  faults,
  switches,
  \* History, for the properties:
  owed,         \* a process died unsettled after running native code; no answer yet
  culprit,      \* the build whose code was running when a process died
  promised,     \* the process that wrote a one-shot request, while it is unspent
  banned        \* plug-ins disabled from a recovery and not enabled since

keychain == <<launch, records, thirdParty>>
file     == <<sentinel, sentinelDisk>>
worker   == <<pc, requested, snapshot, todo, current, ran>>
screen   == <<active, generation, timers, settling, asking, switches>>
history  == <<owed, culprit, promised, banned>>
vars == <<keychain, file, installed, worker, session, screen, faults, history>>

-----------------------------------------------------------------------------
Build == [plugin : Plugins, build : Builds]
Launch == [session : 1..(MaxDeaths + 1), settled : BOOLEAN, attempt : Build \cup {None}]
Record == [build : Builds, enabled : BOOLEAN]
Snapshot == [safe : BOOLEAN, thirdParty : BOOLEAN, recovery : Build \cup {None},
             records : [Plugins -> Record \cup {None}]]
Timer == [generation : Nat, whole : BOOLEAN]

ASSUME NoneIsNoValue == None \notin Build \cup Launch \cup Record \cup Snapshot

Unsettled == launch # None /\ ~launch.settled
Fault == faults < MaxFaults /\ faults' = faults + 1
Recorded == {p \in Plugins : records[p] # None}

Init ==
  /\ launch = None
  /\ records = [p \in Plugins |-> None]
  /\ thirdParty = FALSE
  /\ sentinel = "none" /\ sentinelDisk = "none"
  /\ installed \in [Plugins -> Builds]
  /\ pc = "down" /\ session = 0 /\ requested = "unknown" /\ snapshot = None
  /\ todo = {} /\ current = None /\ ran = {}
  /\ active = FALSE /\ generation = 0 /\ timers = {} /\ settling = "no" /\ asking = FALSE
  /\ faults = 0 /\ switches = 0
  /\ owed = FALSE /\ culprit = None /\ promised = 0 /\ banned = {}

-----------------------------------------------------------------------------
(* The startup worker.                                                     *)

Start ==
  /\ pc = "down"
  /\ pc' = "reconcile"
  /\ session' = session + 1
  /\ UNCHANGED <<keychain, file, installed, requested, snapshot, todo, current, ran, screen,
                 faults, history>>

Reconcile ==
  /\ pc = "reconcile"
  /\ pc' = "check"
  /\ UNCHANGED <<keychain, file, installed, requested, snapshot, todo, current, ran, session,
                 screen, faults, history>>

\* safeModeWasRequested: the launch argument, or any sentinel at all; the exact
\* marker is unlinked, which may fail.  An unverified trust policy also forces
\* safe mode, after the sentinel was consumed.
CheckSafeMode ==
  /\ pc = "check"
  /\ pc' = "begin"
  /\ \E argument, trustFailed \in BOOLEAN :
       /\ requested' = IF argument \/ trustFailed \/ sentinel # "none" THEN "yes" ELSE "no"
       /\ IF argument \/ sentinel # "once"
          THEN UNCHANGED <<sentinel, faults>>
          ELSE \/ sentinel' = "none" /\ UNCHANGED faults
               \/ Fault /\ UNCHANGED sentinel
  /\ UNCHANGED <<keychain, sentinelDisk, installed, snapshot, todo, current, ran, session,
                 screen, history>>

\* What the last launch leaves behind.
Recovery == IF Unsettled THEN launch.attempt ELSE None

BeginStartup ==
  /\ pc = "begin"
  /\ pc' = "load"
  /\ LET safe == requested = "yes" \/ Recovery # None IN
       /\ snapshot' = [safe |-> safe, thirdParty |-> thirdParty /\ ~safe,
                       recovery |-> Recovery, records |-> records]
       /\ owed' = (owed /\ ~safe)
  /\ launch' = [session |-> session, settled |-> FALSE, attempt |-> None]
  /\ todo' = Plugins
  /\ culprit' = None
  /\ UNCHANGED <<records, thirdParty, file, installed, requested, current, ran, session, screen,
                 faults, promised, banned>>

\* Deliberate fault: takes an official plug-in without looking at its record.
LoadableOfficial(p) ==
  LET record == snapshot.records[p] IN
  /\ ~snapshot.safe
  /\ p \notin Official => /\ snapshot.thirdParty
                          /\ record # None /\ record.enabled /\ record.build = installed[p]

\* prepareDiscoveredPackage: which packages pass the checks of this startup.
Loadable(p) ==
  LET record == snapshot.records[p] IN
  /\ ~snapshot.safe
  /\ record # None => record.enabled /\ record.build = installed[p]
  /\ p \notin Official => snapshot.thirdParty /\ record # None

\* Deliberate faults: no attempt is recorded; only the first one of a launch is.
PrepareUnrecorded(p) ==
  /\ pc = "load" /\ p \in todo /\ Loadable(p)
  /\ current' = [plugin |-> p, build |-> installed[p]]
  /\ todo' = todo \ {p}
  /\ pc' = "armed"
  /\ UNCHANGED <<keychain, file, installed, requested, snapshot, ran, session, screen, faults,
                 history>>
PrepareFirstOnly(p) ==
  /\ pc = "load" /\ p \in todo /\ Loadable(p)
  /\ current' = [plugin |-> p, build |-> installed[p]]
  /\ launch' = [session |-> launch.session, settled |-> launch.settled,
                attempt |-> IF launch.attempt = None THEN current' ELSE launch.attempt]
  /\ todo' = todo \ {p}
  /\ pc' = "armed"
  /\ UNCHANGED <<records, thirdParty, file, installed, requested, snapshot, ran, session, screen,
                 faults, history>>

\* It is verified and pinned, and the attempt recorded before anything is mapped.
Prepare(p) ==
  /\ pc = "load" /\ p \in todo /\ Loadable(p)
  /\ Unsettled /\ launch.session = session
  /\ launch' = [session |-> launch.session, settled |-> launch.settled,
                attempt |-> [plugin |-> p, build |-> installed[p]]]
  /\ current' = [plugin |-> p, build |-> installed[p]]
  /\ todo' = todo \ {p}
  /\ pc' = "armed"
  /\ UNCHANGED <<records, thirdParty, file, installed, requested, snapshot, ran, session, screen,
                 faults, history>>

Skip(p) ==
  /\ pc = "load" /\ p \in todo
  /\ IF Loadable(p) THEN Fault ELSE UNCHANGED faults
  /\ todo' = todo \ {p}
  /\ UNCHANGED <<keychain, file, installed, pc, requested, snapshot, current, ran, session,
                 screen, history>>

\* The main thread maps the image: its constructors and entry point run.
Map ==
  /\ pc = "armed" /\ ~asking
  /\ pc' = "activate"
  /\ ran' = ran \cup {current.plugin}
  /\ UNCHANGED <<keychain, file, installed, requested, snapshot, todo, current, session, screen,
                 faults, history>>

\* Its pinned copy no longer matches: nothing is mapped, the attempt stays recorded.
MapRefused ==
  /\ pc = "armed" /\ ~asking /\ Fault
  /\ pc' = "load"
  /\ current' = None
  /\ UNCHANGED <<keychain, file, installed, requested, snapshot, todo, ran, session, screen,
                 history>>

\* It registers or is rejected; either way the image stays mapped.
Activated ==
  /\ pc = "activate"
  /\ pc' = "load"
  /\ current' = None
  /\ UNCHANGED <<keychain, file, installed, requested, snapshot, todo, ran, session, screen,
                 faults, history>>

\* applicationDidBecomeActive: arms a grace timer unless there is nothing to settle.
Arm ==
  IF settling # "yes" /\ snapshot # None
  THEN /\ generation' = generation + 1
       /\ timers' = timers \cup {[generation |-> generation + 1, whole |-> TRUE]}
  ELSE UNCHANGED <<generation, timers>>

\* externalStartupComplete, after every package or after a failure that ended startup.
Complete ==
  /\ \/ pc = "load" /\ todo = {} /\ UNCHANGED faults
     \/ pc \in {"reconcile", "begin"} /\ Fault
  /\ pc' = "complete"
  /\ IF active THEN Arm ELSE UNCHANGED <<generation, timers>>
  /\ UNCHANGED <<keychain, file, installed, requested, snapshot, todo, current, ran, session,
                 active, settling, asking, switches, history>>

-----------------------------------------------------------------------------
(* Settlement.                                                             *)

MainFree == pc \notin {"down", "activate"} /\ ~asking

BecomeActive ==
  /\ MainFree /\ ~active
  /\ active' = TRUE
  /\ IF pc = "complete" THEN Arm ELSE UNCHANGED <<generation, timers>>
  /\ UNCHANGED <<keychain, file, installed, worker, session, settling, asking, switches, faults,
                 history>>

LeaveActive ==
  /\ MainFree /\ active
  /\ switches < MaxSwitches /\ switches' = switches + 1
  /\ active' = FALSE
  /\ generation' = generation + 1
  /\ timers' = {[generation |-> t.generation, whole |-> FALSE] : t \in timers}
  /\ UNCHANGED <<keychain, file, installed, worker, session, settling, asking, faults, history>>

\* Deliberate fault: any timer will do while the app is active.
GraceElapsesAnyTimer(t) ==
  /\ MainFree /\ t \in timers
  /\ timers' = timers \ {t}
  /\ settling' = IF settling # "yes" /\ active THEN "queued" ELSE settling
  /\ UNCHANGED <<keychain, file, installed, worker, session, active, generation, asking, switches,
                 faults, history>>

\* Five seconds later: settle if the app was not left in between.
GraceElapses(t) ==
  /\ MainFree /\ t \in timers
  /\ timers' = timers \ {t}
  /\ settling' = IF settling # "yes" /\ t.generation = generation /\ active
                 THEN "queued" ELSE settling
  /\ UNCHANGED <<keychain, file, installed, worker, session, active, generation, asking, switches,
                 faults, history>>

\* markStartupSettled on the worker...
Settle ==
  /\ settling = "queued"
  /\ launch # None /\ launch.session = session
  /\ launch' = [session |-> launch.session, settled |-> TRUE, attempt |-> launch.attempt]
  /\ settling' = "stored"
  /\ UNCHANGED <<records, thirdParty, file, installed, worker, session, active, generation,
                 timers, asking, switches, faults, history>>

\* ... which may fail, and is then tried again when the app becomes active again ...
SettleFails ==
  /\ settling = "queued" /\ Fault
  /\ settling' = "no"
  /\ UNCHANGED <<keychain, file, installed, worker, session, active, generation, timers, asking,
                 switches, history>>

\* ... and reports back to the main thread.
Settled ==
  /\ settling = "stored" /\ MainFree
  /\ settling' = "yes"
  /\ UNCHANGED <<keychain, file, installed, worker, session, active, generation, timers, asking,
                 switches, faults, history>>

-----------------------------------------------------------------------------
(* The user, once startup is complete.                                     *)

Idle == pc = "complete" /\ ~asking
PutRecord(p, record) == records' = [records EXCEPT ![p] = record]
Freed(p, enabled) == banned' = IF enabled THEN banned \ {p} ELSE banned

\* setPluginIdentifier:enabled:
SetEnabled(p, enabled) ==
  /\ Idle /\ records[p] # None
  /\ PutRecord(p, [build |-> records[p].build, enabled |-> enabled])
  /\ Freed(p, enabled)
  /\ UNCHANGED <<launch, thirdParty, file, installed, worker, session, screen, faults,
                 owed, culprit, promised>>

\* setDiscoveredPackage:enabled: an official plug-in in the app bundle needs no record.
SetDiscovered(p, enabled) ==
  /\ Idle
  /\ IF enabled /\ p \in Official
     THEN PutRecord(p, None)
     ELSE /\ records[p] = None => Cardinality(Recorded) < MaxRecords
          /\ PutRecord(p, [build |-> installed[p], enabled |-> enabled])
  /\ Freed(p, enabled)
  /\ UNCHANGED <<launch, thirdParty, file, installed, worker, session, screen, faults,
                 owed, culprit, promised>>

SetThirdParty(enabled) ==
  /\ Idle
  /\ thirdParty' = enabled
  /\ UNCHANGED <<launch, records, file, installed, worker, session, screen, faults, history>>

\* disablePluginFromRecovery: exactly the build that was blamed, or an official one
\* that has no record yet.
DisableRecovered ==
  /\ Idle /\ snapshot # None /\ snapshot.recovery # None
  /\ LET p == snapshot.recovery.plugin  b == snapshot.recovery.build IN
       /\ records[p] # None => records[p].build = b
       /\ records[p] = None => p \in Official /\ Cardinality(Recorded) < MaxRecords
       /\ PutRecord(p, [build |-> b, enabled |-> FALSE])
       /\ banned' = banned \cup {p}
  /\ UNCHANGED <<launch, thirdParty, file, installed, worker, session, screen, faults,
                 owed, culprit, promised>>

\* An app-data update keeps the switch; a package manager or a new app leaves the record alone.
Update(p, b) ==
  /\ b # installed[p]
  /\ installed' = [installed EXCEPT ![p] = b]
  /\ \/ /\ Idle /\ p \notin Official
        /\ records[p] # None /\ records[p].build = installed[p]
        /\ PutRecord(p, [build |-> b, enabled |-> records[p].enabled])
     \/ pc = "down" /\ UNCHANGED records
  /\ UNCHANGED <<launch, thirdParty, file, worker, session, screen, faults, history>>

-----------------------------------------------------------------------------
(* requestOneShot: create exclusively, write, synchronize.  A file already *)
(* there is taken for a request, whatever is in it, and nothing changes.   *)

AskCreate ==
  /\ Idle /\ sentinel = "none"
  /\ sentinel' = "torn"
  /\ asking' = TRUE
  /\ UNCHANGED <<keychain, sentinelDisk, installed, worker, session, active, generation, timers,
                 settling, switches, faults, history>>

\* Deliberate fault: reports success without synchronizing the file.
AskStoredUnsynced ==
  /\ asking
  /\ sentinel' = "once"
  /\ asking' = FALSE
  /\ promised' = session
  /\ UNCHANGED <<keychain, sentinelDisk, installed, worker, session, active, generation, timers,
                 settling, switches, faults, owed, culprit, banned>>

AskStored ==
  /\ asking
  /\ sentinel' = "once" /\ sentinelDisk' = "once"
  /\ asking' = FALSE
  /\ promised' = session
  /\ UNCHANGED <<keychain, installed, worker, session, active, generation, timers, settling,
                 switches, faults, owed, culprit, banned>>

AskFails ==
  /\ asking /\ Fault
  /\ sentinel' = "none"
  /\ asking' = FALSE
  /\ UNCHANGED <<keychain, sentinelDisk, installed, worker, session, active, generation, timers,
                 settling, switches, history>>

-----------------------------------------------------------------------------
(* Deaths.                                                                 *)

\* A request is spent by a later process that has looked for it.
Spent(request) == IF requested # "unknown" /\ request < session THEN 0 ELSE request

Stop ==
  /\ pc' = "down" /\ requested' = "unknown" /\ snapshot' = None
  /\ todo' = {} /\ current' = None /\ ran' = {}
  /\ active' = FALSE /\ generation' = 0 /\ timers' = {} /\ settling' = "no" /\ asking' = FALSE
  /\ switches' = 0
  /\ owed' = (owed \/ (ran # {} /\ Unsettled))
  /\ culprit' = IF pc = "activate" THEN current ELSE culprit
  /\ promised' = Spent(promised)
  /\ UNCHANGED <<keychain, installed, session, faults, banned>>

Die ==
  /\ pc # "down" /\ session <= MaxDeaths
  /\ Stop
  /\ UNCHANGED file

\* Unsynchronized changes to the file are undone.
PowerLoss ==
  /\ pc # "down" /\ session <= MaxDeaths /\ sentinel # sentinelDisk
  /\ sentinel' = sentinelDisk
  /\ Stop
  /\ UNCHANGED sentinelDisk

WriteBack ==
  /\ sentinelDisk # sentinel
  /\ sentinelDisk' = sentinel
  /\ UNCHANGED <<keychain, sentinel, installed, worker, session, screen, faults, history>>

-----------------------------------------------------------------------------
Startup ==
  \/ Reconcile \/ CheckSafeMode \/ BeginStartup
  \/ \E p \in Plugins : Prepare(p) \/ Skip(p)
  \/ Map \/ MapRefused \/ Activated \/ Complete

Settlement ==
  \/ BecomeActive \/ LeaveActive
  \/ (\E t \in timers : GraceElapses(t)) \/ Settle \/ SettleFails \/ Settled

Choices ==
  \/ \E p \in Plugins, enabled \in BOOLEAN : SetEnabled(p, enabled) \/ SetDiscovered(p, enabled)
  \/ \E enabled \in BOOLEAN : SetThirdParty(enabled)
  \/ DisableRecovered
  \/ \E p \in Plugins, b \in Builds : Update(p, b)
  \/ AskCreate \/ AskStored \/ AskFails

Next == Start \/ Startup \/ Settlement \/ Choices \/ Die \/ PowerLoss \/ WriteBack

Spec == Init /\ [][Next]_vars

-----------------------------------------------------------------------------
(* Properties.                                                             *)

\* Every variable has the shape the stores decode.
TypeOK ==
  /\ launch \in Launch \cup {None}
  /\ records \in [Plugins -> Record \cup {None}]
  /\ thirdParty \in BOOLEAN
  /\ {sentinel, sentinelDisk} \subseteq {"none", "once", "torn"}
  /\ installed \in [Plugins -> Builds]
  /\ pc \in {"down", "reconcile", "check", "begin", "load", "armed", "activate", "complete"}
  /\ session \in 0..(MaxDeaths + 1)
  /\ requested \in {"unknown", "no", "yes"}
  /\ snapshot \in Snapshot \cup {None}
  /\ todo \subseteq Plugins
  /\ current \in Build \cup {None}
  /\ ran \subseteq Plugins
  /\ active \in BOOLEAN /\ asking \in BOOLEAN
  /\ generation \in Nat
  /\ timers \subseteq Timer
  /\ settling \in {"no", "queued", "stored", "yes"}
  /\ faults \in 0..MaxFaults /\ switches \in 0..MaxSwitches
  /\ owed \in BOOLEAN /\ culprit \in Build \cup {None}
  /\ promised \in 0..(MaxDeaths + 1)
  /\ banned \subseteq Plugins

\* After a process dies unsettled with native code in it, none runs again before a
\* launch in safe mode, however many launches fail or die in between.
CrashThenSafe == owed => ran = {}

\* If a process dies while the code of a build is being loaded, the next launch that
\* opens blames that build.
BlamesCulprit == [][culprit # None /\ culprit' = None => snapshot'.recovery = culprit]_vars

\* A one-shot request written by one process keeps native code out of the next
\* process that looks for it, and of those that died before looking.
RequestHonoured == promised # 0 /\ promised < session => ran = {}

\* The launch is settled only when the app was not left for a whole grace period
\* after startup completed.
SettledAfterGrace ==
  [][settling # "queued" /\ settling' = "queued" => \E t \in timers \ timers' : t.whole]_vars

\* A plug-in disabled from a recovery does not run until the user enables it again,
\* whatever is installed in its place.
BannedStaysOut == banned \cap ran = {}
=============================================================================
