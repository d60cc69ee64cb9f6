---------------------------- MODULE PluginAppData ----------------------------
(***************************************************************************)
(* The app-data install, update and removal transaction of the plug-in     *)
(* host: BTPluginManagementService drives BTPluginApplicationDataStore     *)
(* (the private directory of packages) and BTPluginKeychainActivationStore *)
(* (the activation records and the one transaction journal).               *)
(*                                                                         *)
(* Two threads act.  The main thread runs one user action at a time.  A    *)
(* worker (the startup queue or the snapshot queue) runs reconciliation.   *)
(* Install, removal and reconciliation hold the service's lock from their  *)
(* first to their last step, so one record, op, describes whoever holds    *)
(* it; the enable switches take no lock and interleave with the worker.    *)
(*                                                                         *)
(* The file system is kept twice: live is what system calls see, disk what *)
(* a power loss leaves.  Keychain writes are atomic and durable.           *)
(***************************************************************************)
EXTENDS Naturals, FiniteSets

CONSTANTS
  Plugins,      \* plug-in identifiers; each names one canonical directory
  Builds,       \* packages, named by their SHA-256
  Owner,        \* the plug-in identifier in a build's manifest
  Sequence,     \* the release sequence in a build's manifest
  Revocable,    \* builds a later app version may revoke
  Tokens,       \* transaction identifiers (UUIDs), reused once forgotten
  MaxRecords,   \* BTPluginActivationMaximumRecords
  MaxFaults,    \* bound on I/O errors, crashes and power losses together
  None,         \* absence: of a record, a journal, a directory
  Partial       \* a directory some of whose files are missing

ASSUME NoneAssumption    == None \notin Builds \cup {Partial} \cup Plugins \cup Tokens
ASSUME PartialAssumption == Partial \notin Builds
ASSUME OwnerAssumption   == Owner \in [Builds -> Plugins]
ASSUME SequenceAssumption == Sequence \in [Builds -> Nat]
ASSUME RevocableAssumption == Revocable \subseteq Builds
ASSUME BoundAssumption   == MaxRecords \in Nat /\ MaxFaults \in Nat

VARIABLES
  records,  \* the activation record of each plug-in (Keychain)
  journal,  \* the pending transaction, or None (Keychain)
  live,     \* the app-data directory as the running process sees it
  disk,     \* the app-data directory as a power loss would leave it
  phase,    \* "down", "launched", or "shown" once a snapshot was presented
  revoked,  \* builds the trust evaluator refuses outright
  op,       \* the operation that holds the service lock
  pick,     \* an enable switch between reading the bytes and storing a record
  faults    \* faults so far

vars == <<records, journal, live, disk, phase, revoked, op, pick, faults>>

-----------------------------------------------------------------------------
(* Data.                                                                   *)

Record == [digest : Builds, source : {"appData", "other"}, enabled : BOOLEAN]

Transaction ==
  [token    : Tokens,
   kind     : {"install", "update", "remove"},
   plugin   : Plugins,
   expected : Builds \cup {None},
   target   : Builds \cup {None},
   previous : Record \cup {None},
   next     : Record \cup {None}]

\* final is <identifier>.battman; hidden is .transaction-<token> for an install
\* or update and .removing-<token> for a removal.
Content == Builds \cup {None, Partial}
Tree == [final : [Plugins -> Content], hidden : [Tokens -> Content]]

JournalSteps ==  \* the steps of an operation that works on the journal
  {"recover", "drain", "drained", "publish", "publishSync", "sweep", "retire",
   "retireSync", "erase", "eraseSync", "settle", "finish", "abort"}
Steps == JournalSteps \cup
  {"idle", "pending", "discard", "check", "prepare", "begin", "undo"}

Operation ==
  [kind    : {"idle", "install", "remove", "reconcile"},
   build   : Builds \cup {None},        \* what the user selected
   pc      : Steps,
   txn     : Transaction \cup {None},   \* the transaction it is driving
   origin  : {"found", "begun"},        \* whether it began that transaction itself
   attempt : 0..2]                      \* 0 direct publish, 1 reconcile, 2 retry

Idle == [kind |-> "idle", build |-> None, pc |-> "idle", txn |-> None,
         origin |-> "found", attempt |-> 0]

Pick == [plugin : Plugins, digest : Builds, enabled : BOOLEAN]

ASSUME NoneIsNoRecord == None \notin Record \cup Transaction \cup Pick

\* verifyPackageAtURL succeeds: whole, signed and not revoked.
Verifies(content) == content \in Builds \ revoked

PutHidden(tree, t, c) ==
  [final |-> tree.final, hidden |-> [tree.hidden EXCEPT ![t] = c]]
PutBoth(tree, p, c, t, d) ==
  [final |-> [tree.final EXCEPT ![p] = c], hidden |-> [tree.hidden EXCEPT ![t] = d]]

RoomFor(p) ==
  records[p] = None => Cardinality({q \in Plugins : records[q] # None}) < MaxRecords

\* What an app-data record must say to agree with the installed bytes.
Agrees(record, content) ==
  record # None => record.source = "appData" /\ record.digest = content

Fault == faults < MaxFaults /\ faults' = faults + 1

\* The operation moves on to another step.
Advance(step, txn, origin, attempt) ==
  op' = [kind |-> op.kind, build |-> op.build, pc |-> step, txn |-> txn,
         origin |-> origin, attempt |-> attempt]
Goto(step) == Advance(step, op.txn, op.origin, op.attempt)

Init ==
  /\ records = [p \in Plugins |-> None]
  /\ journal = None
  /\ live = [final |-> [p \in Plugins |-> None], hidden |-> [t \in Tokens |-> None]]
  /\ disk = live
  /\ phase = "down"
  /\ revoked = {}
  /\ op = Idle
  /\ pick = None
  /\ faults = 0

-----------------------------------------------------------------------------
(* Starting an operation.  The user acts on a snapshot, so only once one   *)
(* was shown; the main thread is busy while it holds a selection.          *)

Start(kind, build) ==
  /\ op = Idle
  /\ op' = [kind |-> kind, build |-> build, pc |-> "pending", txn |-> None,
            origin |-> "found", attempt |-> 0]
  /\ UNCHANGED <<records, journal, live, disk, phase, revoked, pick, faults>>

StartInstall(b) == phase = "shown" /\ pick = None /\ Verifies(b) /\ Start("install", b)
StartRemove(b) == phase = "shown" /\ pick = None /\ Start("remove", b)
StartReconcile == phase # "down" /\ Start("reconcile", None)

-----------------------------------------------------------------------------
(* Reconciliation, the first act of every operation.                       *)

PendingNone ==
  /\ op.pc = "pending" /\ journal = None
  /\ Goto("discard")
  /\ UNCHANGED <<records, journal, live, disk, phase, revoked, pick, faults>>

PendingFound ==
  /\ op.pc = "pending" /\ journal # None
  /\ Advance(IF journal.kind = "remove" THEN "retire" ELSE "recover", journal, "found", 1)
  /\ UNCHANGED <<records, journal, live, disk, phase, revoked, pick, faults>>

\* Where reconcileApplicationDataTransaction finds the canonical and hidden trees.
Canonical == live.final[op.txn.plugin]
Hidden == live.hidden[op.txn.token]
Committed == Verifies(Canonical) /\ Canonical = op.txn.target
Abandonable ==
  \/ Verifies(Canonical) /\ Canonical = op.txn.expected
  \/ op.txn.kind = "install" /\ Canonical = None

\* Deliberate fault: believes an earlier rename without synchronizing it.
RecoverCommittedUnsynced ==
  /\ op.pc = "recover" /\ Committed
  /\ Goto(IF Hidden = None THEN "finish" ELSE "drain")
  /\ UNCHANGED <<records, journal, live, disk, phase, revoked, pick, faults>>

RecoverCommitted ==
  /\ op.pc = "recover" /\ Committed
  /\ disk' = live
  /\ Goto(IF Hidden = None THEN "finish" ELSE "drain")
  /\ UNCHANGED <<records, journal, live, phase, revoked, pick, faults>>

\* The displaced tree is unlinked file by file, then its parent is synchronized.
DrainStaging ==
  /\ op.pc = "drain"
  /\ \E c \in {Partial, None} :
       /\ c # Hidden
       /\ live' = PutHidden(live, op.txn.token, c)
       /\ Goto(IF c = None THEN "drained" ELSE "drain")
  /\ UNCHANGED <<records, journal, disk, phase, revoked, pick, faults>>

DrainSync ==
  /\ op.pc = "drained"
  /\ disk' = live
  /\ Goto("finish")
  /\ UNCHANGED <<records, journal, live, phase, revoked, pick, faults>>

RecoverPublish ==
  /\ op.pc = "recover" /\ ~Committed
  /\ Hidden = op.txn.target /\ Verifies(Hidden)
  /\ Goto("publish")
  /\ UNCHANGED <<records, journal, live, disk, phase, revoked, pick, faults>>

RecoverAbandon ==
  /\ op.pc = "recover" /\ ~Committed
  /\ Hidden = None /\ Abandonable
  /\ Goto("abort")
  /\ UNCHANGED <<records, journal, live, disk, phase, revoked, pick, faults>>

\* "cannot be reconciled without guessing" and "unexpected staged bytes".
RecoverRefuses ==
  /\ op.pc = "recover" /\ ~Committed
  /\ IF Hidden = None THEN ~Abandonable ELSE ~(Hidden = op.txn.target /\ Verifies(Hidden))
  /\ op' = Idle
  /\ UNCHANGED <<records, journal, live, disk, phase, revoked, pick, faults>>

-----------------------------------------------------------------------------
(* publishPreparedApplicationDataTransaction for an install or an update.  *)

Publishable ==
  /\ Canonical # None => Verifies(Canonical)
  /\ Canonical \in {None, op.txn.expected, op.txn.target}
  /\ Canonical # op.txn.target => Hidden = op.txn.target /\ Verifies(Hidden)

PublishAlready ==
  /\ op.pc = "publish" /\ Publishable
  /\ Canonical = op.txn.target
  /\ Goto("sweep")
  /\ UNCHANGED <<records, journal, live, disk, phase, revoked, pick, faults>>

\* Deliberate fault: removes the installed build before it moves the new one in.
PublishRemoveThenRename ==
  /\ op.pc = "publish" /\ Publishable
  /\ Canonical # op.txn.target
  /\ IF Canonical = None
     THEN /\ live' = PutBoth(live, op.txn.plugin, Hidden, op.txn.token, None)
          /\ Goto("publishSync")
     ELSE /\ live' = PutBoth(live, op.txn.plugin, None, op.txn.token, Hidden)
          /\ Goto("publish")
  /\ UNCHANGED <<records, journal, disk, phase, revoked, pick, faults>>

\* RENAME_SWAP over an installed build, RENAME_EXCL into an empty place: both
\* leave whatever was canonical (a tree or nothing) under the hidden name.
PublishRename ==
  /\ op.pc = "publish" /\ Publishable
  /\ Canonical # op.txn.target
  /\ live' = PutBoth(live, op.txn.plugin, Hidden, op.txn.token, Canonical)
  /\ Goto("publishSync")
  /\ UNCHANGED <<records, journal, disk, phase, revoked, pick, faults>>

PublishSync ==
  /\ op.pc = "publishSync"
  /\ disk' = live
  /\ Goto("sweep")
  /\ UNCHANGED <<records, journal, live, phase, revoked, pick, faults>>

\* Clean-up of the displaced tree may stop anywhere and may stay unsynchronized.
Sweep ==
  /\ op.pc = "sweep"
  /\ \E c \in {Hidden, Partial, None} :
       /\ Hidden = None => c = None
       /\ live' = PutHidden(live, op.txn.token, c)
       /\ disk' \in (IF c = None THEN {live', disk} ELSE {disk})
  /\ Goto("finish")
  /\ UNCHANGED <<records, journal, phase, revoked, pick, faults>>

\* A failed direct publish is reconciled at once; a failed reconciliation ends
\* the operation and leaves the journal for the next one.
PublishFails ==
  /\ \/ op.pc = "publish" /\ ~Publishable /\ faults' = faults
     \/ op.pc \in {"publish", "publishSync"} /\ Fault
  /\ IF op.attempt = 0 THEN Advance("recover", op.txn, op.origin, 1) ELSE op' = Idle
  /\ UNCHANGED <<records, journal, live, disk, phase, revoked, pick>>

-----------------------------------------------------------------------------
(* publishPreparedApplicationDataTransaction and reconciliation of a       *)
(* removal: the canonical tree becomes a tombstone, which is re-inspected  *)
(* and then deleted entry by entry.                                        *)

\* Deliberate fault: a tombstone already deleted counts as a foreign one.
RetireBlockedWhenGone ==
  IF Canonical # None THEN Canonical # op.txn.expected \/ Hidden # None
                      ELSE Hidden # op.txn.expected

RetireBlocked ==
  IF Canonical # None THEN Canonical # op.txn.expected \/ Hidden # None
                      ELSE Hidden \notin {None, op.txn.expected}

Retired == IF op.attempt = 0 THEN Advance("retire", op.txn, op.origin, 1) ELSE Goto("settle")

RetireRename ==
  /\ op.pc = "retire" /\ ~RetireBlocked /\ Canonical # None
  /\ live' = PutBoth(live, op.txn.plugin, None, op.txn.token, Canonical)
  /\ Goto("retireSync")
  /\ UNCHANGED <<records, journal, disk, phase, revoked, pick, faults>>

RetireResume ==
  /\ op.pc = "retire" /\ ~RetireBlocked /\ Canonical = None
  /\ Goto("retireSync")
  /\ UNCHANGED <<records, journal, live, disk, phase, revoked, pick, faults>>

RetireSync ==
  /\ op.pc = "retireSync"
  /\ disk' = live
  /\ IF Hidden = None THEN Retired ELSE Goto("erase")
  /\ UNCHANGED <<records, journal, live, phase, revoked, pick, faults>>

Erase ==
  /\ op.pc = "erase"
  /\ \E c \in {Partial, None} :
       /\ c # Hidden
       /\ live' = PutHidden(live, op.txn.token, c)
       /\ Goto(IF c = None THEN "eraseSync" ELSE "erase")
  /\ UNCHANGED <<records, journal, disk, phase, revoked, pick, faults>>

EraseSync ==
  /\ op.pc = "eraseSync"
  /\ disk' = live
  /\ Retired
  /\ UNCHANGED <<records, journal, live, phase, revoked, pick, faults>>

\* Deliberate fault: a failed last attempt taken for success.
RetireFailsAsDone ==
  /\ \/ op.pc = "retire" /\ RetireBlocked /\ faults' = faults
     \/ op.pc \in {"retire", "retireSync", "erase", "eraseSync"} /\ Fault
  /\ IF op.attempt < 2 THEN Advance("retire", op.txn, op.origin, op.attempt + 1) ELSE Goto("finish")
  /\ UNCHANGED <<records, journal, live, disk, phase, revoked, pick>>

\* Attempt 0 is the caller's own publish, 1 the one reconciliation makes, 2 its
\* single retry.
RetireFails ==
  /\ \/ op.pc = "retire" /\ RetireBlocked /\ faults' = faults
     \/ op.pc \in {"retire", "retireSync", "erase", "eraseSync"} /\ Fault
  /\ IF op.attempt < 2 THEN Advance("retire", op.txn, op.origin, op.attempt + 1) ELSE op' = Idle
  /\ UNCHANGED <<records, journal, live, disk, phase, revoked, pick>>

Settle ==
  /\ op.pc = "settle" /\ Canonical = None /\ Hidden = None
  /\ disk' = live
  /\ Goto("finish")
  /\ UNCHANGED <<records, journal, live, phase, revoked, pick, faults>>

-----------------------------------------------------------------------------
(* Closing the journal.                                                    *)

CanClose == /\ journal # None /\ journal.token = op.txn.token
            /\ records[journal.plugin] = journal.next

\* An operation that closed its own transaction is over; any other goes on.
Closed == IF op.origin = "begun" THEN op' = Idle ELSE Advance("discard", None, "found", 0)

Finish ==
  /\ op.pc = "finish" /\ CanClose
  /\ journal' = None
  /\ Closed
  /\ UNCHANGED <<records, live, disk, phase, revoked, pick, faults>>

\* Deliberate fault: closes the journal without restoring the previous record.
AbortKeepingRecord ==
  /\ op.pc = "abort" /\ CanClose
  /\ journal' = None
  /\ Closed
  /\ UNCHANGED <<records, live, disk, phase, revoked, pick, faults>>

Abort ==
  /\ op.pc = "abort" /\ CanClose
  /\ records' = [records EXCEPT ![journal.plugin] = journal.previous]
  /\ journal' = None
  /\ Closed
  /\ UNCHANGED <<live, disk, phase, revoked, pick, faults>>

\* discardUnjournaledPreparedTransactions: any hidden tree but the journal's own.
Stray(t) == live.hidden[t] # None /\ (journal # None => journal.token # t)

Discard(t) ==
  /\ op.pc \in {"discard", "undo"} /\ Stray(t)
  /\ \E c \in {Partial, None} :
       c # live.hidden[t] /\ live' = PutHidden(live, t, c)
  /\ UNCHANGED <<records, journal, disk, phase, revoked, op, pick, faults>>

\* The directory is synchronized if anything was removed; the result is ignored.
DiscardDone ==
  /\ op.pc \in {"discard", "undo"} /\ \A t \in Tokens : ~Stray(t)
  /\ disk' \in {live, disk}
  /\ IF op.pc = "discard" /\ op.kind # "reconcile" THEN Goto("check") ELSE op' = Idle
  /\ phase' = IF op.kind = "reconcile" THEN "shown" ELSE phase
  /\ UNCHANGED <<records, journal, live, revoked, pick, faults>>

-----------------------------------------------------------------------------
(* What install, update and removal check before they write anything, and  *)
(* the transaction they then build.                                        *)

Selected == Owner[op.build]
Installed == live.final[Selected]

\* Deliberate fault: forgets to compare release sequences.
InstallAnySequence ==
  /\ Installed # None => Verifies(Installed)
  /\ Agrees(records[Selected], Installed)

InstallAllowed ==
  /\ Installed # None => Verifies(Installed)
  /\ Agrees(records[Selected], Installed)
  /\ Installed \notin {None, op.build} => Sequence[op.build] > Sequence[Installed]

\* Removal trusts the structure and the digest, not the publisher.
RemoveAllowed ==
  /\ Installed = op.build
  /\ Agrees(records[Selected], Installed)

Allowed == IF op.kind = "install" THEN InstallAllowed ELSE RemoveAllowed

\* Deliberate fault: an update enables a plug-in the user had disabled.
PlannedEnabled(t) ==
  [token |-> t,
   kind |-> IF op.kind = "remove" THEN "remove"
            ELSE IF Installed = None THEN "install" ELSE "update",
   plugin |-> Selected,
   expected |-> Installed,
   target |-> IF op.kind = "remove" THEN None ELSE op.build,
   previous |-> records[Selected],
   next |-> IF op.kind = "remove" THEN None
            ELSE [digest |-> op.build, source |-> "appData", enabled |-> TRUE]]

Planned(t) ==
  LET previous == records[Selected] IN
  [token |-> t,
   kind |-> IF op.kind = "remove" THEN "remove"
            ELSE IF Installed = None THEN "install" ELSE "update",
   plugin |-> Selected,
   expected |-> Installed,
   target |-> IF op.kind = "remove" THEN None ELSE op.build,
   previous |-> previous,
   next |-> IF op.kind = "remove" THEN None
            ELSE [digest |-> op.build, source |-> "appData",
                  enabled |-> IF previous = None THEN TRUE ELSE previous.enabled]]

Fresh(t) == live.hidden[t] = None /\ disk.hidden[t] = None

CheckPasses(t) ==
  /\ op.pc = "check" /\ Allowed /\ Fresh(t)
  /\ Advance(IF op.kind = "remove" THEN "begin" ELSE "prepare", Planned(t), "found", 0)
  /\ UNCHANGED <<records, journal, live, disk, phase, revoked, pick, faults>>

\* Publisher keys are left out: replacing a build may be refused on their account.
CheckRefuses ==
  /\ op.pc = "check"
  /\ Allowed => op.kind = "install" /\ Installed \notin {None, op.build}
  /\ op' = Idle
  /\ UNCHANGED <<records, journal, live, disk, phase, revoked, pick, faults>>

\* prepareQuarantinedPackage: create and fill the staging tree, then verify and
\* synchronize it.
PrepareCopy ==
  /\ op.pc = "prepare" /\ Hidden = None
  /\ live' = PutHidden(live, op.txn.token, Partial)
  /\ UNCHANGED <<records, journal, disk, phase, revoked, op, pick, faults>>

PrepareDone ==
  /\ op.pc = "prepare" /\ Hidden = Partial
  /\ live' = PutHidden(live, op.txn.token, op.txn.target)
  /\ disk' = live'
  /\ Goto("begin")
  /\ UNCHANGED <<records, journal, phase, revoked, pick, faults>>

PrepareFails ==
  /\ op.pc = "prepare" /\ Fault
  /\ \E c \in {Hidden, None} : live' = PutHidden(live, op.txn.token, c)
  /\ op' = Idle
  /\ UNCHANGED <<records, journal, disk, phase, revoked, pick>>

\* beginApplicationDataTransaction: compare-and-swap of the record together with
\* the journal, in one Keychain write.
CanBegin ==
  /\ journal = None
  /\ records[op.txn.plugin] = op.txn.previous
  /\ op.txn.next # None => RoomFor(op.txn.plugin)

Begin ==
  /\ op.pc = "begin" /\ CanBegin
  /\ records' = [records EXCEPT ![op.txn.plugin] = op.txn.next]
  /\ journal' = op.txn
  /\ Advance(IF op.kind = "remove" THEN "retire" ELSE "publish", op.txn, "begun", 0)
  /\ UNCHANGED <<live, disk, phase, revoked, pick, faults>>

BeginFails ==
  /\ op.pc = "begin"
  /\ CanBegin => faults < MaxFaults
  /\ faults' = IF CanBegin THEN faults + 1 ELSE faults
  /\ IF op.kind = "install" THEN Advance("undo", None, "found", 0) ELSE op' = Idle
  /\ UNCHANGED <<records, journal, live, disk, phase, revoked, pick>>

\* A Keychain or file-system call fails where the code returns at once.
GiveUp ==
  /\ op.pc \in {"pending", "recover", "drain", "drained", "settle", "finish",
                "abort", "discard", "undo", "check"}
  /\ Fault
  /\ op' = Idle
  /\ UNCHANGED <<records, journal, live, disk, phase, revoked, pick>>

-----------------------------------------------------------------------------
(* Record changes that take no service lock.  They run on the main thread, *)
(* so never during an install or removal, but possibly between two steps   *)
(* of the worker; each is refused while a journal is pending.              *)

MainFree == phase = "shown" /\ op.kind \in {"idle", "reconcile"}
Unlocked(p) == MainFree /\ pick = None /\ journal = None

\* setDiscoveredPackage and scheduleApprovedDiscoveredPackage verify the bytes...
SelectToggle(p, enabled) ==
  /\ MainFree /\ pick = None /\ Verifies(live.final[p])
  /\ pick' = [plugin |-> p, digest |-> live.final[p], enabled |-> enabled]
  /\ UNCHANGED <<records, journal, live, disk, phase, revoked, op, faults>>

\* ... and store a record with the digest they read.
ScheduleToggle ==
  /\ pick # None /\ journal = None /\ RoomFor(pick.plugin)
  /\ records' = [records EXCEPT ![pick.plugin] =
       [digest |-> pick.digest, source |-> "appData", enabled |-> pick.enabled]]
  /\ pick' = None
  /\ UNCHANGED <<journal, live, disk, phase, revoked, op, faults>>

ToggleRefused ==
  /\ pick # None
  /\ journal = None => ~RoomFor(pick.plugin)
  /\ pick' = None
  /\ UNCHANGED <<records, journal, live, disk, phase, revoked, op, faults>>

\* The same for a copy outside app data, or one a replacement app will carry.
ScheduleOther(b, enabled) ==
  /\ Unlocked(Owner[b]) /\ Verifies(b) /\ RoomFor(Owner[b])
  /\ records' = [records EXCEPT ![Owner[b]] =
       [digest |-> b, source |-> "other", enabled |-> enabled]]
  /\ UNCHANGED <<journal, live, disk, phase, revoked, op, pick, faults>>

\* setPluginIdentifier:enabled:
SetEnabled(p, enabled) ==
  /\ Unlocked(p) /\ records[p] # None
  /\ records' = [records EXCEPT ![p] =
       [digest |-> @.digest, source |-> @.source, enabled |-> enabled]]
  /\ UNCHANGED <<journal, live, disk, phase, revoked, op, pick, faults>>

\* removePluginIdentifier: an official copy outside app data needs no record.
DropRecord(p) ==
  /\ Unlocked(p) /\ records[p] # None
  /\ records' = [records EXCEPT ![p] = None]
  /\ UNCHANGED <<journal, live, disk, phase, revoked, op, pick, faults>>

-----------------------------------------------------------------------------
(* The environment.                                                        *)

Launch ==
  /\ phase = "down"
  /\ phase' = "launched"
  /\ UNCHANGED <<records, journal, live, disk, revoked, op, pick, faults>>

Stop == phase' = "down" /\ op' = Idle /\ pick' = None

\* The process is killed: the file system keeps what system calls did.
Crash ==
  /\ phase # "down" /\ Fault
  /\ Stop
  /\ UNCHANGED <<records, journal, live, disk, revoked>>

\* The device loses power: directory changes not yet written back are gone.
PowerLoss ==
  /\ live # disk /\ Fault
  /\ live' = disk
  /\ Stop
  /\ UNCHANGED <<records, journal, disk, revoked>>

\* The kernel may write the directory back at any time.
WriteBack ==
  /\ disk # live
  /\ disk' = live
  /\ UNCHANGED <<records, journal, live, phase, revoked, op, pick, faults>>

\* A restored container lacks a hidden tree while the Keychain keeps the journal.
LoseHidden(t) ==
  /\ phase = "down" /\ live = disk /\ live.hidden[t] # None /\ Fault
  /\ live' = PutHidden(live, t, None)
  /\ disk' = live'
  /\ UNCHANGED <<records, journal, phase, revoked, op, pick>>

\* A new app version revokes a build.
Revoke(b) ==
  /\ phase = "down" /\ b \in Revocable \ revoked
  /\ revoked' = revoked \cup {b}
  /\ UNCHANGED <<records, journal, live, disk, phase, op, pick, faults>>

-----------------------------------------------------------------------------
Reconciliation ==
  \/ PendingNone \/ PendingFound
  \/ RecoverCommitted \/ DrainStaging \/ DrainSync
  \/ RecoverPublish \/ RecoverAbandon \/ RecoverRefuses
  \/ Finish \/ Abort
  \/ (\E t \in Tokens : Discard(t)) \/ DiscardDone

Publication ==
  \/ PublishAlready \/ PublishRename \/ PublishSync \/ Sweep \/ PublishFails
  \/ RetireRename \/ RetireResume \/ RetireSync \/ Erase \/ EraseSync
  \/ RetireFails \/ Settle

Preparation ==
  \/ (\E t \in Tokens : CheckPasses(t)) \/ CheckRefuses
  \/ PrepareCopy \/ PrepareDone \/ PrepareFails \/ Begin \/ BeginFails

UserStarts == \E b \in Builds : StartInstall(b) \/ StartRemove(b)

RecordChanges ==
  \/ \E p \in Plugins, enabled \in BOOLEAN : SelectToggle(p, enabled) \/ SetEnabled(p, enabled)
  \/ ScheduleToggle \/ ToggleRefused
  \/ \E b \in Builds, enabled \in BOOLEAN : ScheduleOther(b, enabled)
  \/ \E p \in Plugins : DropRecord(p)

Environment ==
  \/ Launch \/ Crash \/ PowerLoss \/ WriteBack
  \/ \E t \in Tokens : LoseHidden(t)
  \/ \E b \in Builds : Revoke(b)

Next ==
  \/ Reconciliation \/ Publication \/ Preparation \/ GiveUp
  \/ UserStarts \/ StartReconcile \/ RecordChanges \/ Environment

Spec == Init /\ [][Next]_vars

\* The steps of the running operation.  The lock holder keeps running; after an
\* exit the user launches again, and startup (or opening management) reconciles.
Working == Reconciliation \/ Publication \/ Preparation

Fairness ==
  /\ WF_vars(Working)
  /\ WF_vars(Launch)
  /\ SF_vars(StartReconcile)

FairSpec == Spec /\ Fairness

-----------------------------------------------------------------------------
(* Properties.                                                             *)

\* Every variable has the shape the stores decode.
TypeOK ==
  /\ records \in [Plugins -> Record \cup {None}]
  /\ journal \in Transaction \cup {None}
  /\ live \in Tree
  /\ disk \in Tree
  /\ phase \in {"down", "launched", "shown"}
  /\ revoked \in SUBSET Builds
  /\ op \in Operation
  /\ pick \in Pick \cup {None}
  /\ faults \in 0..MaxFaults

\* Whenever the process dies or power is lost during a transaction, the next
\* launch finds, in the record and at the canonical path, the new record with
\* either the whole old or the whole new build; and as long as the new build is
\* not yet canonical, its staged copy is whole or gone, never torn.
JournalRecoverable ==
  journal # None =>
    /\ records[journal.plugin] = journal.next
    /\ \A tree \in {live, disk} :
         /\ tree.final[journal.plugin] \in {journal.expected, journal.target}
         /\ journal.kind # "remove" /\ tree.final[journal.plugin] # journal.target
              => tree.hidden[journal.token] \in {journal.target, None}

\* Without a journal nothing at a canonical path may still be undone by a power
\* loss: there would be no transaction left to repair it.
ClosedIsDurable == journal = None => live.final = disk.final

\* Closing the journal leaves on disk what the surviving record says: the target
\* build (or, after a removal, neither tree), or the old build with the old record.
CloseMatchesDisk ==
  [][journal # None /\ journal' = None =>
       LET p == journal.plugin IN
       \/ /\ records'[p] = journal.next
          /\ disk.final[p] = journal.target
          /\ journal.kind = "remove" => disk.hidden[journal.token] = None
       \/ /\ records'[p] = journal.previous
          /\ disk.final[p] = journal.expected]_vars

\* A durable canonical build is only ever replaced by a higher release sequence,
\* whatever was retried, interrupted or restarted in between.
NoDowngrade ==
  [][\A p \in Plugins :
       LET old == disk.final[p]  new == disk'.final[p] IN
       old \in Builds /\ new \in Builds /\ new # old => Sequence[new] > Sequence[old]]_vars

\* An app-data record disagrees with the bytes beside it...
Split(p) ==
  /\ journal # None => journal.plugin # p
  /\ records[p] # None /\ records[p].source = "appData"
  /\ records[p].digest # live.final[p]

\* ... only after an enable switch stored a digest it had read before the worker
\* published other bytes: no crash, fault or restart causes it.
OnlyStaleToggleSplits ==
  [][\A p \in Plugins : ~Split(p) /\ Split(p)' =>
       /\ pick # None /\ pick.plugin = p
       /\ pick.digest # live.final[p]]_vars

\* The two ways a journal can become impossible to close: a removal's tombstone
\* that is only partly deleted, and a build revoked in mid-transaction.
Torn == journal # None /\ journal.kind = "remove" /\ live.hidden[journal.token] = Partial
Revoked ==
  /\ journal # None /\ journal.kind # "remove"
  /\ \/ live.final[journal.plugin] \in revoked
     \/ /\ live.final[journal.plugin] # journal.target
        /\ live.hidden[journal.token] \in revoked

\* Every other transaction is finished or rolled back, by the operation that
\* began it or by reconciliation, wherever it was interrupted.
PendingCloses == (journal # None) ~> (journal = None \/ Torn \/ Revoked)

\* docs/plugin-system.md: "Startup reconciliation finishes or rolls back
\* interrupted file operations", here of a removal.
InterruptedRemovalCloses == (journal # None /\ journal.kind = "remove") ~> (journal = None)

\* The transaction seen from outside: what a restart finds, and its record.
Abstract == INSTANCE PluginInstall WITH
  bytes <- disk.final,
  rec <- [p \in Plugins |->
            IF journal # None /\ journal.plugin = p /\ disk.final[p] # journal.target
            THEN journal.previous ELSE records[p]],
  choice <- pick

\* Bytes and record change together, in one atomic step (PluginInstall).
ImplementsInstall == Abstract!Spec
=============================================================================
