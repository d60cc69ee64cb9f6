# Battman in TLA+

Specifications of Battman's stateful components, model-checked with TLC, and theorems about them
checked by TLAPS. Battman is an iOS battery application: it hosts native plug-ins, limits charging
through a root daemon, and records and draws battery metrics. Paths below are relative to
`src/Battman/`; `PROJECT.json` maps every definition to the lines it models.

## The system

### Plug-in host (`PluginHost/`)

| Component | State | Operations | Correct when |
|---|---|---|---|
| Management service (`Management/BTPluginManagementService.m`) | none of its own; one lock (`@synchronized(self)`) over install, removal, snapshot and reconciliation | install or update from quarantine, remove, enable or disable, snapshot | a package and its activation record change together whatever interrupts them |
| App-data store (`Import/BTPluginApplicationDataStore.m`) | a directory: `<id>.battman`, staging trees `.transaction-<uuid>`, tombstones `.removing-<uuid>` | prepare, publish, reconcile, discard strays | a canonical package is whole, old or new, at every instant; a closed transaction is durable |
| Activation store (`Runtime/BTPluginActivationStore.m`) | one Keychain item: records, third-party switch, launch marker, transaction journal | schedule, begin, finish, abort, set, remove, begin startup, record attempt, settle, disable recovered | every operation reads, checks and writes the whole item under one lock |
| Platform (`Application/BTPluginPlatform.m`) | startup queue, snapshot, settlement generation and timer | prepare for launch, load, become and leave active, settle | a crash in native code leads to safe mode, with the culprit named |
| Safe-mode request (`Runtime/BTPluginSafeModeRequest.m`) | one sentinel file | request, consume | a request that was reported as stored is honoured by the next launch |
| Runtime loader, native image loader (`Runtime/`) | pinned private copy | prepare, activate | nothing is mapped before its attempt is recorded |
| Trust store, evaluator, official policy (`Security/`) | Keychain: approvals, release floors, policy sequence | approve, revoke, evaluate, record release | releases never go back; a revoked key is refused |
| Quarantine and import (`Import/`) | `<id>/<sha256>.battman`, `.incoming-`, `.removing-` | import, list, remove | content-addressed packages are whole or absent; the list stays available |
| Registry (`BTPluginRegistry.m`) | extension points, descriptors, committed plug-ins | begin, register, commit, roll back | a plug-in registers all or nothing, once |
| Package inspection (`Security/`, `Model/`), discovery | none | pure checks, directory listing | decide alike for the same bytes |

The user interface and the startup queue both call the management service; the service calls the
store and the activation store and holds its lock while it does. The enable switches bypass that
lock and call the activation store directly. Startup first reconciles through the service, then opens
the launch in the activation store and loads the discovered packages one by one; the loader verifies
on the worker and maps on the main thread. The platform's timer settles the launch.

### Charging, metrics and the device

| Component | State | Operations | Correct when |
|---|---|---|---|
| Daemon policy (`battery_utils/daemon.c`) | mapped settings, last level, caches of SMC keys CH0C and CH0I | power event, control commands 3 and 4 | the configured key inhibits charging at the limit and is released at the lower threshold; a cache agrees with its key |
| Daemon control socket (`battery_utils/daemon.c`) | listener, client count, redirected output | accept, commands 2-6, time-outs | every place taken is given back; the log leaves a client that is gone |
| Daemon instance (`battery_utils/daemon.c`, `ChargingLimitViewController.m`) | `daemon.run` (PID, lock), socket node | start, stop; the app's removal of a stale file | at most one daemon owns the path; a dead one never blocks a start |
| Worker (`battery_utils/worker.c`) | two pipes, worker PID, preferences, thermal state | call, respawn, seven commands | an answer belongs to its call; no call waits for ever |
| Battery notifications (`BatterySubscriberViewControllerBase.c`, `UPSMonitor-new.m`, `BatteryInfoViewController.m`) | subscription on the power queue, timer, refresh generation | subscribe, suspend, resume, callback, refresh, scroll | the main thread never hangs on the queue; no stale refresh is shown |
| Battery and SMC access (`battery_utils/libsmc.c`, `accessory.c`, `battery_info.c`) | connection, sections of rows, service references | poll, update, remove | a row shows what the hardware says now, or is hidden |
| Temperatures (`libsmc.c`, `hw/IOMFB_interaction.c`, `SimpleTemperatureViewController.m`) | cell values, refresh in flight | read, refresh | the values of one reading are of one family; no refresh is lost |
| Language, configuration directory (`common.c`, `LanguageSelectionViewController.m`) | cached code, file LANG, directories | look up, choose, clear; create | no cached language outlives a choice; app and daemon meet in one directory |
| Statistics (`Features/Analytics/BuiltIn/Statistics/`) | accumulators of one report | dwell, comparison | every second is counted once, in the bin it was spent in |
| Metric service, history service (`Features/Analytics/Data/`) | polling generation; pending flag, cancellations, cache | subscribe, sample, wipe; refresh, deliver, memory pressure | no stopped generation publishes; nothing is written after a wipe |

The app talks to the daemon through its settings file, the control socket and `daemon.run`, and to the
worker through pipes. The daemon and the battery page both subscribe to power sources through the
same monitor. `PROJECT.json` lists every part with its status and, where it is left out, the reason.

### What is hard here

Crashes and power loss between a rename, its `fsync` and the Keychain write; retries of a removal
that was half done; a journal nobody can close, which blocks every launch; digests read outside a
lock; timers of an earlier activation; several deaths in a row on the way to safe mode; unlocked
state shared by daemon threads; settings stored byte by byte under a running decision; launches,
stopping daemons and the app around one run file; a peer that dies in the middle of a call; a serial
queue the main thread waits for; rows kept while the hardware behind them is swapped. `PROJECT.json`
"hazards" lists them at their lines.

## Modules

### `PluginAppData`: the app-data transaction

One variable per store: `records` and `journal` (Keychain), `live` and `disk` (the directory as system
calls see it and as a power loss would leave it), `phase`, `revoked`. Each tree is a function from
plug-in to the content at `<id>.battman` and from transaction identifier to the content of its hidden
tree. Content is a build (its SHA-256), nothing, or `Partial`: some files missing.

`op` is the operation that holds the service lock, with its step; `pick` is an enable switch between
its read of the package and its write of the record, which holds no lock. One action is one
system call that matters, one Keychain write, or one decision of the code:

| Actions | Code |
|---|---|
| `PendingNone`, `PendingFound` | the journal read that opens `bt_reconcilePending...` |
| `RecoverCommitted`, `DrainStaging`, `DrainSync`, `RecoverPublish`, `RecoverAbandon`, `RecoverRefuses` | `reconcileApplicationDataTransaction:` of an install or update |
| `PublishAlready`, `PublishRename`, `PublishSync`, `Sweep`, `PublishFails` | `publishPrepared...` of an install or update |
| `RetireRename`, `RetireResume`, `RetireSync`, `Erase`, `EraseSync`, `RetireFails`, `Settle` | `publishPrepared...` of a removal and its recovery, with the three attempts |
| `Finish`, `Abort` | the Keychain write that closes the journal |
| `Discard`, `DiscardDone` | `discardUnjournaledPreparedTransactions...` |
| `CheckPasses`, `CheckRefuses`, `PrepareCopy`, `PrepareDone`, `PrepareFails`, `Begin`, `BeginFails` | what install and removal do before the journal is written |
| `GiveUp` | an I/O or Keychain error where the code returns at once |
| `SelectToggle`, `ScheduleToggle`, `ToggleRefused`, `ScheduleOther`, `SetEnabled`, `DropRecord` | record changes without the service lock |
| `Launch`, `Crash`, `PowerLoss`, `WriteBack`, `LoseHidden`, `Revoke` | the environment |

Keychain writes are atomic and durable, a directory `fsync` makes the whole directory durable, the
kernel may write it back at any time, and a rename is atomic. A package verifies when it is whole
and not revoked. Publisher approvals are abstracted to a free refusal (`CheckRefuses`); time stamps,
file modes and names are left out. Transaction identifiers are reused once no tree on disk carries
them, which keeps the model finite. `LoseHidden` is a container restored without its hidden trees.

### `PluginInstall`: what the transaction promises

A restart finds, for each plug-in, a build and a record, and one step changes both. `PluginAppData`
implements it (`ImplementsInstall`) under the refinement mapping `Abstract`: the bytes are those on
disk; the record is the journal's previous one as long as the target is not yet durable. The step
that makes the rename durable (by `fsync` or by write-back) is therefore the abstract install, and
everything before and after it is a stutter.

### `PluginStartup`: launch marker, safe mode, settlement

`launch`, `records`, `thirdParty` are the Keychain item; `sentinel` and `sentinelDisk` the request
file; `pc`, `snapshot`, `todo`, `current`, `ran` the startup worker; `active`, `generation`, `timers`,
`settling` the settlement; `asking` a request being written. History variables (`owed`, `culprit`,
`promised`, `banned`) remember what a property needs across deaths. `Prepare`, `Map`,
`MapRefused` and `Activated` are the loader's phases for one package; the process can die in any of them. Discovery
order is left free and each identifier has one installed copy: duplicates are dropped before anything
that changes state. Reconciliation either succeeds or ends startup; `PluginAppData` says when.

### `DaemonRunFile`: one charging-limit daemon

`run` is the inode linked at `daemon.run`, `record` what each inode says, `lock` the POSIX record lock on each,
`socket` the owner of the socket node, `settings` whether `daemon_settings` exists. Each launch is a
process with a main thread (`pc`) and three threads that may decide to stop (`stop`); it makes one inode, so
an inode is named by its launch. `app` is `CLRemoveStaleDaemonArtifacts`; `taken` are dead
processes whose number still answers `kill(pid, 0)`.

| Actions | Code |
|---|---|
| `Launch`, `OpenOld`, `LockOld`, `CheckOld`, `CompareOld`, `RemoveOld` | the stale check at the head of `daemon_main` |
| `Link`, `Tidy`, `TidyFails` | publication of the private inode |
| `Configure`, `InitialEvent`, `RemoveStaleSocket`, `Bind`, `Permit`, `Listen`, `SetupFails`, `Drain` | the rest of `daemon_main` and `daemon_control` |
| `ClientStops`, `PowerStops` | control command 3, a battery event without settings |
| `MarkStopping`, `StopCompare`, `StopRemove`, `WipeSettings`, `CloseRunFile`, `Exit` | `cleanup_daemon_files` and `exit`, per thread |
| `AppFindsDead`, `AppOpens`, `AppLocks`, `AppMatches`, `AppRemoves`, `AppCreatesSettings` | the charging-limit page |
| `AppReadsElsewhere` | the other readers of `daemon.run` in the app, which drop its locks as they close the file |
| `Crash`, `NumberTaken`, `NumberFreed`, `SettingsDeleted` | the environment |

A daemon is in office from its link until one of its threads begins to clean up. Two races defeat the
locks and bound what is promised: two threads of a daemon clean up with the same descriptor
(`doubled`), and another reader in the app drops its lock (`released`). `SocketKept` also excepts a main
thread that sets up the socket after its process began to stop (`strayed`). Permissions, file
kinds and outsiders who delete `daemon.run` are not modelled; a launch that fails before
publication is a `Crash`. Charging itself is left to `ChargeControl`.

### `ChargeControl`: the charging policy

`key` and `managed` are the two low bits of the SMC keys CH0C and CH0I, `settings` the mapped bytes,
`stores` the bytes an edit of the app has still to write, `cache` what the daemon last wrote to each key, `th` the
step, level and mode of the three threads that run the policy: main (once, at startup), the power queue,
and a client of command 4 or 3. No lock covers any of it, so a read of settings, the comparison with
the cache, the write and its note are steps of their own.

| Actions | Code |
|---|---|
| `Launch`, `Start` | `daemon_main`: settings checked, initial level applied |
| `PowerEvent`, `Redecide`, `Stop` | `powerevent_listener`, control commands 4 and 3 |
| `Check`, `DecideResume`, `DecidePaired`, `DecideAlone` | `update_power_level`, as it reads its settings |
| `NoPower`, `Probe`, `ProbeFails`, `Compare`, `Write`, `WriteFails`, `Note` | `power_switch_safe` |
| `StopInflow`, `StopCharge`, `Exit` | the two releases of command 3 and the end of the process |
| `Edit`, `Store`, `Toggle`, `Removed` | the charging-limit page, the charging-management page, removal of the settings |
| `LevelMoves`, `AdapterMoves`, `ManagedMoves` | the battery, the adapter, Optimized Battery Charging |

The alert about wireless charging is left out. `upset` and `switched` are history: handlers
overlapped, a stop failed halfway or a key was set by hand; a key may be left over from another mode or an
earlier daemon, which the code never corrects.

### `WorkerCall`: the privileged worker

The app's main thread (`app`, `call`), the worker (`pid`, `wpc`), the two pipes, and what the worker
stores. `Begin` to `EndOfFile` are `battman_worker_call`, with the liveness probe and the respawn;
`ReadCommand` to `SendData` are the loop of `battman_run_worker` with each of its seven commands;
`ParentMonitor` is the thread that ends a worker whose parent has changed; `Dies` and `AppEnds` are
deaths at any step. Zombies answer the probe, and a worker holds the app's ends of the pipes, as in
the code. Preference suites follow the release of the system, thermal pressure its table
per kind of system. A failed spawn leaves no descriptors and the call answers 0.

### `PowerMonitor` and `PowerEvents`: notifications on their way to the battery page

`PowerMonitor` is the subscription and its serial queue: `onPowerQueue` from the main thread is a
block and a wait, blocks run one at a time, and a message of the kernel may become a block before the
port loses its queue and run after it. `PowerEvents` EXTENDS it with the page: `refresh` is the
machine of `BatteryInfoViewController.m` (generation, pending, suspended), `ctx` the context of the
timer, `mainQueue` the blocks posted to the main thread, and one action for each of the lifecycle
notifications in the order their observers were added. UIKit is external: the application
state is background until the observers of the foreground notification have run, and a
finger that lifts without moving calls no delegate. `shown` and `session` count stays in the foreground.

### `ControlServer`: the daemon's socket

`peer` and `input` are the clients, `thread` what serves each, `daemon_client_count` the counter,
`stdio` the descriptors that command 6 redirects, `listener` the accept loop between counting a
client and making its thread. `Accept` to `CloseRefused` are the loop, the actions of `Thread(c)`
one client's thread, with the read that times out and the write that fails. What
commands 3 and 4 do to the keys is in `ChargeControl`, files are in `DaemonRunFile`.

### `Smc`, `Accessory`, `BatteryTable`: the battery page's rows

`Smc` and `Accessory` are operators over a device: a table of keys or properties, each a value or
`Missing`. They say what each reader returns when a read fails: a zero, a sentinel or what the
buffer held before. `BatteryTable` composes both: templates of four sections, the word in which a row
packs its flags and its value (with the low bits and small values that packing loses), the polls
that add sections, the updates that set or hide each row, and the removal that releases a service.
`battery_info_update` holds the table's lock, and is split into `battery_info_poll`, one action per
section, `RemoveSection` and `UpdateReturns`, because hardware changes (`HardwareChanges`) in between.
The library libIOAccessoryManager is outside the repository; its branch is assumed to deliver the same properties as
the registry. Fans, device boards and the formatting of values are left out.

### Five independent parts, checked together by `MCServices`

- `Locale`: `preferred_language_code` and its cache, with the tables and the bisection of
  `preferred_language`; readers on two threads, the settings screen that writes or removes
  LANG. It is the build without `USE_GETTEXT`.
- `Statistics`: dwell times of two passes (charge, then charge and temperature) and the comparison of
  sessions, over whole seconds; the accumulator the code inlines in `BAStatisticsDwell` is an operator.
  `StatisticsAssumption` says that the pairs are typed and that a value is at an edge of a bin only at whole seconds; nothing is assumed
  of their number, overlaps, lengths or values, and `InOrder` is the order into which `BASSlices` sorts them. The loops over splits, edges and pairs are recursive functions, and the sort of the
  samples is by insertion. The reference definition asks of each second which pair
  owns it and where that pair was in its middle.
- `ConfigDir`: `mkdir_p`, `chown` and the socket path, in the app and the root daemon at once.
- `CellTemperature`: the values of the battery's cells from one of two families of keys, and the screen's temperature.
- `TemperaturePage`: sensors read on a queue, one reading in flight, and the basics read on the main thread.

`MCServices` explores each from all its initial states while the others rest: they share no variable, so
the product of their states would show nothing more.

### Model-checking modules

The `MC` modules give the constants values for TLC; `PluginAppData_proofs`, `PluginStartup_proofs`,
`DaemonRunFile_proofs`, `ChargeControl_proofs`, `WorkerCall_proofs`, `PowerEvents_proofs`, `BatteryTable_proofs` and
`Services_proofs` (the control socket, the language, the configuration directory, the cells, the temperature page and the statistics) hold the
theorems. Definitions introduced by "Deliberate fault" or "A mutant" are faulty variants of the one
that follows; the mutants of `PROJECT.json` substitute them to see each property fail.

## Runs

| Run | Checks | Bounds |
|---|---|---|
| `AppDataSafety` | `JournalRecoverable`, `ClosedIsDurable`, `CloseMatchesDisk`, `NoDowngrade`, `OnlyStaleToggleSplits`, `ImplementsInstall` | 2 plug-ins (releases 1 and 2 of one, one of the other), 2 identifiers, 1 record slot, 3 faults |
| `AppDataLive` | `PendingCloses` under `FairSpec` | 1 plug-in, 2 releases, 2 identifiers, 2 faults |
| `Startup` | `CrashThenSafe`, `RequestHonoured`, `BannedStaysOut`, `BlamesCulprit`, `SettledAfterGrace` | an official and a third-party plug-in, 2 builds, 1 record slot, 2 deaths (3 launches), 1 failure, 1 app switch per process |
| `DaemonRun` | `OneDaemon`, `RunFileKept`, `SocketKept`, `LoneLaunchStarts` | an earlier launch and 2 new ones, 3 threads each, 2 faults |
| `ChargeControl` | `CacheTrue`, `BandKept`, `StopReleases`, `Settles` | levels 0 to 2, 2 failures, edits or changes of the device; 3 threads |
| `Worker` | `OwnAnswers`, `TuneDone`, `CallEnds`, `OrphanEnds` | 3 calls, 1 death or failed spawn, 4 kinds of system |
| `PowerEvents` | `SpinnerBacked`, `MainReturns`, `QuietOnceSuspended`, `ShownFresh` | 1 source, 2 messages, 2 trips to the background, 1 scroll |
| `Control` | `SlotsTrue`, `IdleEnds`, `LogReturns` | 3 clients for 2 places, a backlog of 1, 1 command each |
| `BatteryTable` | `RefsSafe`, `Fresh`, `SocTrue` | 5 devices, 3 changes between them at any step |
| `Services` | `CodeFresh`, `NameSettles`, `ReportExact`, `DirReady`, `CellsWhole`, `LatestServed` | per part, below |
| `AppDataTorn`, `RefreshTimer` | `InterruptedRemovalCloses`, `TimerResumes`: violated, see below | as `AppDataLive`; 1 message, 1 trip |

Distinct states: `AppDataSafety` 644 thousand, `AppDataLive` and `AppDataTorn` 58 thousand, `Startup` 2.1 million, `DaemonRun`
1.5 million, `ChargeControl` 671 thousand, `Worker` 698 thousand, `BatteryTable` 98 thousand, `PowerEvents` 271
thousand, `RefreshTimer` 7 thousand, `Control` 190 thousand, `Services` 896 thousand; no run takes four minutes.

Why the bounds suffice. A transaction concerns one plug-in; a second one is needed only to take the
record slot, which a limit of one makes a common case. Two identifiers allow one transaction in the
journal beside a stray tree of another. Two releases give install, update, refused downgrade and
reinstallation. Three faults cover a failed direct publish, a crash in its recovery and a power loss
after that; the code has no longer chain of retries than three. For startup, two deaths are the
crash and a death of the safe-mode launch after it, and the properties relate at most three
launches. For the daemon, two live launches and the file of a third, dead one give every pair of
launcher, owner, stopping owner and app around one pathname; two faults give a death and a taken number. The
run stops exploring (`UntilDefeat`) where `doubled` or `released` holds, since its properties about
files promise nothing there.

Three levels of charge give one below, one between and one above every valid pair of thresholds, and every edit
of one. Two moves give a failed write followed by an edit, or an edit during a change of mode; the theorems
about the same properties have no bound. Three calls to the worker are a call, the one its death
spoils, and the one after the respawn. Two trips to the background with two messages let a message of the
first stay be delivered in the second. Three clients for two places give a full server with one client
waiting. The five devices of `MCBatteryTable` are a phone that charges with a cable, one whose gauge wakes up
with zeros and a dock, one with a reversed gauge and a battery pack, one where nothing answers, and one whose
pack is known by HID only; three changes reach any of them from any other with one in between. `Services`:
two readers and two choices of language for every language tag of the tables; eight second pairs beside
each first one, at the edges of the bins; one death and one failed call for the directory; two cells and two changes;
three requests for a refresh during two readings.

The named bounds are `MaxRecords` (128 in the code), `MaxFaults`, `MaxDeaths`, `MaxSwitches`, `MaxLevel` (100),
`MaxMoves`, `MaxCalls`, `MaxMessages`, `MaxBackgrounds`, `MaxScrolls`, `MaxClients` (8), `Backlog`, `MaxSends`, `MaxChanges`, `MaxChoices`,
`MaxFailures`, `MaxCells`, `MaxShifts`, `MaxReadings`, `MaxAsked` and `MaxEvents`. Symmetry is used for interchangeable identifiers,
builds and launches, in safety runs only. The runs of `PluginAppData`, `PluginStartup` and
`DaemonRunFile` check for deadlock: the last process keeps running or can be launched. The others
end where the program does (the app or the daemon has exited) or where their bounds are used up, and do not.

Fairness. `PluginAppData` (`FairSpec`): `WF(Working)`, the thread that holds the service lock keeps running, since
no step of it waits for another thread; `WF(Launch)`, the user starts the app again;
`SF(StartReconcile)`, at every launch the startup queue reconciles, and so does every presentation of the
management screen; strong, because other operations may hold the lock in between. `ChargeControl`: a
thread in a handler goes on, an edit begun is finished, and the battery keeps reporting (`WF(PowerEvent)`), as
the kernel does on every change of charge. `WorkerCall`: both ends of the
pipes run, and the monitor polls its parent every ten seconds. `PowerEvents`: queues run their
blocks, code once called returns; messages of the kernel need not come. `ControlServer`: threads run and the
two-second time-out of a silent client passes. Faults are bounded, so that the environment does
not interrupt for ever; nothing is assumed about the user otherwise. `BatteryTable` and `MCServices`
have no liveness property and no fairness.

## What the violations show

- `AppDataTorn`: deleting a tombstone is not restartable. Every attempt first re-inspects it as a
  complete package, so an interruption in mid-deletion leaves a journal nobody can close, and with it
  no plug-in is loaded and the management screen stays empty. `docs/plugin-system.md` promises that
  startup finishes or rolls back interrupted operations. `PendingCloses` shows that this
  and a build revoked before its transaction closes are the only cases.
- `RefreshTimer`: the comment above the foreground branch of `BSVCAppLifecycleCallback` says that the timer is
  resumed. The callback asks for a timer only when the preference has changed, and the context still holds the
  interval of the timer that was stopped; so after the first trip to the background no timer
  runs until the interval is changed.

Limits the models take from the code, which no run states as a violated promise:

- the safe-mode launch drops the recorded attempt as it opens, not once it has settled, so a launch after
  a death of it loads the same plug-in again; a request that finds the safe-mode file there takes
  it for stored without synchronizing it;
- an enable switch reads the package digest outside the service lock, and a publication in between leaves a
  record for bytes that are gone (`OnlyStaleToggleSplits` shows that nothing else splits them);
- a reader elsewhere in the app that closes `daemon.run` drops the lock under which the charging page removes it;
- a mode changed while charging is inhibited, and a daemon that dies, leave a key inhibited that nobody
  releases (`switched`); when the settings file is removed the daemon ends without releasing the keys
  (`daemon.c:724`);
- a worker that dies during a call makes it answer 0, which is success for a setter (`worker.c:378`); on iOS 15 the
  reduction is stored in one suite and read from another (`worker.c:233`, `251`);
- a second client that asks for the log takes it from the first, whose thread ends only once nothing is written
  to its pipe any more (`daemon.c:393`);
- each poll takes a reference to a service that is already listed and gives it to nobody
  (`battery_info.c:606`), an adapter family that cannot be read is whatever the variable held (`battery_info.c:786`), and the
  serial numbers of an accessory are used through a null reference when the registry lacks them
  (`accessory.c:366`): `leaked`, `Garbage` and `crashed` in `BatteryTable`;
- a connection that cannot be asked for its accessories or its generation once is not asked again
  (`libsmc.c:792`, `1250`);
- the language of the system is compared with "zn" (`common.c:1038`), so no system language selects Chinese
  without a choice in the settings; callers of `preferred_language` share a buffer.

## Proofs

`PluginAppData_proofs` proves, for all plug-ins, builds, identifiers, record limits and fault bounds,
and from the named assumptions of `PluginAppData` only (absence values are distinct from real ones,
each build has an owner and a natural sequence number):

- `TypeOKHolds`: `Spec => []TypeOK`;
- `JournalRecoverableHolds`, `ClosedIsDurableHolds`: the two invariants of the safety run;
- `CloseMatchesDiskHolds`, `NoDowngradeHolds`: its two action properties about bytes.

`JournalRecoverable` is not inductive: it says nothing of what the running operation believes. The
inductive invariant `Inv` (theorem `Invariance`) adds

- `TypeInv`: `TypeOK` and the shape of the running operation (`OpShape`): which steps have a transaction
  in hand, and which kinds of operation take them;
- `JournalInv`: the journal is well formed for its kind, with an update's target of a higher sequence than
  its expected build, and the disk's canonical place never runs ahead of the live one;
- `OthersDurable`: only the journal's plug-in can differ between `live` and `disk`;
- `OpJournal`: an operation at a journal step works on the journal's own transaction, and steps
  that precede a journal run only while there is none;
- `OpPlan`: an operation that has planned but not begun has a plan that fits the installed bytes, and
  its staging tree is whole and durable when it reaches `begin`;
- `OpProgress`: what each later step has already achieved: the target is live from `publishSync` and
  `retireSync` on and durable in the steps after them, a removal's hidden tree is gone, durably,
  at `finish`, and an abort finds the expected build in both trees.

One lemma per group of actions shows that its steps preserve `Inv`, with one step per action; `InvInit`
and `InvStep` combine them. `CloseMatchesDisk` follows from `Inv` because only `Finish` and `Abort`
close (`OnlyTheseClose`), and `OpProgress` says what holds there; `NoDowngrade` follows because the
canonical content on disk changes only to the live one (`DiskFollowsLive`), and the journal's target has
a higher sequence than its expected build.

Its second part proves from the same assumptions

- `ImplementsInstallHolds`: `Spec => ImplementsInstall`, the refinement;
- `OnlyStaleToggleSplitsHolds`: the last action property of the run.

Both need what `Inv` leaves out, that a transaction's records go with its builds (`Sound`): the record it replaces agrees
with the expected build, and the one it stores names the target and keeps the user's choice. A check plans
only such transactions (`PlannedSound`), and `LinkInvariance` adds this to `Inv`. The abstract step is then
taken when the rename reaches the disk, whoever synchronizes it (`SyncInstalls`); `Begin` and the two ways to
close are stutters of it (`BeginRefines`, `CloseRefines`), except that reinstalling the installed build takes effect at
`Begin`; the enable switches map to their abstract actions (`SwitchesRefine`), and a death forgets the one
under way (`DeathRefines`).

`ChargeControl_proofs` proves, for any scale of levels and any number of failures, edits and changes of the device, from
`LevelAssumption` and `OffAssumption` (the scale is not empty, the byte 255 is none of its levels):

- `TypeCorrect`: `Spec => []TypeOK`; in particular no edit of the app stores a threshold off the scale;
- `CacheIsTrue`: the invariant of the run;
- `StopReleasesKeys` and `Hysteresis`: its two action properties.

`CacheTrue` alone is not inductive: a write makes a cache stale until its note. The inductive
invariant `ControlInv` (theorem `InvariantHolds`) is `TypeOK` with

- `Lifecycle`: no handler is under way unless the daemon runs, and it starts with empty caches, which is
  what makes a key left by an earlier daemon harmless to the cache;
- `OneBusy`: while nothing is upset one thread is busy at a time, so that no other thread's note
  can answer for a key;
- `Written`: at its note a thread has its key as it wants it, so the note is true;
- `CacheKept`: which keys may be ahead of their cache: that of a note to come, and both in a stop;
- `StopKept`: a stop goes on only with what it has released;
- `Steps3`: only the client's thread is ever in a stop;
- `Knowledge`: what an update that no edit disturbed knows at each of its steps: valid settings, on which
  side of the thresholds its level lies, and that what it is about to write follows from it.

The proof has one lemma per group of conjuncts (`TurnsStep`, `KeysStep`, `KnowledgeStep`), each with one step
per action, and one lemma per kind of step of an update (`UpdateKeys`, `UpdateKnows`). `Hysteresis` follows
from `Knowledge` at the write, `StopReleasesKeys` from `StopKept` at the exit.

`DaemonRunFile_proofs` proves, for any number of launches, faults and removals by the app, from `NoneAssumption`,
`EarlierAssumption` and `FaultAssumption` (a value for no process, an earlier launch, a natural bound):

- `DaemonTypeOK`: `Spec => []TypeOK`;
- `RunFileKeptHolds`, `OneDaemonHolds`, `SocketKeptHolds`: the invariants of the run;
- `LoneLaunchHolds`: its action property.

`RunFileKept` is not inductive: it does not say why a launch that has compared `daemon.run` with the inode it
locked still finds it there when it unlinks it. The inductive invariant `RunFileInv` (theorem
`RunFileInvariance`) has two layers. `Locks` holds whatever happens:

- `Names`: only inodes that were published are linked or open, and the app expects only a dead daemon's;
- `Fresh`: no thread of a process cleans up before the process has its descriptor, nor after its death;
- `Holders`: a process that has not locked anything yet, or is dead, has no lock;
- `OldHeld`: a launch keeps the old inode locked from its check until it has published its own;
- `Owning`: a daemon with a descriptor has its inode locked, and one in office has a descriptor;
- `Cleaners`: `daemon_run_fd` is cleared before the descriptor is used;
- `AppLock`: while the app has an inode locked, no daemon has.

`Guarded` says that as long as nothing has defeated the locks (`LocksHeld`) the `Claims` hold, each of which is what
somebody's unlink or link relies on: `OneCleaner` (a descriptor is one thread's, with the lock, and what it is
about to remove is its own), `Removing` and `AppRemoval` (a launch and the app remove what they have locked),
and `Office`, which is `RunFileKept`. Since two processes never hold a lock on one inode, no two of them can be
about to unlink, and nobody but its owner can unlink that of a daemon in office. `SocketKept` is inductive beside
these, and `Lone` says that nothing moves beside the lone launch, so that it still finds what it opened.
One lemma per kind of process shows that its steps keep `Locks` (`LaunchLocks`, `ServeLocks`, `StopLocks`,
`AppLocksHold`) and the claims (`LaunchClaims`, `ServeClaims`, `StopClaims`, `AppClaims`).

`PluginStartup_proofs` proves, for any plug-ins, builds and bounds, from `LimitAssumption` and `NoneIsNoValue`:

- `StartupTypeOK`: `Spec => []TypeOK`;
- `CrashThenSafeHolds`, `RequestHonouredHolds`, `BannedStaysOutHolds`: the invariants of the run;
- `BlamesCulpritHolds`, `SettledAfterGraceHolds`: its action properties.

`CrashThenSafe` speaks of native code that runs; a step towards it is taken many steps after the marker was read, on a
snapshot, so the invariant has to say what that snapshot still knows. The inductive invariant `StartupInv` (theorem
`StartupInvariance`) is `TypeOK` with

- `Knows`: at each step of startup, what has been decided so far: whether the request file was looked for, which safe mode and which plug-in it is at;
- `Quiet`: nothing is settled or asked for before startup is over, or in a launch that never opened;
- `Decided`: a snapshot keeps to the answer and the recovery it was made from;
- `Ran`: native code has run only outside safe mode, with its attempt recorded;
- `Left`: what a death left in the marker waits there for the next launch that opens;
- `Requests`: a stored request stays in the file until a later process has found it;
- `Bans`: the records of what recovery disabled are disabled, and none of it is about to run;
- `Timers`: the timers under which the app was left belong to an earlier generation.

`Services_proofs` proves `SlotsTrueHolds` of the control socket for any number of clients and any limit, from `ServerAssumption`. The
inductive invariant `PlacesInv` (`PlacesInvariance`) adds to the shape of the variables that a connection has no thread before it
is accepted, nor while the listener makes one for it (`Once`), and that the counter is the cardinality of the
set of those who hold a place (`Counted`): the lemmas `Taken` and `Returned` show that each step that writes the counter
moves one client into that set or out of it.

It proves of the other services, which share no state with it nor with each other:

- `CodeFreshHolds` (`Locale`), for any readers, languages and choices, from `LocaleAssumption`. `Following` says of each
  lookup that what it has found is what it would find now, unless a clear is due, or was made and has marked it;
- `NameSettlesHolds` (`Locale`). `NameInv`: the buffer holds nothing, the system's name, which some reader is then about to convert,
  or what it converts to; converting twice is converting once (`ConvertedForm`), so it does not matter how many do. That the table's languages
  get their names on Unix rests on `FloorFinds`: for a sorted table of any length, the bisection ends at the last entry that is not after the tag, by induction on the
  length of the range that is left; and on `TableSorted`: the table is sorted in the order of `strcmp`, with the tags turned into numbers
  (`BeforeByKey`);
- `DirReadyHolds` (`ConfigDir`), for any number of deaths and failures, from `ConfigDirAssumption`; that assumes a process, since without one nothing creates what the property finds.
  `ConfigInv` follows each process along the path: what it has been through is there (`Made`), its owner is the user's as long as no root process has had a part of it
  (`Alone`), and what each step resolves the socket to depends on the place and the length only (`Resolved`);
- `CellsWholeHolds` (`CellTemperature`), for any number of cells and shifts. `OneFamily`: at each step of a reading the values so far are of
  one family and fewer than the cells, or the reading is over and they are as many;
- `LatestServedHolds` (`TemperaturePage`). `PageInv` orders the values: those shown, those the queue has read at each
  of its steps (`ReadBefore`), those that were there when a refresh was last asked for, and the current ones; a refresh asked for in flight is pending.

- `ReportExactHolds` (`Statistics`), for any history, window and sessions, from `StatisticsAssumption`. The property compares a finished report with
  sets of seconds, so the invariant `StatisticsInv` (`StatisticsInvariance`) says it of the unfinished one. `DwellInv`: the pairs this pass has sliced
  answer for the seconds counted, in all and in every bin (`CountedIn`), and span no second from `coveredEnd` on, which is
  no later than the end of one of them (`CoveredIn`); as the pairs are ordered by their start, the next one then answers
  for exactly the seconds of its slice (`NextOwned`), also where it lies inside one before. That a slice adds to each bin the number of its seconds
  there (`SpentCounted`) rests on: cutting keeps the splits in order and makes one at each instant in between where the value meets an edge
  (`SplitInserted`, `SplitsAtEdges`, over any number of edges); a value is at an edge at one instant only and moves evenly around it
  (`InstantMeets`), so that no piece passes an edge and each second of it is on the side the middle of the piece is on (`SameSide`, `PieceBins`); and the lengths
  of pieces one after the other add up to a number of seconds (`PiecesCounted`). `SamplesInv`: a sample runs from 20 to 80 percent within its session
  (`RangeFound`), whose pairs lie between its ends (`SessionSpans`), and no session begins before an earlier one has ended; so samples do not overlap. Insertion sorts
  (`AscendingSorted`) and `MedianBetween` bounds the median of every part of a sorted sequence, from which the order of the quartiles follows for an even and
  an odd number of samples (`QuantilesOrdered`).

`BatteryTable_proofs` proves the three properties of the battery table for any states of the hardware, any changes of it and any services that
go between two parts of an update:

- `RefsSafeHolds`, with no assumption. `RefsSafe` counts sections, so the invariant `ListInv` (`ListInvariance`) has to say that none is in the
  list twice: the list is ordered by priority (`Ordered`), no two sections have the same, and a port's reference is counted once if it has a section
  (`Owned`). `Inserted` and `Removed` say what `battery_info_insert_section` and the removal do to the sequence, `AddedKeeps` that an insertion
  finds its place, which `LeastOf` shows to exist.
- `FreshHolds`, with no assumption. That an update leaves what it would leave in a new section says nothing of the next update, so the invariant
  `RowsInv` (`RowsInvariance`) says what a row may carry from one update to the next: who hid it, and, for a row of text,
  a buffer, never a value the next update would show (`RowTrue`); and that the rows no update names (`Skipped`: a misspelt name and two without a source) are as in
  a new section (`Kept`), but for a gauge that has lost its controller, which hides all. For each list of operations the
  module shows that its operations suit their rows (`Fits`), that it names every row of its section but those (`Reaches`), and that it leaves those alone (`Skips`).
  `ApplySame` then says that two starts agree on a row once an operation has named it, by induction on the number of operations that are left: the cursor of
  `_impl_set_item_find_item` moves alike in both.
- `SocTrueHolds`, from `DevicesAssumption`, which speaks only of devices whose charge is known, that is, of what their gauge says of it: the charge is
  no more than the capacity, the capacities of all cells fit the 16 bits of `get_capacity`, the attribute of `B0RM` tells its byte order, and on a gauge without that attribute the raw value lies more than 10% over the design capacity exactly
  when its bytes are reversed. What the property says of them rests on `ChargeRead` (the charge in either order, `SwapTwice`), `PercentScaled` (counting cells
  changes no percentage) and `PackedClose` (what the row's float keeps of it); `ApplyLast` and `SocOnce` say that no later operation
  touches the row, and `HardwareInvariance` that the controller is there whenever it is connected.

`WorkerCall_proofs` proves `OwnAnswersHolds` and `TuneDoneHolds`, for any values, tunes and deaths of the app and the
worker, from `ValuesAssumption` and `TunesAssumption`. The invariants compare the ends only between calls, so the inductive one
(`WorkerInvariance`) has to follow every byte. It claims nothing once the app is gone; until then `Inside` holds:

- `InConversation`: what the two pipes hold for each place of the app and the worker: nothing (`AtRest`), the command without its
  argument (`Asking`), a command on its way (`Unheard`, `Heard`), an answer of one or two bytes (`Acknowledged`, `Replied`,
  `Reading`) that is what the call is owed (`Prepared` before it is sent, `Honest` after);
- `Living`: the worker is dead in the middle of a call only if it died during that call;
- `Stocked`: what is stored is what the app was told, but for the preferences it is in doubt about and the one it is setting.

`PowerEvents_proofs` proves `SpinnerBackedHolds`, `ShownFreshHolds` and `QuietOnceSuspendedHolds`, with no assumption on the
bounds. The inductive invariant `PowerInv` (`PowerInvariance`) is the shape of the variables and `SpinnerBacked` with

- `Orders`: a block in the power queue that suspends, resumes or ends the monitor is the only one of its kind, and the main thread waits for it;
- `Lifted`: where the main thread is on the way to the background and back, and when the refreshes are suspended;
- `Counted`: every stay in the foreground has two generations, so that a refresh is known by its generation to be of this stay;
- `Silent`: while the app counts on silence the monitor is suspended or ended.

Every invariant and every safety property of a step that a passing run checks is thus a theorem. Only model-checked: liveness, which is beyond the prover
(`PendingCloses`, `Settles`, `CallEnds`, `OrphanEnds`, `MainReturns`, `IdleEnds`, `LogReturns`), and what the two runs that find a violation show. The library's induction theorems
take an operator and cannot be used here; where a proof needs induction over numbers it is done over a set of naturals (`NatSetInduction`, `LeastOf`), which is enough for
`FloorFinds`, `StatesExist`, `ApplySame`, `ApplyLast`, and for what the statistics do step by step: sums, cuts, crossings and the sort
(`SumDef`, `SplitsAtEdges`, `PiecesCounted`, `RangeFound`, `AscendingSorted`). A recursive function is first shown to exist (`SumsExist`, `StepsExist`), since what `CHOOSE`
yields has a property only if something has.

## Not modelled

- Trust store, evaluator and official policy; quarantine and import; the extension registry; the metric service
  and the history service: stateful, within reach, and next (below).
- Package inspection, the image loader, discovery: pure checks, or I/O whose outcomes `PluginStartup`
  and `PluginAppData` take as choices.
- The history database reader, card layout: arithmetic on floating point and lists without interaction.
- Fans, device boards, brightness, the raw sensor readers, self-check: one call into a system service each, no state kept.
- View code, alerts, logging and the formatting of values.

## Plan

1. Done: `PluginAppData`, `PluginInstall`, `PluginStartup`, `DaemonRunFile`, `ChargeControl`, `ControlServer`,
   `WorkerCall`, `PowerMonitor`, `PowerEvents`, `Smc`, `Accessory`, `BatteryTable`, the five services, and the theorems above.
2. `PluginTrust`: approvals, revocation, release floor, policy sequence; an invariant that activated releases
   never go back across activations, crashes and policy updates.
3. `MetricService`, `HistoryService`: generations, cancellations, wipe; liveness of a restart.
4. `PluginQuarantine` and the registry.
5. Proofs of what 2 to 4 add.
