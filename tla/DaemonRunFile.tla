---------------------------- MODULE DaemonRunFile ----------------------------
(***************************************************************************)
(* The charging-limit daemon runs once: daemon_main replaces a stale       *)
(* daemon.run, publishes its own and serves a control socket until it is   *)
(* stopped; the app removes the run file of a daemon it found dead.        *)
(*                                                                         *)
(* Any number of launches compete.  Each makes one inode, named here by    *)
(* the launch, which it locks for its lifetime and links at daemon.run.    *)
(* Locks are POSIX record locks: they belong to a process and vanish when  *)
(* it dies or closes the file.  Every system call on a shared object is a  *)
(* step of its own.                                                        *)
(*                                                                         *)
(* A daemon stops in whichever thread decides to: main, which runs         *)
(* daemon_main; power, which runs powerevent_listener; client, which runs  *)
(* daemon_control_thread.  The others keep running until the process ends. *)
(***************************************************************************)
EXTENDS Naturals, FiniteSets

CONSTANTS
  Procs,      \* launches of the daemon, each a process
  Earlier,    \* the last launch of an earlier session
  MaxFaults,  \* bound on crashes, failures, taken numbers and deletions of the settings
  None

ASSUME NoneAssumption == None \notin Procs
ASSUME EarlierAssumption == Earlier \in Procs
ASSUME FaultAssumption == MaxFaults \in Nat

Threads == {"main", "power", "client"}

VARIABLES
  run,       \* the inode linked at daemon.run, or None
  record,    \* what each inode says: "none", "pid" or "stopping"
  lock,      \* the process that holds the write lock on each inode
  pc,        \* the main thread of each process
  old,       \* the inode a launch opened as existing_runfd
  runFd,     \* daemon_run_fd is set
  stop,      \* cleanup_daemon_files in each thread of each process
  socket,    \* the process whose node is at the socket path, or None
  settings,  \* daemon_settings exists
  app,       \* the app's removal of a stale run file
  taken,     \* dead launches whose number still answers kill(pid, 0)
  faults,
  \* History, for the properties:
  lone,      \* the launch nothing else has run beside since it began
  doubled,   \* two threads of one process cleaned up with the same descriptor
  strayed,   \* a main thread went for the socket after its process began to stop
  released   \* the app lost its lock while it was removing a stale run file

process == <<pc, old, runFd, stop>>
files   == <<run, record, lock, socket, settings>>
history == <<lone, doubled, strayed, released>>
vars    == <<files, process, app, taken, faults, history>>

-----------------------------------------------------------------------------
Launching == {"open", "lock", "check", "compare", "remove", "link"}
Running   == {"tidy", "settings", "event", "socket", "bind", "permit", "listen",
              "serving", "drain"}
Cleaning  == {"mark", "compare", "remove", "wipe", "close", "exit"}

Cleanup == [at : {"no"} \cup Cleaning, fd : BOOLEAN, wipe : BOOLEAN]
NoCleanup == [at |-> "no", fd |-> FALSE, wipe |-> FALSE]
App == [at : {"idle", "open", "lock", "match", "remove"}, inode : Procs \cup {None},
        expected : Procs \cup {None}, locked : BOOLEAN]
AppIdle == [at |-> "idle", inode |-> None, expected |-> None, locked |-> FALSE]

\* What the earlier daemon left depends on how far its cleanup got.
Init ==
  /\ run \in {None, Earlier} /\ socket \in {None, Earlier}
  /\ \E left \in {"pid", "stopping"} :
       record = [p \in Procs |-> IF p = Earlier THEN left ELSE "none"]
  /\ lock = [p \in Procs |-> None]
  /\ settings \in BOOLEAN
  /\ pc = [p \in Procs |-> IF p = Earlier THEN "dead" ELSE "unborn"]
  /\ old = [p \in Procs |-> None]
  /\ runFd = [p \in Procs |-> FALSE]
  /\ stop = [p \in Procs |-> [t \in Threads |-> NoCleanup]]
  /\ app = AppIdle
  /\ taken = {} /\ faults = 0
  /\ lone = None /\ doubled = FALSE /\ strayed = FALSE /\ released = FALSE

Alive(p) == pc[p] \notin {"unborn", "dead"}
Stopping(p) == \E t \in Threads : stop[p][t].at # "no"
Exists(p) == Alive(p) \/ p \in taken        \* kill(pid, 0) does not say ESRCH
AppReads(i) == app.locked /\ app.inode = i

Goto(p, step) == pc' = [pc EXCEPT ![p] = step]

\* The process ends: its threads stop, its descriptors are closed, its locks go.
Ends(p) ==
  /\ Goto(p, "dead")
  /\ lock' = [i \in Procs |-> IF lock[i] = p THEN None ELSE lock[i]]
  /\ old' = [old EXCEPT ![p] = None]
  /\ runFd' = [runFd EXCEPT ![p] = FALSE]
  /\ stop' = [stop EXCEPT ![p] = [t \in Threads |-> NoCleanup]]

-----------------------------------------------------------------------------
(* daemon_main: replacing a stale run file.                                *)

Launch(p) ==
  /\ pc[p] = "unborn"
  /\ Goto(p, "open")
  /\ lone' = IF app = AppIdle /\ \A q \in Procs : ~Alive(q) THEN p ELSE None
  /\ UNCHANGED <<files, old, runFd, stop, app, taken, faults, doubled, strayed, released>>

OpenOld(p) ==
  /\ pc[p] = "open"
  /\ old' = [old EXCEPT ![p] = run]
  /\ Goto(p, IF run = None THEN "link" ELSE "lock")
  /\ UNCHANGED <<files, runFd, stop, app, taken, faults, history>>

\* F_SETLK does not wait: whoever holds a lock is taken for a running daemon.
LockOld(p) ==
  /\ pc[p] = "lock"
  /\ IF lock[old[p]] = None /\ ~AppReads(old[p])
     THEN /\ lock' = [lock EXCEPT ![old[p]] = p]
          /\ Goto(p, "check")
          /\ UNCHANGED <<old, runFd, stop>>
     ELSE Ends(p)
  /\ UNCHANGED <<run, record, socket, settings, app, taken, faults, history>>

\* Deliberate fault: a record that names no process is left alone.
CheckLeavesMalformed(p) ==
  /\ pc[p] = "check"
  /\ IF record[old[p]] = "pid" /\ ~Exists(old[p])
     THEN Goto(p, "compare") /\ UNCHANGED <<lock, old, runFd, stop>>
     ELSE Ends(p)
  /\ UNCHANGED <<run, record, socket, settings, app, taken, faults, history>>

\* Nobody holds the file: it is stale unless the process it names still exists.
CheckOld(p) ==
  /\ pc[p] = "check"
  /\ IF record[old[p]] = "pid" /\ Exists(old[p])
     THEN Ends(p)
     ELSE Goto(p, "compare") /\ UNCHANGED <<lock, old, runFd, stop>>
  /\ UNCHANGED <<run, record, socket, settings, app, taken, faults, history>>

\* Deliberate fault: unlinks the pathname whatever inode it names by now.
CompareNothing(p) ==
  /\ pc[p] = "compare"
  /\ Goto(p, "remove")
  /\ UNCHANGED <<files, old, runFd, stop, app, taken, faults, history>>

\* daemon_unlink_locked_run_path: only the inode that is locked, and an absent
\* pathname will do.
CompareOld(p) ==
  /\ pc[p] = "compare"
  /\ IF run \notin {None, old[p]}
     THEN Ends(p)
     ELSE /\ Goto(p, IF run = None THEN "link" ELSE "remove")
          /\ UNCHANGED <<lock, old, runFd, stop>>
  /\ UNCHANGED <<run, record, socket, settings, app, taken, faults, history>>

RemoveOld(p) ==
  /\ pc[p] = "remove"
  /\ run' = None
  /\ Goto(p, "link")
  /\ UNCHANGED <<record, lock, socket, settings, old, runFd, stop, app, taken, faults, history>>

\* Deliberate fault: a rename, which replaces whatever is there.
LinkByRename(p) ==
  /\ pc[p] = "link"
  /\ run' = p
  /\ record' = [record EXCEPT ![p] = "pid"]
  /\ lock' = [lock EXCEPT ![p] = p]
  /\ Goto(p, "tidy")
  /\ UNCHANGED <<socket, settings, old, runFd, stop, app, taken, faults, history>>

\* A private inode is locked, filled and linked, which refuses an existing name.
Link(p) ==
  /\ pc[p] = "link"
  /\ IF run = None
     THEN /\ run' = p
          /\ record' = [record EXCEPT ![p] = "pid"]
          /\ lock' = [lock EXCEPT ![p] = p]
          /\ Goto(p, "tidy")
          /\ UNCHANGED <<old, runFd, stop>>
     ELSE Ends(p) /\ UNCHANGED <<run, record>>
  /\ UNCHANGED <<socket, settings, app, taken, faults, history>>

\* The temporary name goes, then the lock on the old inode, and the daemon holds
\* its descriptor for life ...
Tidy(p) ==
  /\ pc[p] = "tidy"
  /\ lock' = [i \in Procs |-> IF i = old[p] THEN None ELSE lock[i]]
  /\ old' = [old EXCEPT ![p] = None]
  /\ runFd' = [runFd EXCEPT ![p] = TRUE]
  /\ Goto(p, "settings")
  /\ UNCHANGED <<run, record, socket, settings, stop, app, taken, faults, history>>

\* ... or the temporary name cannot be removed, and daemon.run is given up.
TidyFails(p) ==
  /\ pc[p] = "tidy" /\ faults < MaxFaults
  /\ faults' = faults + 1
  /\ run' = IF run = p THEN None ELSE run
  /\ Ends(p)
  /\ UNCHANGED <<record, socket, settings, app, taken, history>>

-----------------------------------------------------------------------------
(* cleanup_daemon_files in a thread.                                       *)

\* daemon_run_fd is read here and cleared in the next step, without a lock.
Enter(p, t, wipe) ==
  /\ stop[p][t].at = "no"
  /\ stop' = [stop EXCEPT ![p][t] = [at |-> "mark", fd |-> runFd[p], wipe |-> wipe]]
  /\ doubled' = (doubled \/ (runFd[p] /\ \E u \in Threads \ {t} : stop[p][u].fd))

Continue(p, t, step) == stop' = [stop EXCEPT ![p][t].at = step]
HoldsRunFile(p, t) == stop[p][t].fd /\ lock[p] = p

\* What is left once daemon.run is dealt with.
LastSteps(p, t) == IF stop[p][t].wipe THEN "wipe" ELSE "close"

MarkStopping(p, t) ==
  /\ stop[p][t].at = "mark"
  /\ runFd' = [runFd EXCEPT ![p] = FALSE]
  /\ IF HoldsRunFile(p, t)
     THEN record' = [record EXCEPT ![p] = "stopping"] /\ Continue(p, t, "compare")
     ELSE UNCHANGED record /\ Continue(p, t, LastSteps(p, t))
  /\ UNCHANGED <<run, lock, socket, settings, pc, old, app, taken, faults, history>>

StopCompare(p, t) ==
  /\ stop[p][t].at = "compare"
  /\ Continue(p, t, IF HoldsRunFile(p, t) /\ run = p THEN "remove" ELSE LastSteps(p, t))
  /\ UNCHANGED <<files, pc, old, runFd, app, taken, faults, history>>

StopRemove(p, t) ==
  /\ stop[p][t].at = "remove"
  /\ run' = None
  /\ Continue(p, t, LastSteps(p, t))
  /\ UNCHANGED <<record, lock, socket, settings, pc, old, runFd, app, taken, faults, history>>

\* Deliberate fault: takes the socket node away as well.
WipeSocket(p, t) ==
  /\ stop[p][t].at = "wipe"
  /\ settings' = FALSE
  /\ socket' = None
  /\ Continue(p, t, "close")
  /\ UNCHANGED <<run, record, lock, pc, old, runFd, app, taken, faults, history>>

WipeSettings(p, t) ==
  /\ stop[p][t].at = "wipe"
  /\ settings' = FALSE
  /\ Continue(p, t, "close")
  /\ UNCHANGED <<run, record, lock, socket, pc, old, runFd, app, taken, faults, history>>

CloseRunFile(p, t) ==
  /\ stop[p][t].at = "close"
  /\ lock' = IF HoldsRunFile(p, t) THEN [lock EXCEPT ![p] = None] ELSE lock
  /\ Continue(p, t, "exit")
  /\ UNCHANGED <<run, record, socket, settings, pc, old, runFd, app, taken, faults, history>>

\* exit runs the destructor that drains the power queue.
Exit(p, t) ==
  /\ stop[p][t].at = "exit"
  /\ stop[p]["power"].at \in {"no", "exit"}
  /\ Ends(p)
  /\ UNCHANGED <<run, record, socket, settings, app, taken, faults, history>>

-----------------------------------------------------------------------------
(* daemon_main: serving.                                                   *)

MainStops(p, wipe, step) == Enter(p, "main", wipe) /\ Goto(p, step)
MainGoes(p, step) == Goto(p, step) /\ UNCHANGED <<stop, doubled>>

\* The settings may be missing or invalid, the SMC unavailable.
Configure(p) ==
  /\ pc[p] = "settings"
  /\ \/ settings /\ MainGoes(p, "event")
     \/ MainStops(p, FALSE, "quit")
  /\ UNCHANGED <<files, old, runFd, app, taken, faults, lone, strayed, released>>

\* The power thread listens from here on; main applies the policy once itself.
InitialEvent(p) ==
  /\ pc[p] = "event"
  /\ IF settings THEN MainGoes(p, "socket") ELSE MainStops(p, TRUE, "leave")
  /\ UNCHANGED <<files, old, runFd, app, taken, faults, lone, strayed, released>>

RemoveStaleSocket(p) ==
  /\ pc[p] = "socket"
  /\ socket' = None
  /\ strayed' = (strayed \/ Stopping(p))
  /\ Goto(p, "bind")
  /\ UNCHANGED <<run, record, lock, settings, old, runFd, stop, app, taken, faults, lone, doubled, released>>

Bind(p) ==
  /\ pc[p] = "bind"
  /\ IF socket = None
     THEN socket' = p /\ MainGoes(p, "permit")
     ELSE UNCHANGED socket /\ MainGoes(p, "drain")
  /\ UNCHANGED <<run, record, lock, settings, old, runFd, app, taken, faults, lone, strayed, released>>

\* The bound path gets its group and mode, provided it still names this node throughout.
Permit(p) ==
  /\ pc[p] = "permit"
  /\ IF socket = p THEN MainGoes(p, "listen") ELSE MainGoes(p, "drain")
  /\ UNCHANGED <<files, old, runFd, app, taken, faults, lone, strayed, released>>

\* The path is looked at once more before the first client is accepted.
Listen(p) ==
  /\ pc[p] = "listen"
  /\ IF socket = p THEN MainGoes(p, "serving") ELSE MainGoes(p, "drain")
  /\ UNCHANGED <<files, old, runFd, app, taken, faults, lone, strayed, released>>

\* The node cannot be removed, made, given to its group or listened on.
SetupFails(p) ==
  /\ pc[p] \in {"socket", "bind", "permit", "listen"} /\ faults < MaxFaults
  /\ faults' = faults + 1
  /\ Goto(p, "drain")
  /\ UNCHANGED <<files, old, runFd, stop, app, taken, history>>

\* Without a control thread main waits for the power thread and cleans up.
Drain(p) ==
  /\ pc[p] = "drain" /\ stop[p]["power"].at = "no"
  /\ MainStops(p, FALSE, "quit")
  /\ UNCHANGED <<files, old, runFd, app, taken, faults, lone, strayed, released>>

\* Command 3: charging is restored, the settings stay.
ClientStops(p) ==
  /\ pc[p] = "serving"
  /\ Enter(p, "client", FALSE)
  /\ UNCHANGED <<files, pc, old, runFd, app, taken, faults, lone, strayed, released>>

\* A battery event finds the settings gone.
PowerStops(p) ==
  /\ pc[p] \in (Running \ {"tidy", "settings"}) \cup {"leave"} /\ ~settings
  /\ Enter(p, "power", TRUE)
  /\ UNCHANGED <<files, pc, old, runFd, app, taken, faults, lone, strayed, released>>

-----------------------------------------------------------------------------
(* The app: CLRemoveStaleDaemonArtifacts.                                  *)

\* A daemon it read of, or spawned, no longer answers.
AppFindsDead(p) ==
  /\ app = AppIdle /\ pc[p] = "dead" /\ ~Exists(p)
  /\ app' = [AppIdle EXCEPT !.at = "open", !.expected = p]
  /\ lone' = None
  /\ UNCHANGED <<files, process, taken, faults, doubled, strayed, released>>

AppOpens ==
  /\ app.at = "open"
  /\ app' = IF run = None THEN AppIdle
            ELSE [app EXCEPT !.at = "lock", !.inode = run]
  /\ UNCHANGED <<files, process, taken, faults, history>>

AppLocks ==
  /\ app.at = "lock"
  /\ app' = IF lock[app.inode] = None THEN [app EXCEPT !.at = "match", !.locked = TRUE] ELSE AppIdle
  /\ UNCHANGED <<files, process, taken, faults, history>>

AppMatches ==
  /\ app.at = "match"
  /\ app' = IF record[app.inode] = "pid" /\ app.inode = app.expected /\ run = app.inode
            THEN [app EXCEPT !.at = "remove"] ELSE AppIdle
  /\ UNCHANGED <<files, process, taken, faults, history>>

AppRemoves ==
  /\ app.at = "remove"
  /\ run' = None
  /\ app' = AppIdle
  /\ UNCHANGED <<record, lock, socket, settings, process, taken, faults, history>>

\* Another part of the app, the charging page or the metrics, reads daemon.run and
\* closes it, which drops every lock the app's process has on that inode.
AppReadsElsewhere ==
  /\ app.locked /\ app.inode = run
  /\ app' = [app EXCEPT !.locked = FALSE]
  /\ released' = TRUE
  /\ UNCHANGED <<files, process, taken, faults, lone, doubled, strayed>>

\* The limit page creates the settings; the user may delete them.
AppCreatesSettings ==
  /\ ~settings /\ settings' = TRUE
  /\ UNCHANGED <<run, record, lock, socket, process, app, taken, faults, history>>

SettingsDeleted ==
  /\ settings /\ settings' = FALSE
  /\ faults < MaxFaults /\ faults' = faults + 1
  /\ UNCHANGED <<run, record, lock, socket, process, app, taken, history>>

-----------------------------------------------------------------------------
(* The system.                                                             *)

Crash(p) ==
  /\ Alive(p) /\ faults < MaxFaults
  /\ faults' = faults + 1
  /\ Ends(p)
  /\ UNCHANGED <<run, record, socket, settings, app, taken, history>>

\* The app, its parent, does not wait for a dead daemon, or another process has
\* got its number.
NumberTaken(p) ==
  /\ pc[p] = "dead" /\ p \notin taken /\ faults < MaxFaults
  /\ faults' = faults + 1
  /\ taken' = taken \cup {p}
  /\ UNCHANGED <<files, process, app, history>>

NumberFreed(p) ==
  /\ p \in taken
  /\ taken' = taken \ {p}
  /\ UNCHANGED <<files, process, app, faults, history>>

-----------------------------------------------------------------------------
LaunchStep(p) ==
  \/ Launch(p) \/ OpenOld(p) \/ LockOld(p) \/ CheckOld(p) \/ CompareOld(p)
  \/ RemoveOld(p) \/ Link(p) \/ Tidy(p) \/ TidyFails(p)

ServeStep(p) ==
  \/ Configure(p) \/ InitialEvent(p) \/ RemoveStaleSocket(p) \/ Bind(p)
  \/ Permit(p) \/ Listen(p)
  \/ SetupFails(p) \/ Drain(p) \/ ClientStops(p) \/ PowerStops(p)

StopStep(p, t) ==
  \/ MarkStopping(p, t) \/ StopCompare(p, t) \/ StopRemove(p, t)
  \/ WipeSettings(p, t) \/ CloseRunFile(p, t) \/ Exit(p, t)

AppStep ==
  \/ \E p \in Procs : AppFindsDead(p)
  \/ AppOpens \/ AppLocks \/ AppMatches \/ AppRemoves \/ AppReadsElsewhere
  \/ AppCreatesSettings \/ SettingsDeleted

Next ==
  \/ \E p \in Procs : LaunchStep(p) \/ ServeStep(p)
  \/ \E p \in Procs, t \in Threads : StopStep(p, t)
  \/ AppStep
  \/ \E p \in Procs : Crash(p) \/ NumberTaken(p) \/ NumberFreed(p)

Spec == Init /\ [][Next]_vars

-----------------------------------------------------------------------------
(* Properties.                                                             *)

\* Every variable has its shape.
TypeOK ==
  /\ run \in Procs \cup {None} /\ socket \in Procs \cup {None}
  /\ record \in [Procs -> {"none", "pid", "stopping"}]
  /\ lock \in [Procs -> Procs \cup {None}]
  /\ pc \in [Procs -> {"unborn", "quit", "leave", "dead"} \cup Launching \cup Running]
  /\ old \in [Procs -> Procs \cup {None}]
  /\ runFd \in [Procs -> BOOLEAN]
  /\ stop \in [Procs -> [Threads -> Cleanup]]
  /\ settings \in BOOLEAN
  /\ app \in App
  /\ taken \subseteq Procs
  /\ faults \in 0..MaxFaults
  /\ lone \in Procs \cup {None} /\ {doubled, strayed, released} \subseteq BOOLEAN

\* A daemon in office: published, and no thread of it has begun to stop.
InOffice(p) == pc[p] \in Running /\ ~Stopping(p)

\* Nothing has defeated the locks: neither a second cleanup in the same process nor
\* another reader in the app's.
LocksHeld == ~doubled /\ ~released

\* At most one daemon is in office.
OneDaemon == LocksHeld => \A p, q \in Procs : InOffice(p) /\ InOffice(q) => p = q

\* daemon.run names the daemon in office: no launch, no stopping daemon and no app
\* that took an older one for stale removes it.
RunFileKept == LocksHeld => \A p \in Procs : InOffice(p) => run = p

\* The socket path leads to the daemon that serves, unless one that was already
\* stopping went on to set up its own.
SocketKept ==
  LocksHeld /\ ~strayed => \A p \in Procs : pc[p] = "serving" /\ InOffice(p) => socket = p

\* A launch that gives up before it has published.
GivesUp(p) == pc[p] \in Launching /\ pc'[p] = "dead" /\ faults' = faults

\* A launch that runs alone takes office, whatever earlier daemons left behind at
\* any point of their lives, unless the number of a dead one is taken.
LoneLaunchStarts == [][\A p \in Procs : GivesUp(p) => lone # p \/ old[p] \in taken]_vars
=============================================================================
