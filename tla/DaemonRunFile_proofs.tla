------------------------ MODULE DaemonRunFile_proofs ------------------------
(***************************************************************************)
(* Theorems about DaemonRunFile, for any number of launches, of crashes    *)
(* and of removals by the app.                                             *)
(***************************************************************************)
EXTENDS DaemonRunFile, TLAPS

-----------------------------------------------------------------------------
(* The inductive invariant.                                                *)

\* The inode of a launch has been at daemon.run, or may have been.
Published(i) == pc[i] \notin {"unborn"} \cup Launching

\* Only published inodes are linked or open; the app takes only a dead daemon for stale.
Names ==
  /\ run # None => Published(run)
  /\ app.inode # None => Published(app.inode)
  /\ app.expected # None => pc[app.expected] = "dead"
  /\ \A p \in Procs : old[p] # None => Published(old[p])

\* A process stops only once it has its descriptor, and nothing is left of it when it is dead.
Fresh ==
  \A p \in Procs : pc[p] \in {"unborn", "tidy", "dead"} \cup Launching
    => ~runFd[p] /\ \A t \in Threads : stop[p][t] = NoCleanup

\* A process that has not locked anything, or is dead, has no locks.
Holders ==
  \A p \in Procs : pc[p] \in {"unborn", "open", "lock", "dead"} => \A i \in Procs : lock[i] # p

\* A launch keeps the old inode locked from its check to its own publication.
OldHeld ==
  \A p \in Procs :
    /\ old[p] # p
    /\ pc[p] = "lock" => old[p] # None
    /\ pc[p] \in {"check", "compare", "remove"} => old[p] # None /\ lock[old[p]] = p
    /\ pc[p] \in {"link", "tidy"} => old[p] = None \/ lock[old[p]] = p

\* A daemon with a descriptor has its own inode locked; one in office has a descriptor.
Owning ==
  \A p \in Procs :
    /\ pc[p] = "tidy" \/ runFd[p] => lock[p] = p
    /\ InOffice(p) /\ pc[p] # "tidy" => runFd[p]

\* What a cleaning thread has: the descriptor is cleared before it is used.
Cleaners ==
  \A p \in Procs : \A t \in Threads :
    /\ stop[p][t].at = "no" => ~stop[p][t].fd
    /\ stop[p][t].fd /\ stop[p][t].at # "mark" => ~runFd[p]
    /\ stop[p][t].at \in {"compare", "remove"} => stop[p][t].fd

\* Without a second cleanup the descriptor is one thread's, and with it the lock until the end;
\* what that thread removes is its own.
OneCleaner ==
  \A p \in Procs : \A t \in Threads :
    /\ \A u \in Threads : stop[p][t].fd /\ stop[p][u].fd => t = u
    /\ stop[p][t].fd /\ stop[p][t].at # "exit" => lock[p] = p
    /\ stop[p][t].at = "remove" => run = p

\* A launch removes what it has locked.
Removing == \A p \in Procs : pc[p] = "remove" => run = old[p]

\* No process has a lock on the inode the app has locked.
AppLock ==
  /\ app.at \in {"lock", "match", "remove"} => app.inode # None
  /\ app.locked => app.at \in {"match", "remove"} /\ lock[app.inode] = None

\* The app removes what it has locked, and that is the inode of a dead daemon.
AppRemoval ==
  /\ app.at \in {"match", "remove"} => app.locked
  /\ app.at = "remove" => run = app.inode /\ app.inode = app.expected

Locks == Names /\ Fresh /\ Holders /\ OldHeld /\ Owning /\ Cleaners /\ AppLock

\* daemon.run is the inode of the daemon in office.
Office == \A p \in Procs : InOffice(p) => run = p

\* What daemon.run is to whoever relies on it, as long as nothing has defeated the locks.
Claims == OneCleaner /\ Removing /\ AppRemoval /\ Office

Guarded == LocksHeld => Claims

\* Nothing runs beside the lone launch, so daemon.run is as it found it.
Lone ==
  \A p \in Procs : lone = p /\ pc[p] # "dead" =>
    /\ app = AppIdle
    /\ \A q \in Procs \ {p} : ~Alive(q)
    /\ pc[p] \in {"lock", "check", "compare", "remove"} => run = old[p]
    /\ pc[p] = "link" => run = None

RunFileInv == TypeOK /\ Locks /\ Guarded /\ SocketKept /\ Lone

-----------------------------------------------------------------------------
(* Type correctness.                                                       *)

PcValues == {"unborn", "quit", "leave", "dead"} \cup Launching \cup Running

\* The initial state has the shape.
LEMMA TypeInit == Init => TypeOK
<1> SUFFICES ASSUME Init PROVE TypeOK
  OBVIOUS
<1>1. NoCleanup \in Cleanup /\ AppIdle \in App
  BY DEF NoCleanup, Cleanup, AppIdle, App
<1>2. stop \in [Procs -> [Threads -> Cleanup]]
  BY <1>1 DEF Init
<1>3. faults \in 0..MaxFaults
  BY FaultAssumption DEF Init
<1>4. record \in [Procs -> {"none", "pid", "stopping"}]
  BY DEF Init
<1> QED
  BY <1>1, <1>2, <1>3, <1>4, EarlierAssumption DEF Init, TypeOK

\* A process that ends keeps the shapes of what it leaves.
LEMMA EndsType ==
  ASSUME TypeOK, NEW p \in Procs, Ends(p)
  PROVE  /\ pc' \in [Procs -> PcValues]
         /\ lock' \in [Procs -> Procs \cup {None}]
         /\ old' \in [Procs -> Procs \cup {None}]
         /\ runFd' \in [Procs -> BOOLEAN]
         /\ stop' \in [Procs -> [Threads -> Cleanup]]
<1>1. NoCleanup \in Cleanup
  BY DEF NoCleanup, Cleanup
<1>2. [t \in Threads |-> NoCleanup] \in [Threads -> Cleanup]
  BY <1>1
<1> QED
  BY <1>2 DEF TypeOK, Ends, Goto, PcValues

\* So does a thread that begins or goes on to clean up.
LEMMA EnterType ==
  ASSUME TypeOK, NEW p \in Procs, NEW t \in Threads, NEW wipe \in BOOLEAN, Enter(p, t, wipe)
  PROVE  stop' \in [Procs -> [Threads -> Cleanup]] /\ doubled' \in BOOLEAN
<1>1. [at |-> "mark", fd |-> runFd[p], wipe |-> wipe] \in Cleanup
  BY DEF TypeOK, Cleanup, Cleaning
<1> QED
  BY <1>1 DEF TypeOK, Enter

LEMMA ContinueType ==
  ASSUME TypeOK, NEW p \in Procs, NEW t \in Threads, NEW step \in Cleaning,
         Continue(p, t, step)
  PROVE  stop' \in [Procs -> [Threads -> Cleanup]]
<1>1. stop[p][t] \in Cleanup
  BY DEF TypeOK
<1>2. [stop[p][t] EXCEPT !.at = step] \in Cleanup
  BY <1>1 DEF Cleanup
<1> QED
  BY <1>2 DEF TypeOK, Continue

LEMMA LaunchType == ASSUME TypeOK, NEW p \in Procs, LaunchStep(p) PROVE TypeOK'
<1> USE DEF PcValues, Launching, Running, history, files
<1>1. CASE Launch(p)
  BY <1>1 DEF Launch, TypeOK, Goto
<1>2. CASE OpenOld(p)
  BY <1>2 DEF OpenOld, TypeOK, Goto
<1>3. CASE LockOld(p)
  <2>1. CASE Ends(p)
    BY <1>3, <2>1, EndsType DEF LockOld, TypeOK
  <2>2. CASE ~Ends(p)
    BY <1>3, <2>2 DEF LockOld, TypeOK, Goto
  <2> QED
    BY <2>1, <2>2
<1>4. CASE CheckOld(p)
  <2>1. CASE Ends(p)
    BY <1>4, <2>1, EndsType DEF CheckOld, TypeOK
  <2>2. CASE ~Ends(p)
    BY <1>4, <2>2 DEF CheckOld, TypeOK, Goto
  <2> QED
    BY <2>1, <2>2
<1>5. CASE CompareOld(p)
  <2>1. CASE Ends(p)
    BY <1>5, <2>1, EndsType DEF CompareOld, TypeOK
  <2>2. CASE ~Ends(p)
    BY <1>5, <2>2 DEF CompareOld, TypeOK, Goto
  <2> QED
    BY <2>1, <2>2
<1>6. CASE RemoveOld(p)
  BY <1>6 DEF RemoveOld, TypeOK, Goto
<1>7. CASE Link(p)
  <2>1. CASE Ends(p) /\ UNCHANGED <<run, record>>
    BY <1>7, <2>1, EndsType DEF Link, TypeOK
  <2>2. CASE run = None
    BY <1>7, <2>2 DEF Link, TypeOK, Goto
  <2> QED
    BY <1>7, <2>1, <2>2 DEF Link
<1>8. CASE Tidy(p)
  BY <1>8 DEF Tidy, TypeOK, Goto
<1>9. CASE TidyFails(p)
  <2>1. faults' \in 0..MaxFaults
    BY <1>9, FaultAssumption DEF TidyFails, TypeOK
  <2> QED
    BY <1>9, <2>1, EndsType DEF TidyFails, TypeOK
<1> QED
  BY <1>1, <1>2, <1>3, <1>4, <1>5, <1>6, <1>7, <1>8, <1>9 DEF LaunchStep

LEMMA ServeType == ASSUME TypeOK, NEW p \in Procs, ServeStep(p) PROVE TypeOK'
<1> USE DEF PcValues, Launching, Running, history, files
<1>0. /\ "main" \in Threads /\ "client" \in Threads /\ "power" \in Threads
      /\ FALSE \in BOOLEAN /\ TRUE \in BOOLEAN
  BY DEF Threads
<1>1. ASSUME NEW wipe \in BOOLEAN, NEW step \in {"quit", "leave"}, MainStops(p, wipe, step)
      PROVE  /\ stop' \in [Procs -> [Threads -> Cleanup]] /\ doubled' \in BOOLEAN
             /\ pc' \in [Procs -> PcValues]
  <2>1. Enter(p, "main", wipe) /\ Goto(p, step)
    BY <1>1 DEF MainStops
  <2> QED
    BY <1>0, <2>1, EnterType DEF TypeOK, Goto
<1>2. CASE Configure(p)
  BY <1>0, <1>1, <1>2 DEF Configure, TypeOK, MainGoes, Goto
<1>3. CASE InitialEvent(p)
  BY <1>0, <1>1, <1>3 DEF InitialEvent, TypeOK, MainGoes, Goto
<1>4. CASE RemoveStaleSocket(p)
  BY <1>4 DEF RemoveStaleSocket, TypeOK, Goto, Stopping
<1>5. CASE Bind(p) \/ Permit(p) \/ Listen(p)
  BY <1>5 DEF Bind, Permit, Listen, TypeOK, MainGoes, Goto
<1>6. CASE SetupFails(p)
  BY <1>6, FaultAssumption DEF SetupFails, TypeOK, Goto
<1>7. CASE Drain(p)
  BY <1>0, <1>1, <1>7 DEF Drain, TypeOK
<1>8. CASE ClientStops(p)
  BY <1>0, <1>8, EnterType DEF ClientStops, TypeOK
<1>9. CASE PowerStops(p)
  BY <1>0, <1>9, EnterType DEF PowerStops, TypeOK
<1> QED
  BY <1>2, <1>3, <1>4, <1>5, <1>6, <1>7, <1>8, <1>9 DEF ServeStep

LEMMA StopType ==
  ASSUME TypeOK, NEW p \in Procs, NEW t \in Threads, StopStep(p, t) PROVE TypeOK'
<1> USE DEF files, history
<1>1. /\ LastSteps(p, t) \in Cleaning
      /\ {"compare", "remove", "close", "exit"} \subseteq Cleaning
  BY DEF LastSteps, Cleaning
<1>2. CASE MarkStopping(p, t)
  BY <1>1, <1>2, ContinueType DEF MarkStopping, TypeOK
<1>3. CASE StopCompare(p, t)
  BY <1>1, <1>3, ContinueType DEF StopCompare, TypeOK
<1>4. CASE StopRemove(p, t)
  BY <1>1, <1>4, ContinueType DEF StopRemove, TypeOK
<1>5. CASE WipeSettings(p, t)
  BY <1>1, <1>5, ContinueType DEF WipeSettings, TypeOK
<1>6. CASE CloseRunFile(p, t)
  BY <1>1, <1>6, ContinueType DEF CloseRunFile, TypeOK
<1>7. CASE Exit(p, t)
  BY <1>7, EndsType DEF Exit, TypeOK, PcValues
<1> QED
  BY <1>2, <1>3, <1>4, <1>5, <1>6, <1>7 DEF StopStep

LEMMA AppType == ASSUME TypeOK, AppStep PROVE TypeOK'
<1> USE DEF files, process, history
<1>1. AppIdle \in App
  BY DEF AppIdle, App
<1>2. ASSUME NEW p \in Procs, AppFindsDead(p) PROVE TypeOK'
  <2>1. app' \in App
    BY <1>2 DEF AppFindsDead, AppIdle, App
  <2> QED
    BY <1>2, <2>1 DEF AppFindsDead, TypeOK
<1>3. CASE AppOpens \/ AppLocks \/ AppMatches \/ AppRemoves \/ AppReadsElsewhere
  <2>1. CASE AppOpens
    BY <1>1, <2>1 DEF AppOpens, App, TypeOK
  <2>2. CASE AppLocks
    BY <1>1, <2>2 DEF AppLocks, App, TypeOK
  <2>3. CASE AppMatches
    BY <1>1, <2>3 DEF AppMatches, App, TypeOK
  <2>4. CASE AppRemoves
    BY <1>1, <2>4 DEF AppRemoves, TypeOK
  <2>5. CASE AppReadsElsewhere
    BY <2>5 DEF AppReadsElsewhere, App, TypeOK
  <2> QED
    BY <1>3, <2>1, <2>2, <2>3, <2>4, <2>5 DEF AppOpens, AppLocks, AppMatches, AppRemoves, AppReadsElsewhere, TypeOK
<1>4. CASE AppCreatesSettings
  BY <1>4 DEF AppCreatesSettings, TypeOK
<1>5. CASE SettingsDeleted
  <2>1. faults' \in 0..MaxFaults
    BY <1>5, FaultAssumption DEF SettingsDeleted, TypeOK
  <2>2. settings' \in BOOLEAN
    BY <1>5 DEF SettingsDeleted
  <2> QED
    BY <1>5, <2>1, <2>2 DEF SettingsDeleted, TypeOK
<1> QED
  BY <1>2, <1>3, <1>4, <1>5 DEF AppStep

LEMMA TypeStep == TypeOK /\ [Next]_vars => TypeOK'
<1> SUFFICES ASSUME TypeOK, [Next]_vars PROVE TypeOK'
  OBVIOUS
<1> USE DEF files, process, history
<1>1. ASSUME NEW p \in Procs, Crash(p) PROVE TypeOK'
  BY <1>1, EndsType, FaultAssumption DEF Crash, TypeOK, PcValues
<1>2. ASSUME NEW p \in Procs, NumberTaken(p) PROVE TypeOK'
  BY <1>2, FaultAssumption DEF NumberTaken, TypeOK
<1>3. ASSUME NEW p \in Procs, NumberFreed(p) PROVE TypeOK'
  BY <1>3 DEF NumberFreed, TypeOK
<1>4. CASE UNCHANGED vars
  BY <1>4 DEF vars, TypeOK
<1> QED
  BY <1>1, <1>2, <1>3, <1>4, LaunchType, ServeType, StopType, AppType DEF Next

-----------------------------------------------------------------------------
(* What the actions change, point by point.                                *)

Beyond == (Running \ {"tidy"}) \cup {"leave"}

LEMMA EndsEffect ==
  ASSUME TypeOK, NEW p \in Procs, Ends(p)
  PROVE  /\ pc'[p] = "dead" /\ old'[p] = None /\ runFd'[p] = FALSE
         /\ \A t \in Threads : stop'[p][t] = NoCleanup
         /\ \A q \in Procs \ {p} : pc'[q] = pc[q] /\ old'[q] = old[q] /\ runFd'[q] = runFd[q]
                                   /\ stop'[q] = stop[q]
         /\ \A i \in Procs : lock'[i] = IF lock[i] = p THEN None ELSE lock[i]
BY DEF TypeOK, Ends, Goto

LEMMA EnterEffect ==
  ASSUME TypeOK, NEW p \in Procs, NEW t \in Threads, NEW wipe \in BOOLEAN, Enter(p, t, wipe)
  PROVE  /\ stop[p][t].at = "no"
         /\ stop'[p][t] = [at |-> "mark", fd |-> runFd[p], wipe |-> wipe]
         /\ \A u \in Threads \ {t} : stop'[p][u] = stop[p][u]
         /\ \A q \in Procs \ {p} : stop'[q] = stop[q]
BY DEF TypeOK, Enter

LEMMA ContinueEffect ==
  ASSUME TypeOK, NEW p \in Procs, NEW t \in Threads, NEW step \in Cleaning,
         Continue(p, t, step)
  PROVE  /\ stop'[p][t].at = step /\ stop'[p][t].fd = stop[p][t].fd
         /\ \A u \in Threads \ {t} : stop'[p][u] = stop[p][u]
         /\ \A q \in Procs \ {p} : stop'[q] = stop[q]
<1>1. stop[p][t] \in Cleanup
  BY DEF TypeOK
<1>2. /\ [stop[p][t] EXCEPT !.at = step].at = step
      /\ [stop[p][t] EXCEPT !.at = step].fd = stop[p][t].fd
  BY <1>1 DEF Cleanup
<1> QED
  BY <1>2 DEF TypeOK, Continue

\* A daemon that serves keeps its files; it moves on, or one of its threads begins to clean up.
LEMMA ServeEffect ==
  ASSUME TypeOK, NEW p \in Procs, ServeStep(p)
  PROVE  /\ UNCHANGED <<run, lock, old, runFd, app, lone, released>>
         /\ pc[p] \in Beyond /\ pc'[p] \in Beyond \cup {"quit"}
         /\ pc[p] = "leave" => pc'[p] = "leave"
         /\ \A q \in Procs \ {p} : pc'[q] = pc[q]
         /\ \/ stop' = stop /\ doubled' = doubled
            \/ \E t \in Threads, wipe \in BOOLEAN : Enter(p, t, wipe)
<1> USE DEF Beyond, Running, files, history
<1>0. "main" \in Threads /\ "client" \in Threads /\ "power" \in Threads
  BY DEF Threads
<1>1. CASE Configure(p)
  BY <1>0, <1>1 DEF Configure, MainGoes, MainStops, Goto, TypeOK
<1>2. CASE InitialEvent(p)
  BY <1>0, <1>2 DEF InitialEvent, MainGoes, MainStops, Goto, TypeOK
<1>3. CASE RemoveStaleSocket(p)
  BY <1>3 DEF RemoveStaleSocket, Goto, TypeOK
<1>4. CASE Bind(p) \/ Permit(p) \/ Listen(p)
  BY <1>4 DEF Bind, Permit, Listen, MainGoes, Goto, TypeOK
<1>5. CASE SetupFails(p)
  BY <1>5 DEF SetupFails, Goto, TypeOK
<1>6. CASE Drain(p)
  BY <1>0, <1>6 DEF Drain, MainStops, Goto, TypeOK
<1>7. CASE ClientStops(p)
  BY <1>0, <1>7 DEF ClientStops, TypeOK
<1>8. CASE PowerStops(p)
  BY <1>0, <1>8 DEF PowerStops, TypeOK
<1> QED
  BY <1>1, <1>2, <1>3, <1>4, <1>5, <1>6, <1>7, <1>8 DEF ServeStep

-----------------------------------------------------------------------------
(* Locks.                                                                  *)

LEMMA EndsLocks ==
  ASSUME TypeOK, Locks, NEW p \in Procs, Ends(p), UNCHANGED app, run' \in {run, None}
  PROVE  Locks'
<1> USE NoneAssumption
<1>0. /\ pc'[p] = "dead" /\ old'[p] = None /\ runFd'[p] = FALSE
      /\ \A t \in Threads : stop'[p][t] = NoCleanup
      /\ \A q \in Procs \ {p} : pc'[q] = pc[q] /\ old'[q] = old[q] /\ runFd'[q] = runFd[q]
                                /\ stop'[q] = stop[q]
      /\ \A i \in Procs : lock'[i] = IF lock[i] = p THEN None ELSE lock[i]
  BY EndsEffect
<1>1. Names'
  BY <1>0 DEF Locks, Names, Published, TypeOK, App, Launching
<1>2. Fresh'
  BY <1>0 DEF Locks, Fresh
<1>3. Holders'
  BY <1>0 DEF Locks, Holders, TypeOK
<1>4. OldHeld'
  BY <1>0 DEF Locks, OldHeld, TypeOK
<1>5. Owning'
  BY <1>0 DEF Locks, Owning, InOffice, Stopping, Running
<1>6. Cleaners'
  BY <1>0 DEF Locks, Cleaners, NoCleanup
<1>7. AppLock'
  BY <1>0 DEF Locks, AppLock, TypeOK, App
<1> QED
  BY <1>1, <1>2, <1>3, <1>4, <1>5, <1>6, <1>7 DEF Locks

LEMMA LaunchLocks == ASSUME TypeOK, Locks, NEW p \in Procs, LaunchStep(p) PROVE Locks'
<1> USE NoneAssumption DEF Launching, Running, history, files
<1>1. CASE Launch(p)
  <2>1. Names'
    BY <1>1 DEF Locks, Names, Published, TypeOK, App, Launch, Goto
  <2>2. Fresh' /\ Cleaners' /\ AppLock'
    BY <1>1 DEF Locks, Fresh, Cleaners, AppLock, TypeOK, Launch, Goto
  <2>3. Holders' /\ OldHeld'
    BY <1>1 DEF Locks, Holders, OldHeld, TypeOK, Launch, Goto
  <2>4. Owning'
    BY <1>1 DEF Locks, Owning, InOffice, Stopping, TypeOK, Launch, Goto
  <2> QED
    BY <2>1, <2>2, <2>3, <2>4 DEF Locks
<1>2. CASE OpenOld(p)
  <2>1. Names'
    BY <1>2 DEF Locks, Names, Published, TypeOK, App, OpenOld, Goto
  <2>2. Fresh' /\ Cleaners' /\ AppLock'
    BY <1>2 DEF Locks, Fresh, Cleaners, AppLock, TypeOK, OpenOld, Goto
  <2>3. Holders' /\ OldHeld'
    BY <1>2 DEF Locks, Names, Published, Holders, OldHeld, TypeOK, OpenOld, Goto
  <2>4. Owning'
    BY <1>2 DEF Locks, Owning, InOffice, Stopping, TypeOK, OpenOld, Goto
  <2> QED
    BY <2>1, <2>2, <2>3, <2>4 DEF Locks
<1>3. CASE LockOld(p) /\ ~Ends(p)
  <2>0. /\ pc[p] = "lock" /\ old[p] \in Procs /\ old[p] # p /\ lock[old[p]] = None
        /\ ~AppReads(old[p])
        /\ lock' = [lock EXCEPT ![old[p]] = p] /\ pc' = [pc EXCEPT ![p] = "check"]
        /\ UNCHANGED <<run, old, runFd, stop, app>>
    BY <1>3 DEF LockOld, Locks, OldHeld, TypeOK, Goto
  <2>1. Names'
    BY <2>0 DEF Locks, Names, Published, TypeOK, App
  <2>2. Fresh' /\ Cleaners'
    BY <2>0 DEF Locks, Fresh, Cleaners, TypeOK
  <2>3. AppLock'
    BY <2>0 DEF Locks, AppLock, AppReads, TypeOK, App
  <2>4. Holders'
    BY <2>0 DEF Locks, Holders, TypeOK
  <2>5. OldHeld'
    BY <2>0 DEF Locks, OldHeld, TypeOK
  <2>6. Owning'
    BY <2>0 DEF Locks, Owning, InOffice, Stopping, TypeOK
  <2> QED
    BY <2>1, <2>2, <2>3, <2>4, <2>5, <2>6 DEF Locks
<1>4. ASSUME UNCHANGED <<lock, old, runFd, stop, app>>, run' \in {run, None},
             \/ pc[p] = "check" /\ Goto(p, "compare")
             \/ pc[p] = "compare" /\ (Goto(p, "link") \/ Goto(p, "remove"))
             \/ pc[p] = "remove" /\ Goto(p, "link")
      PROVE  Locks'
  <2>1. Names'
    BY <1>4 DEF Locks, Names, Published, TypeOK, App, Goto
  <2>2. Fresh' /\ Cleaners' /\ AppLock'
    BY <1>4 DEF Locks, Fresh, Cleaners, AppLock, TypeOK, Goto
  <2>3. Holders' /\ OldHeld'
    BY <1>4 DEF Locks, Holders, OldHeld, TypeOK, Goto
  <2>4. Owning'
    BY <1>4 DEF Locks, Owning, InOffice, Stopping, TypeOK, Goto
  <2> QED
    BY <2>1, <2>2, <2>3, <2>4 DEF Locks
<1>5. CASE Link(p) /\ run = None
  <2>0. /\ pc[p] = "link" /\ run' = p
        /\ lock' = [lock EXCEPT ![p] = p] /\ pc' = [pc EXCEPT ![p] = "tidy"]
        /\ UNCHANGED <<old, runFd, stop, app>>
    BY <1>5 DEF Link, Goto
  <2>1. Names'
    BY <2>0 DEF Locks, Names, Published, TypeOK, App
  <2>2. Fresh' /\ Cleaners'
    BY <2>0 DEF Locks, Fresh, Cleaners, TypeOK
  <2>3. AppLock'
    BY <2>0 DEF Locks, Names, Published, AppLock, TypeOK, App
  <2>4. Holders'
    BY <2>0 DEF Locks, Holders, TypeOK
  <2>5. OldHeld'
    BY <2>0 DEF Locks, Names, Published, OldHeld, TypeOK
  <2>6. Owning'
    BY <2>0 DEF Locks, Owning, InOffice, Stopping, TypeOK
  <2> QED
    BY <2>1, <2>2, <2>3, <2>4, <2>5, <2>6 DEF Locks
<1>6. CASE Tidy(p)
  <2>0. /\ pc[p] = "tidy" /\ runFd' = [runFd EXCEPT ![p] = TRUE]
        /\ old' = [old EXCEPT ![p] = None] /\ pc' = [pc EXCEPT ![p] = "settings"]
        /\ lock' = [i \in Procs |-> IF i = old[p] THEN None ELSE lock[i]]
        /\ old[p] = None \/ lock[old[p]] = p
        /\ old[p] # p
        /\ UNCHANGED <<run, stop, app>>
    BY <1>6 DEF Tidy, Goto, Locks, OldHeld
  <2>1. Names'
    BY <2>0 DEF Locks, Names, Published, TypeOK, App
  <2>2. Fresh'
    BY <2>0 DEF Locks, Fresh, TypeOK
  <2>7. Cleaners'
    BY <2>0 DEF Locks, Fresh, Cleaners, TypeOK, NoCleanup
  <2>3. AppLock'
    BY <2>0 DEF Locks, AppLock, TypeOK, App
  <2>4. Holders'
    BY <2>0 DEF Locks, Holders, TypeOK
  <2>5. OldHeld'
    BY <2>0 DEF Locks, OldHeld, TypeOK
  <2>6. Owning'
    BY <2>0 DEF Locks, Owning, InOffice, Stopping, TypeOK
  <2> QED
    BY <2>1, <2>2, <2>3, <2>4, <2>5, <2>6, <2>7 DEF Locks
<1>7. CASE LockOld(p) /\ Ends(p)
  BY <1>7, EndsLocks DEF LockOld
<1>8. CASE CheckOld(p) \/ CompareOld(p) \/ RemoveOld(p)
  BY <1>4, <1>8, EndsLocks DEF CheckOld, CompareOld, RemoveOld
<1>9. CASE Link(p) /\ run # None
  BY <1>9, EndsLocks DEF Link
<1>10. CASE TidyFails(p)
  BY <1>10, EndsLocks DEF TidyFails
<1> QED
  BY <1>1, <1>2, <1>3, <1>5, <1>6, <1>7, <1>8, <1>9, <1>10 DEF LaunchStep

LEMMA ServeLocks == ASSUME TypeOK, Locks, NEW p \in Procs, ServeStep(p) PROVE Locks'
<1> USE NoneAssumption DEF Beyond, Launching, Running
<1>0. /\ UNCHANGED <<run, lock, old, runFd, app, lone, released>>
      /\ pc[p] \in Beyond /\ pc'[p] \in Beyond \cup {"quit"}
      /\ pc[p] = "leave" => pc'[p] = "leave"
      /\ \A q \in Procs \ {p} : pc'[q] = pc[q]
      /\ \/ stop' = stop /\ doubled' = doubled
         \/ \E t \in Threads, wipe \in BOOLEAN : Enter(p, t, wipe)
  BY ServeEffect
<1>1. Names' /\ Holders' /\ AppLock'
  BY <1>0 DEF Locks, Names, Published, Holders, AppLock, TypeOK, App
<1>2. OldHeld'
  BY <1>0 DEF Locks, OldHeld
<1>3. CASE stop' = stop
  BY <1>0, <1>1, <1>2, <1>3 DEF Locks, Fresh, Owning, InOffice, Stopping, Cleaners
<1>4. ASSUME NEW t \in Threads, NEW wipe \in BOOLEAN, Enter(p, t, wipe) PROVE Locks'
  <2>0. /\ stop'[p][t] = [at |-> "mark", fd |-> runFd[p], wipe |-> wipe]
        /\ \A u \in Threads \ {t} : stop'[p][u] = stop[p][u]
        /\ \A q \in Procs \ {p} : stop'[q] = stop[q]
    BY <1>4, EnterEffect
  <2>1. Fresh'
    BY <1>0, <2>0 DEF Locks, Fresh
  <2>2. Owning'
    BY <1>0, <2>0 DEF Locks, Owning, InOffice, Stopping
  <2>3. Cleaners'
    BY <1>0, <2>0 DEF Locks, Cleaners
  <2> QED
    BY <1>1, <1>2, <2>1, <2>2, <2>3 DEF Locks
<1> QED
  BY <1>0, <1>3, <1>4

LEMMA StopLocks ==
  ASSUME TypeOK, Locks, NEW p \in Procs, NEW t \in Threads, StopStep(p, t) PROVE Locks'
<1> USE NoneAssumption DEF files, history
<1>0. /\ LastSteps(p, t) \in {"wipe", "close"} /\ {"wipe", "close"} \subseteq Cleaning
      /\ {"compare", "remove", "exit"} \subseteq Cleaning
  BY DEF LastSteps, Cleaning
\* The threads of a process that is dead or still launching do not clean up.
<1>1. stop[p][t].at # "no" => pc[p] \notin {"unborn", "tidy", "dead"} \cup Launching
  BY DEF Locks, Fresh, NoCleanup
<1>2. ASSUME NEW step \in Cleaning, Continue(p, t, step), stop[p][t].at # "no",
             step \in {"compare", "remove"} => stop[p][t].fd,
             run' \in {run, None}, UNCHANGED <<pc, old, app>>,
             runFd' = runFd \/ (runFd' = [runFd EXCEPT ![p] = FALSE]),
             stop[p][t].at = "mark" => runFd' = [runFd EXCEPT ![p] = FALSE],
             \/ lock' = lock
             \/ lock[p] = p /\ stop[p][t].fd /\ stop[p][t].at # "mark"
                /\ lock' = [lock EXCEPT ![p] = None]
      PROVE  Locks'
  <2>0. /\ stop'[p][t].at = step /\ stop'[p][t].fd = stop[p][t].fd
        /\ \A u \in Threads \ {t} : stop'[p][u] = stop[p][u]
        /\ \A q \in Procs \ {p} : stop'[q] = stop[q]
    BY <1>2, ContinueEffect
  <2>1. Names'
    BY <1>2 DEF Locks, Names, Published, TypeOK, App
  <2>2. Fresh'
    BY <1>1, <1>2, <2>0 DEF Locks, Fresh, TypeOK
  <2>3. Holders'
    BY <1>2 DEF Locks, Holders, TypeOK
  <2>4. OldHeld'
    BY <1>1, <1>2 DEF Locks, OldHeld, TypeOK, Launching
  <2>5. Owning'
    <3>1. \A q \in Procs : InOffice(q)' => InOffice(q) /\ q # p
      BY <1>2, <2>0 DEF InOffice, Stopping, Cleaning
    <3>2. runFd[p] => runFd'[p] = FALSE \/ lock'[p] = p
      BY <1>2 DEF Locks, Owning, Cleaners, TypeOK
    <3> QED
      BY <1>1, <1>2, <3>1, <3>2 DEF Locks, Owning, TypeOK
  <2>6. Cleaners'
    <3>1. \A q \in Procs : runFd'[q] => runFd[q]
      BY <1>2 DEF TypeOK
    <3>2. stop[p][t].fd => runFd'[p] = FALSE
      BY <1>2 DEF Locks, Cleaners, TypeOK
    <3>3. step # "no"
      BY <1>2 DEF Cleaning
    <3> QED
      BY <1>2, <2>0, <3>1, <3>2, <3>3 DEF Locks, Cleaners
  <2>7. AppLock'
    BY <1>2 DEF Locks, AppLock, TypeOK, App
  <2> QED
    BY <2>1, <2>2, <2>3, <2>4, <2>5, <2>6, <2>7 DEF Locks
<1>3. CASE MarkStopping(p, t)
  BY <1>0, <1>2, <1>3 DEF MarkStopping, HoldsRunFile
<1>4. CASE StopCompare(p, t)
  BY <1>0, <1>2, <1>4 DEF StopCompare, HoldsRunFile
<1>5. CASE StopRemove(p, t)
  BY <1>0, <1>2, <1>5 DEF StopRemove
<1>6. CASE WipeSettings(p, t)
  BY <1>0, <1>2, <1>6 DEF WipeSettings
<1>7. CASE CloseRunFile(p, t)
  BY <1>0, <1>2, <1>7 DEF CloseRunFile, HoldsRunFile
<1>8. CASE Exit(p, t)
  BY <1>8, EndsLocks DEF Exit
<1> QED
  BY <1>3, <1>4, <1>5, <1>6, <1>7, <1>8 DEF StopStep

LEMMA AppLocksHold == ASSUME TypeOK, Locks, AppStep PROVE Locks'
<1> USE NoneAssumption DEF files, process, history
<1>1. UNCHANGED process /\ lock' = lock
  BY DEF AppStep, AppFindsDead, AppOpens, AppLocks, AppMatches, AppRemoves, AppReadsElsewhere,
         AppCreatesSettings, SettingsDeleted
<1>2. Fresh' /\ Holders' /\ OldHeld' /\ Owning' /\ Cleaners'
  BY <1>1 DEF Locks, Fresh, Holders, OldHeld, Owning, InOffice, Stopping, Cleaners
<1>3. run' \in {run, None}
  BY DEF AppStep, AppFindsDead, AppOpens, AppLocks, AppMatches, AppRemoves, AppReadsElsewhere,
         AppCreatesSettings, SettingsDeleted
<1>4. Names' /\ AppLock'
  <2>1. ASSUME NEW p \in Procs, AppFindsDead(p) PROVE Names' /\ AppLock'
    BY <1>1, <2>1 DEF AppFindsDead, AppIdle, Locks, Names, Published, AppLock
  <2>2. CASE AppOpens
    BY <1>1, <2>2 DEF AppOpens, AppIdle, Locks, Names, Published, AppLock, TypeOK, App
  <2>3. CASE AppLocks
    <3>1. app.inode # None => app.inode \in Procs
      BY DEF TypeOK, App
    <3> QED
      BY <1>1, <2>3, <3>1 DEF AppLocks, AppIdle, Locks, Names, Published, AppLock, TypeOK, App
  <2>4. CASE AppMatches
    BY <1>1, <2>4 DEF AppMatches, AppIdle, Locks, Names, Published, AppLock, TypeOK, App
  <2>5. CASE AppRemoves
    BY <1>1, <2>5 DEF AppRemoves, AppIdle, Locks, Names, Published, AppLock
  <2>6. CASE AppReadsElsewhere
    BY <1>1, <2>6 DEF AppReadsElsewhere, Locks, Names, Published, AppLock, TypeOK, App
  <2>7. CASE AppCreatesSettings \/ SettingsDeleted
    BY <1>1, <2>7 DEF AppCreatesSettings, SettingsDeleted, Locks, Names, Published, AppLock
  <2> QED
    BY <2>1, <2>2, <2>3, <2>4, <2>5, <2>6, <2>7 DEF AppStep
<1> QED
  BY <1>2, <1>4 DEF Locks

LEMMA LocksStep == ASSUME TypeOK, Locks, [Next]_vars PROVE Locks'
<1> USE DEF files, process, history
<1>1. CASE UNCHANGED <<files, process, app>>
  BY <1>1 DEF Locks, Names, Published, Fresh, Holders, OldHeld, Owning, InOffice, Stopping,
              Cleaners, AppLock
<1>2. ASSUME NEW p \in Procs, Crash(p) PROVE Locks'
  BY <1>2, EndsLocks DEF Crash
<1>3. ASSUME NEW p \in Procs, NumberTaken(p) \/ NumberFreed(p) PROVE Locks'
  BY <1>1, <1>3 DEF NumberTaken, NumberFreed
<1>4. CASE UNCHANGED vars
  BY <1>1, <1>4 DEF vars
<1> QED
  BY <1>2, <1>3, <1>4, LaunchLocks, ServeLocks, StopLocks, AppLocksHold DEF Next

LEMMA LocksInit == Init => Locks
<1> SUFFICES ASSUME Init PROVE Locks
  OBVIOUS
<1> USE NoneAssumption, EarlierAssumption DEF Launching, Running
<1>1. Names
  BY DEF Init, Names, Published, AppIdle
<1>2. Fresh /\ Holders /\ Cleaners
  BY DEF Init, Fresh, Holders, Cleaners, NoCleanup
<1>3. OldHeld /\ Owning /\ AppLock
  BY DEF Init, OldHeld, Owning, InOffice, AppLock, AppIdle
<1> QED
  BY <1>1, <1>2, <1>3 DEF Locks

-----------------------------------------------------------------------------
(* Claims: whoever has one has its own kind of lock on the inode at         *)
(* daemon.run, so no two have one.                                         *)

LEMMA EndsClaims ==
  ASSUME TypeOK, Locks, Claims, NEW p \in Procs, Ends(p), UNCHANGED app,
         \/ run' = run
         \/ pc[p] = "tidy" /\ run' = IF run = p THEN None ELSE run
  PROVE  Claims'
<1> USE NoneAssumption
<1>0. /\ pc'[p] = "dead" /\ old'[p] = None /\ runFd'[p] = FALSE
      /\ \A t \in Threads : stop'[p][t] = NoCleanup
      /\ \A q \in Procs \ {p} : pc'[q] = pc[q] /\ old'[q] = old[q] /\ runFd'[q] = runFd[q]
                                /\ stop'[q] = stop[q]
      /\ \A i \in Procs : lock'[i] = IF lock[i] = p THEN None ELSE lock[i]
  BY EndsEffect
<1>1. run' # run => run = p /\ lock[p] = p /\ pc[p] = "tidy"
  BY DEF Locks, Owning
<1>2. OneCleaner'
  BY <1>0, <1>1 DEF Claims, OneCleaner, NoCleanup
<1>3. Removing'
  BY <1>0, <1>1 DEF Claims, Removing, Locks, OldHeld
<1>4. AppRemoval'
  BY <1>0, <1>1 DEF Claims, AppRemoval, Locks, AppLock, TypeOK, App
<1>5. Office'
  BY <1>0, <1>1 DEF Claims, Office, InOffice, Stopping, Running
<1> QED
  BY <1>2, <1>3, <1>4, <1>5 DEF Claims

LEMMA LaunchClaims ==
  ASSUME TypeOK, Locks, Claims, NEW p \in Procs, LaunchStep(p) PROVE Claims'
<1> USE NoneAssumption DEF Launching, Running, history, files
<1>1. ASSUME UNCHANGED <<run, runFd, stop, app>>,
             pc[p] \in {"unborn", "open", "lock", "check"},
             \E step \in {"open", "lock", "link", "check", "compare"} : Goto(p, step),
             \A q \in Procs \ {p} : old'[q] = old[q],
             \/ lock' = lock
             \/ pc[p] = "lock" /\ lock[old[p]] = None /\ lock' = [lock EXCEPT ![old[p]] = p]
      PROVE  Claims'
  <2>0. pc'[p] \in {"open", "lock", "link", "check", "compare"}
        /\ \A q \in Procs \ {p} : pc'[q] = pc[q]
    BY <1>1 DEF Goto, TypeOK
  <2>1. \A q \in Procs : lock[q] = q => lock'[q] = q
    BY <1>1 DEF TypeOK
  <2>2. OneCleaner' /\ AppRemoval'
    BY <1>1, <2>1 DEF Claims, OneCleaner, AppRemoval
  <2>3. Removing'
    BY <1>1, <2>0 DEF Claims, Removing
  <2>4. Office'
    BY <1>1, <2>0 DEF Claims, Office, InOffice, Stopping
  <2> QED
    BY <2>2, <2>3, <2>4 DEF Claims
<1>2. CASE Launch(p) \/ OpenOld(p)
  BY <1>1, <1>2 DEF Launch, OpenOld, TypeOK
<1>3. CASE LockOld(p)
  BY <1>1, <1>3, EndsClaims DEF LockOld, TypeOK
<1>4. CASE CheckOld(p)
  BY <1>1, <1>4, EndsClaims DEF CheckOld, TypeOK
<1>5. CASE CompareOld(p)
  <2>1. CASE Ends(p)
    BY <1>5, <2>1, EndsClaims DEF CompareOld
  <2>2. CASE ~Ends(p)
    <3>0. /\ pc[p] = "compare" /\ pc' = [pc EXCEPT ![p] = IF run = None THEN "link" ELSE "remove"]
          /\ run = None \/ run = old[p]
          /\ UNCHANGED <<run, lock, old, runFd, stop, app>>
      BY <1>5, <2>2 DEF CompareOld, Goto
    <3>1. OneCleaner' /\ AppRemoval'
      BY <3>0 DEF Claims, OneCleaner, AppRemoval
    <3>2. Removing'
      BY <3>0 DEF Claims, Removing, TypeOK
    <3>3. Office'
      BY <3>0 DEF Claims, Office, InOffice, Stopping, TypeOK
    <3> QED
      BY <3>1, <3>2, <3>3 DEF Claims
  <2> QED
    BY <2>1, <2>2
<1>6. CASE RemoveOld(p)
  <2>0. /\ pc[p] = "remove" /\ run = old[p] /\ run \in Procs /\ run # p /\ lock[run] = p
        /\ run' = None /\ pc' = [pc EXCEPT ![p] = "link"]
        /\ UNCHANGED <<lock, old, runFd, stop, app>>
    BY <1>6 DEF RemoveOld, Goto, Claims, Removing, Locks, OldHeld, TypeOK
  <2>1. OneCleaner'
    <3>1. \A q \in Procs, t \in Threads : stop[q][t].at # "remove"
      <4> SUFFICES ASSUME NEW q \in Procs, NEW t \in Threads, stop[q][t].at = "remove" PROVE FALSE
        OBVIOUS
      <4>1. run = q /\ lock[q] = q
        BY DEF Claims, OneCleaner, Locks, Cleaners
      <4> QED
        BY <2>0, <4>1
    <3> QED
      BY <2>0, <3>1 DEF Claims, OneCleaner
  <2>2. Removing'
    BY <2>0 DEF Claims, Removing, Locks, OldHeld, TypeOK
  <2>3. AppRemoval'
    BY <2>0 DEF Claims, AppRemoval, Locks, AppLock, TypeOK, App
  <2>4. Office'
    BY <2>0 DEF Claims, Office, InOffice, Stopping, Locks, Owning, TypeOK
  <2> QED
    BY <2>1, <2>2, <2>3, <2>4 DEF Claims
<1>7. CASE Link(p)
  <2>1. CASE run # None
    BY <1>7, <2>1, EndsClaims DEF Link
  <2>2. CASE run = None
    <3>0. /\ pc[p] = "link" /\ run' = p /\ pc' = [pc EXCEPT ![p] = "tidy"]
          /\ lock' = [lock EXCEPT ![p] = p] /\ UNCHANGED <<old, runFd, stop, app>>
      BY <1>7, <2>2 DEF Link, Goto
    <3>1. OneCleaner'
      BY <2>2, <3>0 DEF Claims, OneCleaner, TypeOK
    <3>2. Removing'
      BY <2>2, <3>0 DEF Claims, Removing, Locks, OldHeld, TypeOK
    <3>3. AppRemoval'
      BY <2>2, <3>0 DEF Claims, AppRemoval, Locks, AppLock
    <3>4. Office'
      BY <2>2, <3>0 DEF Claims, Office, InOffice, Stopping, TypeOK
    <3> QED
      BY <3>1, <3>2, <3>3, <3>4 DEF Claims
  <2> QED
    BY <2>1, <2>2
<1>8. CASE Tidy(p)
  <2>0. /\ pc[p] = "tidy" /\ pc' = [pc EXCEPT ![p] = "settings"]
        /\ \A q \in Procs \ {p} : old'[q] = old[q]
        /\ lock' = [i \in Procs |-> IF i = old[p] THEN None ELSE lock[i]]
        /\ old[p] = None \/ lock[old[p]] = p
        /\ old[p] # p
        /\ UNCHANGED <<run, stop, app>>
    BY <1>8 DEF Tidy, Goto, Locks, OldHeld, TypeOK
  <2>1. OneCleaner' /\ AppRemoval'
    BY <2>0 DEF Claims, OneCleaner, AppRemoval, TypeOK
  <2>2. Removing'
    BY <2>0 DEF Claims, Removing, TypeOK
  <2>3. Office'
    BY <2>0 DEF Claims, Office, InOffice, Stopping, TypeOK
  <2> QED
    BY <2>1, <2>2, <2>3 DEF Claims
<1>9. CASE TidyFails(p)
  BY <1>9, EndsClaims DEF TidyFails
<1> QED
  BY <1>2, <1>3, <1>4, <1>5, <1>6, <1>7, <1>8, <1>9 DEF LaunchStep

LEMMA ServeClaims ==
  ASSUME TypeOK, Locks, Claims, LocksHeld', NEW p \in Procs, ServeStep(p) PROVE Claims'
<1> USE DEF Beyond, Running
<1>0. /\ UNCHANGED <<run, lock, old, runFd, app, lone, released>>
      /\ pc[p] \in Beyond /\ pc'[p] \in Beyond \cup {"quit"}
      /\ pc[p] = "leave" => pc'[p] = "leave"
      /\ \A q \in Procs \ {p} : pc'[q] = pc[q]
      /\ \/ stop' = stop /\ doubled' = doubled
         \/ \E t \in Threads, wipe \in BOOLEAN : Enter(p, t, wipe)
  BY ServeEffect
<1>1. Removing' /\ AppRemoval'
  BY <1>0 DEF Claims, Removing, AppRemoval
<1>2. CASE stop' = stop
  BY <1>0, <1>1, <1>2 DEF Claims, OneCleaner, Office, InOffice, Stopping
<1>3. ASSUME NEW t \in Threads, NEW wipe \in BOOLEAN, Enter(p, t, wipe) PROVE Claims'
  <2>0. /\ stop[p][t].at = "no"
        /\ stop'[p][t] = [at |-> "mark", fd |-> runFd[p], wipe |-> wipe]
        /\ \A u \in Threads \ {t} : stop'[p][u] = stop[p][u]
        /\ \A q \in Procs \ {p} : stop'[q] = stop[q]
    BY <1>3, EnterEffect
  <2>1. runFd[p] => \A u \in Threads \ {t} : ~stop[p][u].fd
    BY <1>3 DEF Enter, LocksHeld
  <2>2. OneCleaner'
    BY <1>0, <2>0, <2>1 DEF Claims, OneCleaner, Locks, Owning
  <2>3. Office'
    BY <1>0, <2>0 DEF Claims, Office, InOffice, Stopping
  <2> QED
    BY <1>1, <2>2, <2>3 DEF Claims
<1> QED
  BY <1>0, <1>2, <1>3

LEMMA StopClaims ==
  ASSUME TypeOK, Locks, Claims, NEW p \in Procs, NEW t \in Threads, StopStep(p, t)
  PROVE  Claims'
<1> USE NoneAssumption DEF files, history
<1>0. /\ LastSteps(p, t) \in {"wipe", "close"} /\ {"wipe", "close"} \subseteq Cleaning
      /\ {"compare", "remove", "exit"} \subseteq Cleaning
  BY DEF LastSteps, Cleaning
<1>1. ASSUME NEW step \in Cleaning, Continue(p, t, step), UNCHANGED <<pc, old, app>>,
             step = "remove" => run = p,
             \/ run' = run
             \/ stop[p][t].at = "remove" /\ run' = None /\ step # "remove",
             \/ lock' = lock
             \/ /\ lock[p] = p /\ stop[p][t].fd /\ step = "exit"
                /\ lock' = [lock EXCEPT ![p] = None] /\ run' = run,
             step # "exit" => stop[p][t].at # "exit"
      PROVE  Claims'
  <2>0. /\ stop'[p][t].at = step /\ stop'[p][t].fd = stop[p][t].fd
        /\ \A u \in Threads \ {t} : stop'[p][u] = stop[p][u]
        /\ \A q \in Procs \ {p} : stop'[q] = stop[q]
    BY <1>1, ContinueEffect
  <2>1. run' # run => run = p /\ lock[p] = p /\ stop[p][t].fd /\ run' = None
    BY <1>1 DEF Claims, OneCleaner, Locks, Cleaners
  <2>2. \A q \in Procs : InOffice(q)' => InOffice(q) /\ q # p
    BY <1>1, <2>0 DEF InOffice, Stopping, Cleaning
  <2>3. stop[p][t].at # "no" => pc[p] \notin {"unborn", "tidy", "dead"} \cup Launching
    BY DEF Locks, Fresh, NoCleanup
  <2>4. OneCleaner'
    <3> SUFFICES ASSUME NEW q \in Procs, NEW u \in Threads
                 PROVE  /\ \A w \in Threads : stop'[q][u].fd /\ stop'[q][w].fd => u = w
                        /\ stop'[q][u].fd /\ stop'[q][u].at # "exit" => lock'[q] = q
                        /\ stop'[q][u].at = "remove" => run' = q
      BY DEF OneCleaner
    <3>1. \A w \in Threads : stop'[q][u].fd /\ stop'[q][w].fd => u = w
      BY <2>0 DEF Claims, OneCleaner
    <3>2. stop'[q][u].fd /\ stop'[q][u].at # "exit" => lock'[q] = q
      <4>1. stop'[q][u].fd /\ stop'[q][u].at # "exit" => stop[q][u].fd /\ stop[q][u].at # "exit"
        BY <1>1, <2>0
      <4>2. stop'[q][u].fd /\ stop'[q][u].at # "exit" => lock[q] = q
        BY <4>1 DEF Claims, OneCleaner
      <4>3. q # p \/ lock' = lock => lock'[q] = lock[q]
        BY <1>1 DEF TypeOK
      <4>4. q = p /\ lock' # lock => ~(stop'[q][u].fd /\ stop'[q][u].at # "exit")
        BY <1>1, <2>0 DEF Claims, OneCleaner
      <4> QED
        BY <4>2, <4>3, <4>4
    <3>3. stop'[q][u].at = "remove" => run' = q
      <4>1. CASE q = p /\ u = t
        BY <1>1, <2>0, <4>1
      <4>2. CASE ~(q = p /\ u = t)
        <5>1. stop'[q][u] = stop[q][u]
          BY <2>0, <4>2
        <5>2. stop[q][u].at = "remove" => run = q /\ stop[q][u].fd
          BY DEF Claims, OneCleaner, Locks, Cleaners
        <5> QED
          BY <2>1, <4>2, <5>1, <5>2 DEF Claims, OneCleaner
      <4> QED
        BY <4>1, <4>2
    <3> QED
      BY <3>1, <3>2, <3>3
  <2>5. Removing'
    BY <1>1, <2>1 DEF Claims, Removing, Locks, OldHeld
  <2>6. AppRemoval'
    BY <1>1, <2>1 DEF Claims, AppRemoval, Locks, AppLock
  <2>7. Office'
    BY <2>1, <2>2 DEF Claims, Office
  <2> QED
    BY <2>4, <2>5, <2>6, <2>7 DEF Claims
<1>2. CASE MarkStopping(p, t)
  BY <1>0, <1>1, <1>2 DEF MarkStopping
<1>3. CASE StopCompare(p, t)
  BY <1>0, <1>1, <1>3 DEF StopCompare
<1>4. CASE StopRemove(p, t)
  BY <1>0, <1>1, <1>4 DEF StopRemove
<1>5. CASE WipeSettings(p, t)
  BY <1>0, <1>1, <1>5 DEF WipeSettings
<1>6. CASE CloseRunFile(p, t)
  BY <1>0, <1>1, <1>6 DEF CloseRunFile, HoldsRunFile
<1>7. CASE Exit(p, t)
  BY <1>7, EndsClaims DEF Exit
<1> QED
  BY <1>2, <1>3, <1>4, <1>5, <1>6, <1>7 DEF StopStep

LEMMA AppClaims == ASSUME TypeOK, Locks, Claims, LocksHeld', AppStep PROVE Claims'
<1> USE NoneAssumption DEF files, process, history
<1>1. UNCHANGED process /\ lock' = lock
  BY DEF AppStep, AppFindsDead, AppOpens, AppLocks, AppMatches, AppRemoves, AppReadsElsewhere,
         AppCreatesSettings, SettingsDeleted
<1>2. ASSUME run' = run, AppRemoval' PROVE Claims'
  BY <1>1, <1>2 DEF Claims, OneCleaner, Removing, Office, InOffice, Stopping
<1>3. ASSUME NEW p \in Procs, AppFindsDead(p) PROVE Claims'
  BY <1>2, <1>3 DEF AppFindsDead, AppIdle, AppRemoval
<1>4. CASE AppOpens
  BY <1>2, <1>4 DEF AppOpens, AppIdle, AppRemoval, TypeOK, App
<1>5. CASE AppLocks
  BY <1>2, <1>5 DEF AppLocks, AppIdle, AppRemoval, TypeOK, App
<1>6. CASE AppMatches
  BY <1>2, <1>6 DEF AppMatches, AppIdle, AppRemoval, TypeOK, App, Claims
<1>7. CASE AppRemoves
  <2>0. run = app.inode /\ run \in Procs /\ lock[run] = None /\ pc[run] = "dead" /\ run' = None
    BY <1>7 DEF AppRemoves, Claims, AppRemoval, Locks, Names, AppLock, TypeOK, App
  <2>1. OneCleaner'
    BY <1>1, <2>0 DEF Claims, OneCleaner, Locks, Cleaners
  <2>2. Removing'
    BY <1>1, <2>0 DEF Claims, Removing, Locks, OldHeld
  <2>3. AppRemoval'
    BY <1>7 DEF AppRemoves, AppIdle, AppRemoval
  <2>4. Office'
    BY <1>1, <2>0 DEF Claims, Office, InOffice, Stopping, Running
  <2> QED
    BY <2>1, <2>2, <2>3, <2>4 DEF Claims
<1>8. CASE AppReadsElsewhere
  BY <1>8 DEF AppReadsElsewhere, LocksHeld
<1>9. CASE AppCreatesSettings \/ SettingsDeleted
  BY <1>2, <1>9 DEF AppCreatesSettings, SettingsDeleted, AppRemoval, Claims
<1> QED
  BY <1>3, <1>4, <1>5, <1>6, <1>7, <1>8, <1>9 DEF AppStep

\* Locks that were defeated stay defeated.
LEMMA DefeatStays == ASSUME TypeOK, [Next]_vars, LocksHeld' PROVE LocksHeld
<1> USE DEF LocksHeld, history, files, process
<1>1. ASSUME NEW p \in Procs, LaunchStep(p) PROVE LocksHeld
  BY <1>1 DEF LaunchStep, Launch, OpenOld, LockOld, CheckOld, CompareOld, RemoveOld, Link, Tidy,
              TidyFails
<1>2. ASSUME NEW p \in Procs, ServeStep(p) PROVE LocksHeld
  BY <1>2, ServeEffect DEF Enter
<1>3. ASSUME NEW p \in Procs, NEW t \in Threads, StopStep(p, t) PROVE LocksHeld
  BY <1>3 DEF StopStep, MarkStopping, StopCompare, StopRemove, WipeSettings, CloseRunFile, Exit
<1>4. CASE AppStep
  <2>1. CASE AppReadsElsewhere
    BY <2>1 DEF AppReadsElsewhere
  <2>2. CASE AppCreatesSettings \/ SettingsDeleted
    BY <2>2 DEF AppCreatesSettings, SettingsDeleted
  <2>3. CASE AppOpens \/ AppLocks \/ AppMatches \/ AppRemoves
    BY <2>3 DEF AppOpens, AppLocks, AppMatches, AppRemoves
  <2>4. ASSUME NEW p \in Procs, AppFindsDead(p) PROVE LocksHeld
    BY <2>4 DEF AppFindsDead
  <2> QED
    BY <1>4, <2>1, <2>2, <2>3, <2>4 DEF AppStep
<1>5. ASSUME NEW p \in Procs, Crash(p) \/ NumberTaken(p) \/ NumberFreed(p) PROVE LocksHeld
  BY <1>5 DEF Crash, NumberTaken, NumberFreed
<1>6. CASE UNCHANGED vars
  BY <1>6 DEF vars
<1> QED
  BY <1>1, <1>2, <1>3, <1>4, <1>5, <1>6 DEF Next

LEMMA GuardedStep == ASSUME TypeOK, Locks, Guarded, [Next]_vars PROVE Guarded'
<1> SUFFICES ASSUME LocksHeld' PROVE Claims'
  BY DEF Guarded
<1> USE DEF files, process, history
<1>0. Claims
  BY DefeatStays DEF Guarded
<1>1. CASE UNCHANGED <<files, process, app>>
  BY <1>0, <1>1 DEF Claims, OneCleaner, Removing, AppRemoval, Office, InOffice, Stopping
<1>2. ASSUME NEW p \in Procs, Crash(p) PROVE Claims'
  BY <1>0, <1>2, EndsClaims DEF Crash
<1>3. ASSUME NEW p \in Procs, NumberTaken(p) \/ NumberFreed(p) PROVE Claims'
  BY <1>1, <1>3 DEF NumberTaken, NumberFreed
<1>4. CASE UNCHANGED vars
  BY <1>1, <1>4 DEF vars
<1> QED
  BY <1>0, <1>2, <1>3, <1>4, LaunchClaims, ServeClaims, StopClaims, AppClaims DEF Next

-----------------------------------------------------------------------------
(* The socket.                                                             *)

\* Who sets up the socket is in office, so nobody else serves.
LEMMA SocketStep == ASSUME TypeOK, Locks, Guarded, SocketKept, [Next]_vars PROVE SocketKept'
<1> USE NoneAssumption DEF files, process, history
<1> SUFFICES ASSUME LocksHeld', ~strayed', NEW r \in Procs, pc'[r] = "serving", InOffice(r)'
             PROVE  socket' = r
  BY DEF SocketKept
<1>0. Office
  BY DefeatStays DEF Guarded, Claims
<1>1. ASSUME pc[r] = "serving", ~strayed, socket' = socket, InOffice(r) PROVE socket' = r
  BY <1>1, DefeatStays DEF SocketKept
<1>2. CASE socket' = socket /\ strayed' = strayed /\ pc' = pc /\ stop' = stop
  BY <1>1, <1>2 DEF InOffice, Stopping
<1>3. ASSUME NEW p \in Procs, Ends(p), socket' = socket, strayed' = strayed PROVE socket' = r
  <2>0. /\ pc'[p] = "dead"
        /\ \A q \in Procs \ {p} : pc'[q] = pc[q] /\ stop'[q] = stop[q]
    BY <1>3, EndsEffect
  <2> QED
    BY <1>1, <1>3, <2>0 DEF InOffice, Stopping
<1>4. ASSUME NEW p \in Procs, LaunchStep(p) PROVE socket' = r
  <2>1. socket' = socket /\ strayed' = strayed
    BY <1>4 DEF LaunchStep, Launch, OpenOld, LockOld, CheckOld, CompareOld, RemoveOld, Link, Tidy,
                TidyFails
  <2>2. CASE Ends(p)
    BY <1>3, <2>1, <2>2
  <2>3. CASE ~Ends(p)
    <3>1. stop' = stop /\ \E step \in Launching \cup {"tidy", "settings"} : Goto(p, step)
      BY <1>4, <2>3 DEF LaunchStep, Launch, OpenOld, LockOld, CheckOld, CompareOld, RemoveOld, Link,
                        Tidy, TidyFails, Launching
    <3>2. pc[r] = "serving"
      BY <3>1 DEF Goto, Launching, TypeOK
    <3> QED
      BY <1>1, <2>1, <3>1, <3>2 DEF InOffice, Stopping, Running
  <2> QED
    BY <2>2, <2>3
<1>5. ASSUME NEW p \in Procs, ServeStep(p) PROVE socket' = r
  <2>0. /\ pc[p] \in Beyond
        /\ \A q \in Procs \ {p} : pc'[q] = pc[q]
        /\ \/ stop' = stop
           \/ \E t \in Threads, wipe \in BOOLEAN : Enter(p, t, wipe)
    BY <1>5, ServeEffect
  <2>1. \A q \in Procs : ~Stopping(q)' => ~Stopping(q)
    <3>1. ASSUME NEW t \in Threads, NEW wipe \in BOOLEAN, Enter(p, t, wipe), NEW q \in Procs
          PROVE  ~Stopping(q)' => ~Stopping(q)
      <4>0. /\ stop'[p][t] = [at |-> "mark", fd |-> runFd[p], wipe |-> wipe]
            /\ \A u \in Threads \ {t} : stop'[p][u] = stop[p][u]
            /\ \A s \in Procs \ {p} : stop'[s] = stop[s]
        BY <3>1, EnterEffect
      <4>1. /\ stop'[p][t].at = "mark"
            /\ \A s \in Procs \ {p} : stop'[s] = stop[s]
        BY <4>0
      <4>2. CASE q = p
        BY <3>1, <4>1, <4>2 DEF Stopping
      <4>3. CASE q # p
        BY <4>1, <4>3 DEF Stopping
      <4> QED
        BY <4>2, <4>3
    <3>2. CASE stop' = stop
      BY <3>2 DEF Stopping
    <3> QED
      BY <2>0, <3>1, <3>2
  <2>2. CASE Listen(p) /\ r = p
    <3>1. pc[p] = "listen" /\ (socket # p => pc'[p] = "drain") /\ socket' = socket
      BY <2>2 DEF Listen, MainGoes, Goto, TypeOK
    <3> QED
      BY <2>2, <3>1
  <2>3. pc[r] # "serving" => Listen(p) /\ r = p
    BY <1>5, <2>0 DEF ServeStep, Configure, InitialEvent, RemoveStaleSocket, Bind, Permit, Listen,
                      SetupFails, Drain, ClientStops, PowerStops, MainGoes, MainStops, Goto, TypeOK
  <2>4. CASE pc[r] = "serving"
    <3>1. InOffice(r) /\ run = r
      BY <1>0, <2>1, <2>4 DEF InOffice, Running, Office
    <3>2. CASE RemoveStaleSocket(p)
      <4>1. pc[p] = "socket" /\ ~Stopping(p)
        BY <3>2 DEF RemoveStaleSocket
      <4>2. InOffice(p) /\ p # r
        BY <2>4, <4>1 DEF InOffice, Running
      <4> QED
        BY <1>0, <3>1, <4>2 DEF Office
    <3>3. ~RemoveStaleSocket(p) => strayed' = strayed
      BY <1>5 DEF ServeStep, Configure, InitialEvent, Bind, Permit, Listen, SetupFails, Drain,
                  ClientStops, PowerStops
    <3>4. CASE Bind(p)
      <4>1. ~strayed
        BY <3>4 DEF Bind
      <4>2. socket = r
        BY <2>4, <3>1, <4>1, DefeatStays DEF SocketKept
      <4> QED
        BY <3>4, <4>2 DEF Bind
    <3>5. CASE ~RemoveStaleSocket(p) /\ ~Bind(p)
      <4>1. socket' = socket
        BY <1>5, <3>5 DEF ServeStep, Configure, InitialEvent, Permit, Listen, SetupFails, Drain,
                          ClientStops, PowerStops
      <4> QED
        BY <1>1, <2>4, <3>1, <3>3, <3>5, <4>1
    <3> QED
      BY <3>2, <3>4, <3>5
  <2> QED
    BY <2>2, <2>3, <2>4
<1>6. ASSUME NEW p \in Procs, NEW t \in Threads, StopStep(p, t) PROVE socket' = r
  <2>1. socket' = socket /\ strayed' = strayed
    BY <1>6 DEF StopStep, MarkStopping, StopCompare, StopRemove, WipeSettings, CloseRunFile, Exit
  <2>2. CASE Exit(p, t)
    BY <1>3, <2>1, <2>2 DEF Exit
  <2>3. ASSUME NEW step \in Cleaning, Continue(p, t, step), pc' = pc, stop[p][t].at # "no"
        PROVE  socket' = r
    <3>1. /\ stop'[p][t].at = step
          /\ \A q \in Procs \ {p} : stop'[q] = stop[q]
      BY <2>3, ContinueEffect
    <3>2. r # p /\ InOffice(r)
      BY <2>3, <3>1 DEF InOffice, Stopping, Cleaning
    <3> QED
      BY <1>1, <2>1, <2>3, <3>2
  <2>4. LastSteps(p, t) \in Cleaning /\ {"compare", "remove", "close", "exit"} \subseteq Cleaning
    BY DEF LastSteps, Cleaning
  <2> QED
    BY <1>6, <2>2, <2>3, <2>4 DEF StopStep, MarkStopping, StopCompare, StopRemove, WipeSettings,
                                  CloseRunFile
<1>7. CASE AppStep
  BY <1>2, <1>7 DEF AppStep, AppFindsDead, AppOpens, AppLocks, AppMatches, AppRemoves,
                    AppReadsElsewhere, AppCreatesSettings, SettingsDeleted
<1>8. ASSUME NEW p \in Procs, Crash(p) \/ NumberTaken(p) \/ NumberFreed(p) PROVE socket' = r
  BY <1>2, <1>3, <1>8 DEF Crash, NumberTaken, NumberFreed
<1>9. CASE UNCHANGED vars
  BY <1>2, <1>9 DEF vars
<1> QED
  BY <1>4, <1>5, <1>6, <1>7, <1>8, <1>9 DEF Next

-----------------------------------------------------------------------------
(* The lone launch.                                                        *)

\* Nobody else moves while it launches: what another process or the app would do ends the
\* claim to be alone.
LEMMA LoneStep == ASSUME TypeOK, Locks, Lone, [Next]_vars PROVE Lone'
<1> USE NoneAssumption DEF files, process, history
<1> DEFINE Alone(p) == /\ app = AppIdle
                       /\ \A q \in Procs \ {p} : ~Alive(q)
                       /\ pc[p] \in {"lock", "check", "compare", "remove"} => run = old[p]
                       /\ pc[p] = "link" => run = None
<1> SUFFICES ASSUME NEW r \in Procs, lone' = r, pc'[r] # "dead" PROVE Alone(r)'
  BY DEF Lone
<1>0. lone = r => pc[r] = "dead" \/ Alone(r)
  BY DEF Lone
<1>1. ASSUME lone = r, UNCHANGED <<run, process, app>> PROVE Alone(r)'
  BY <1>0, <1>1 DEF Alive
<1>2. ASSUME NEW p \in Procs, Ends(p), lone = r, app' = app,
             run' = run \/ pc[p] = "tidy"
      PROVE  Alone(r)'
  <2>0. /\ pc'[p] = "dead"
        /\ \A q \in Procs \ {p} : pc'[q] = pc[q] /\ old'[q] = old[q]
    BY <1>2, EndsEffect
  <2>1. p # r
    BY <2>0
  <2>2. run' = run
    BY <1>0, <1>2, <2>0, <2>1 DEF Alive
  <2> QED
    BY <1>0, <1>2, <2>0, <2>1, <2>2 DEF Alive
<1>3. ASSUME NEW p \in Procs, LaunchStep(p) PROVE Alone(r)'
  <2>1. CASE Launch(p)
    <3>1. p = r /\ app = AppIdle /\ \A q \in Procs : ~Alive(q)
      BY <2>1 DEF Launch
    <3> QED
      BY <2>1, <3>1 DEF Launch, Goto, TypeOK, Alive
  <2>2. CASE ~Launch(p)
    <3>0. lone = r /\ app' = app /\ pc[p] \in (Launching \cup {"tidy"})
      BY <1>3, <2>2 DEF LaunchStep, OpenOld, LockOld, CheckOld, CompareOld, RemoveOld, Link, Tidy,
                        TidyFails, Launching
    <3>1. CASE Ends(p)
      BY <1>2, <1>3, <2>2, <3>0, <3>1 DEF LaunchStep, OpenOld, LockOld, CheckOld, CompareOld, RemoveOld,
                        Link, Tidy, TidyFails, Ends, Goto, TypeOK
    <3>2. CASE ~Ends(p)
      <4>1. \A q \in Procs \ {p} : pc'[q] = pc[q] /\ old'[q] = old[q]
        BY <1>3, <2>2, <3>2 DEF LaunchStep, OpenOld, LockOld, CheckOld, CompareOld, RemoveOld, Link, Tidy,
                        TidyFails, Goto, TypeOK
      <4>2. pc[r] # "dead"
        BY <3>0, <4>1 DEF Launching
      <4>3. p = r
        BY <1>0, <3>0, <4>2 DEF Alive, Launching
      <4>4. CASE OpenOld(p)
        BY <1>0, <3>0, <4>1, <4>2, <4>3, <4>4 DEF OpenOld, Goto, TypeOK, Alive
      <4>5. CASE LockOld(p) \/ CheckOld(p)
        BY <1>0, <3>0, <3>2, <4>1, <4>2, <4>3, <4>5 DEF LockOld, CheckOld, Goto, TypeOK, Alive
      <4>6. CASE CompareOld(p)
        BY <1>0, <3>0, <3>2, <4>1, <4>2, <4>3, <4>6 DEF CompareOld, Goto, TypeOK, Alive
      <4>7. CASE RemoveOld(p)
        BY <1>0, <3>0, <4>1, <4>2, <4>3, <4>7 DEF RemoveOld, Goto, TypeOK, Alive
      <4>8. CASE Link(p) \/ Tidy(p)
        <5>1. pc'[p] \in {"tidy", "settings"}
          BY <3>2, <4>8 DEF Link, Tidy, Goto, TypeOK
        <5> QED
          BY <1>0, <3>0, <4>1, <4>2, <4>3, <5>1 DEF Alive
      <4> QED
        BY <1>3, <2>2, <3>2, <4>4, <4>5, <4>6, <4>7, <4>8 DEF LaunchStep, TidyFails
    <3> QED
      BY <3>1, <3>2
  <2> QED
    BY <2>1, <2>2
<1>4. ASSUME NEW p \in Procs, ServeStep(p) PROVE Alone(r)'
  <2>1. /\ UNCHANGED <<run, old, app, lone>>
        /\ pc[p] \in Beyond /\ pc'[p] \in Beyond \cup {"quit"}
        /\ \A q \in Procs \ {p} : pc'[q] = pc[q]
    BY <1>4, ServeEffect
  <2>2. pc[r] # "dead" /\ p = r
    BY <1>0, <2>1 DEF Alive, Beyond, Running
  <2> QED
    BY <1>0, <2>1, <2>2 DEF Alive, Beyond, Running
<1>5. ASSUME NEW p \in Procs, NEW t \in Threads, StopStep(p, t) PROVE Alone(r)'
  <2>1. lone = r /\ app' = app /\ stop[p][t].at # "no"
    BY <1>5 DEF StopStep, MarkStopping, StopCompare, StopRemove, WipeSettings, CloseRunFile, Exit
  <2>2. pc[p] \notin {"unborn", "dead"} \cup Launching
    BY <2>1 DEF Locks, Fresh, NoCleanup
  <2>3. CASE Exit(p, t)
    BY <1>2, <2>1, <2>3 DEF Exit
  <2>4. CASE ~Exit(p, t)
    <3>1. pc' = pc /\ old' = old
      BY <1>5, <2>4 DEF StopStep, MarkStopping, StopCompare, StopRemove, WipeSettings, CloseRunFile
    <3>2. p = r
      BY <1>0, <2>1, <2>2, <3>1 DEF Alive
    <3> QED
      BY <1>0, <2>1, <2>2, <3>1, <3>2 DEF Alive, Launching
  <2> QED
    BY <2>3, <2>4
<1>6. CASE AppStep
  <2>1. ASSUME NEW p \in Procs, AppFindsDead(p) PROVE Alone(r)'
    BY <2>1 DEF AppFindsDead
  <2>2. CASE AppCreatesSettings \/ SettingsDeleted
    BY <1>1, <2>2 DEF AppCreatesSettings, SettingsDeleted
  <2>3. CASE AppOpens \/ AppLocks \/ AppMatches \/ AppRemoves \/ AppReadsElsewhere
    <3>1. lone = r /\ pc' = pc /\ app # AppIdle
      BY <2>3 DEF AppOpens, AppLocks, AppMatches, AppRemoves, AppReadsElsewhere, AppIdle
    <3> QED
      BY <1>0, <3>1
  <2> QED
    BY <1>6, <2>1, <2>2, <2>3 DEF AppStep
<1>7. ASSUME NEW p \in Procs, Crash(p) \/ NumberTaken(p) \/ NumberFreed(p) PROVE Alone(r)'
  BY <1>1, <1>2, <1>7 DEF Crash, NumberTaken, NumberFreed
<1>8. CASE UNCHANGED vars
  BY <1>1, <1>8 DEF vars
<1> QED
  BY <1>3, <1>4, <1>5, <1>6, <1>7, <1>8 DEF Next

-----------------------------------------------------------------------------
(* The theorems.                                                           *)

LEMMA RunFileInit == Init => RunFileInv
<1> SUFFICES ASSUME Init PROVE RunFileInv
  OBVIOUS
<1> USE NoneAssumption, EarlierAssumption
<1>1. \A p \in Procs : pc[p] \in {"unborn", "dead"} /\ \A t \in Threads : stop[p][t] = NoCleanup
  BY DEF Init
<1>2. Claims
  BY <1>1 DEF Init, Claims, OneCleaner, Removing, AppRemoval, Office, InOffice, Running, NoCleanup,
              AppIdle
<1>3. SocketKept /\ Lone
  BY <1>1 DEF Init, SocketKept, Lone
<1> QED
  BY <1>2, <1>3, TypeInit, LocksInit DEF RunFileInv, Guarded

LEMMA RunFileStep == RunFileInv /\ [Next]_vars => RunFileInv'
BY TypeStep, LocksStep, GuardedStep, SocketStep, LoneStep DEF RunFileInv

\* The parts of the invariant hold throughout, for any number of launches and faults.
THEOREM RunFileInvariance == Spec => []RunFileInv
BY RunFileInit, RunFileStep, PTL DEF Spec

\* Every variable of the launches, their threads and the app keeps its shape; in particular a
\* launch opens, and the app examines, only inodes that some launch made.
THEOREM DaemonTypeOK == Spec => []TypeOK
<1>1. RunFileInv => TypeOK
  BY DEF RunFileInv
<1> QED
  BY <1>1, RunFileInvariance, PTL

\* daemon.run names the daemon in office: neither daemon_unlink_locked_run_path in another
\* launch, nor cleanup_daemon_files in another daemon, nor CLRemoveStaleDaemonArtifacts
\* removes it.
THEOREM RunFileKeptHolds == Spec => []RunFileKept
<1>1. RunFileInv => RunFileKept
  BY DEF RunFileInv, Guarded, Claims, Office, RunFileKept
<1> QED
  BY <1>1, RunFileInvariance, PTL

\* However many launches of daemon_main compete, one daemon at most is in office.
THEOREM OneDaemonHolds == Spec => []OneDaemon
<1>1. RunFileKept => OneDaemon
  BY DEF RunFileKept, OneDaemon
<1> QED
  BY <1>1, RunFileKeptHolds, PTL

\* The socket path leads to the daemon that serves (daemon_control_thread), unless a stopping
\* one went on to set up its own.
THEOREM SocketKeptHolds == Spec => []SocketKept
<1>1. RunFileInv => SocketKept
  BY DEF RunFileInv
<1> QED
  BY <1>1, RunFileInvariance, PTL

\* Whatever earlier daemons left, a launch of daemon_main beside which nothing runs publishes
\* itself, unless the number of the dead daemon it reads of is taken.
THEOREM LoneLaunchHolds == Spec => LoneLaunchStarts
<1> DEFINE A == \A p \in Procs : GivesUp(p) => lone # p \/ old[p] \in taken
<1>1. RunFileInv /\ [Next]_vars => A
  <2> SUFFICES ASSUME RunFileInv, [Next]_vars, NEW p \in Procs, GivesUp(p), lone = p
               PROVE  old[p] \in taken
    OBVIOUS
  <2> USE NoneAssumption DEF files, process, history
  <2>1. pc[p] \in Launching /\ pc'[p] = "dead" /\ faults' = faults /\ TypeOK
    BY DEF GivesUp, RunFileInv
  <2>2. /\ app = AppIdle
        /\ \A q \in Procs \ {p} : ~Alive(q)
        /\ pc[p] \in {"lock", "check", "compare", "remove"} => run = old[p]
        /\ pc[p] = "link" => run = None
    BY <2>1 DEF RunFileInv, Lone, Launching
  <2>3. ASSUME NEW q \in Procs, LaunchStep(q) PROVE old[p] \in taken
    <3>1. q = p
      <4>1. CASE Launch(q)
        BY <2>1, <4>1 DEF Launch, Goto, TypeOK, Launching
      <4>2. CASE ~Launch(q)
        BY <2>2, <2>3, <4>2 DEF LaunchStep, OpenOld, LockOld, CheckOld, CompareOld, RemoveOld, Link,
                                Tidy, TidyFails, Alive
      <4> QED
        BY <4>1, <4>2
    <3>2. CASE Launch(q) \/ OpenOld(q) \/ RemoveOld(q) \/ Tidy(q) \/ TidyFails(q)
      BY <2>1, <3>1, <3>2 DEF Launch, OpenOld, RemoveOld, Tidy, TidyFails, Goto, TypeOK, Launching
    <3>3. CASE LockOld(q)
      <4>1. old[p] \in Procs
        BY <3>1, <3>3 DEF RunFileInv, Locks, OldHeld, LockOld, TypeOK
      <4>2. lock[old[p]] = None
        BY <2>1, <2>2, <3>1, <3>3, <4>1 DEF RunFileInv, Locks, Holders, LockOld, TypeOK, Alive
      <4>3. ~AppReads(old[p])
        BY <2>2 DEF AppReads, AppIdle
      <4> QED
        BY <2>1, <3>1, <3>3, <4>2, <4>3 DEF LockOld, Goto, TypeOK
    <3>4. CASE CheckOld(q)
      <4>1. Exists(old[p])
        BY <2>1, <3>1, <3>4 DEF CheckOld, Goto, TypeOK
      <4>2. old[p] \in Procs \ {p}
        BY <3>1, <3>4 DEF RunFileInv, Locks, OldHeld, CheckOld, TypeOK
      <4> QED
        BY <2>2, <4>1, <4>2 DEF Exists
    <3>5. CASE CompareOld(q)
      BY <2>1, <2>2, <3>1, <3>5 DEF CompareOld, Goto, TypeOK
    <3>6. CASE Link(q)
      BY <2>1, <2>2, <3>1, <3>6 DEF Link, Goto, TypeOK
    <3> QED
      BY <2>3, <3>2, <3>3, <3>4, <3>5, <3>6 DEF LaunchStep
  <2>4. ASSUME NEW q \in Procs, ServeStep(q) PROVE FALSE
    <3>1. pc[q] \in Beyond /\ \A r \in Procs \ {q} : pc'[r] = pc[r]
      BY <2>1, <2>4, ServeEffect
    <3> QED
      BY <2>1, <2>2, <3>1 DEF Beyond, Launching, Running
  <2>5. ASSUME NEW q \in Procs, NEW t \in Threads, StopStep(q, t) PROVE FALSE
    <3>1. stop[q][t].at # "no"
      BY <2>5 DEF StopStep, MarkStopping, StopCompare, StopRemove, WipeSettings, CloseRunFile, Exit
    <3>2. pc[q] \notin {"unborn", "dead"} \cup Launching
      BY <3>1 DEF RunFileInv, Locks, Fresh, NoCleanup
    <3>3. q # p /\ Alive(q)
      BY <2>1, <3>2 DEF Alive
    <3> QED
      BY <2>2, <3>3
  <2>6. ~AppStep /\ ~UNCHANGED vars
    BY <2>1 DEF AppStep, AppFindsDead, AppOpens, AppLocks, AppMatches, AppRemoves,
                AppReadsElsewhere, AppCreatesSettings, SettingsDeleted, vars, Launching
  <2>7. ASSUME NEW q \in Procs, Crash(q) \/ NumberTaken(q) \/ NumberFreed(q) PROVE FALSE
    BY <2>1, <2>7 DEF Crash, NumberTaken, NumberFreed, TypeOK, Launching
  <2> QED
    BY <2>3, <2>4, <2>5, <2>6, <2>7 DEF Next
<1>2. A \/ UNCHANGED vars => [A]_vars
  OBVIOUS
<1> QED
  BY <1>1, <1>2, RunFileInvariance, PTL DEF Spec, LoneLaunchStarts
=============================================================================
