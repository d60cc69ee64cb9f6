------------------------------- MODULE ConfigDir -------------------------------
(***************************************************************************)
(* The directory that the app and the daemon share, and the socket they    *)
(* meet at.  Each process resolves both once, on first use: it makes every *)
(* directory of the path that is missing, gives the last one to the user   *)
(* mobile, and goes on with the path whatever came of it.  The daemon runs *)
(* as root and inherits the app's environment; either may be first, and    *)
(* either may die on the way and be launched again.                        *)
(***************************************************************************)
EXTENDS Naturals, Sequences

CONSTANTS
  Processes,    \* the app and the daemon
  MaxDeaths,    \* bound on deaths of a process
  MaxFailures   \* bound on calls that fail for reasons of their own

ASSUME ConfigDirAssumption ==
  Processes # {} /\ MaxDeaths \in Nat /\ MaxFailures \in Nat

VARIABLES
  place,        \* HOME: "container", or "plain"; the working directory when there is none
  long,         \* the socket's path in the directory is too long for a socket
  mobileKnown,  \* there is a user called mobile
  user,         \* the user of each process
  disk,         \* each name on the path: "none", "file", or a directory's owner
  step,         \* where each process is
  depth,        \* how much of the path it has been through
  socketPath,   \* where it looks for the daemon's socket
  rootOwned,    \* a root process has given the directory away
  alone,        \* no root process has run and none of the path was root's
  deaths, failures

configVars == <<place, long, mobileKnown, user, disk, step, depth, socketPath, rootOwned, alone,
                deaths, failures>>

Path == IF place = "container" THEN <<"home", "Library">> ELSE <<"home", ".config", "Battman">>
Target == Path[Len(Path)]
Names == {"home", "Library", ".config", "Battman"}
Users == {"mobile", "root"}

ConfigInit ==
  /\ place \in {"container", "plain"} /\ long \in BOOLEAN /\ mobileKnown \in BOOLEAN
  /\ user \in [Processes -> Users]
  /\ disk \in [Names -> {"none", "file"} \cup Users]
  /\ disk["home"] \in Users
  /\ disk[".config"] \notin Users => disk["Battman"] = "none"
  /\ place = "plain" => disk["Library"] = "none"
  /\ place = "container" => disk[".config"] = "none"
  /\ step = [p \in Processes |-> "start"]
  /\ depth = [p \in Processes |-> 1]
  /\ socketPath = [p \in Processes |-> "unresolved"]
  /\ rootOwned = FALSE
  /\ alone = ("root" \notin {disk[n] : n \in Names} /\ \A p \in Processes : user[p] = "mobile")
  /\ deaths = 0 /\ failures = 0

given == <<place, long, mobileKnown, user>>

MayFail(failed) == failures' = failures + (IF failed THEN 1 ELSE 0) /\ failures' <= MaxFailures

-----------------------------------------------------------------------------

\* battman_config_dir: without memory for the path it answers a fixed one, and makes nothing.
Resolve(p) ==
  /\ step[p] = "start"
  /\ \E memory \in BOOLEAN :
       /\ MayFail(~memory)
       /\ step' = [step EXCEPT ![p] = IF memory THEN "make" ELSE "elsewhere"]
  /\ depth' = [depth EXCEPT ![p] = 1]
  /\ UNCHANGED <<given, disk, socketPath, rootOwned, alone, deaths>>

Writable(p, i) == disk[Path[i - 1]] \in (IF user[p] = "root" THEN Users ELSE {"mobile"})

\* A mutant: a directory below HOME that is there already ends it too.
GoesOnIfNew(i, there, made) == (made \/ (there /\ i = 1)) /\ i < Len(Path)

\* What exists, be it a file, is passed over; what cannot be made ends mkdir_p.
GoesOn(i, there, made) == (made \/ there) /\ i < Len(Path)

\* One turn of mkdir_p.
MakeDir(p) ==
  /\ step[p] = "make"
  /\ \E fault \in BOOLEAN :
       LET i == depth[p]
           there == disk[Path[i]] # "none" /\ ~fault
           made == disk[Path[i]] = "none" /\ ~fault /\ Writable(p, i)
       IN  /\ MayFail(fault)
           /\ disk' = IF made THEN [disk EXCEPT ![Path[i]] = user[p]] ELSE disk
           /\ step' = [step EXCEPT ![p] = IF GoesOn(i, there, made) THEN "make" ELSE "own"]
           /\ depth' = [depth EXCEPT ![p] = IF GoesOn(i, there, made) THEN i + 1 ELSE i]
  /\ UNCHANGED <<given, socketPath, rootOwned, alone, deaths>>

\* chown: only root may give the directory away.
Own(p) ==
  /\ step[p] = "own"
  /\ LET gives == mobileKnown /\ user[p] = "root" /\ disk[Target] \in Users
     IN  /\ disk' = IF gives THEN [disk EXCEPT ![Target] = "mobile"] ELSE disk
         /\ rootOwned' = (rootOwned \/ (mobileKnown /\ user[p] = "root"))
  /\ step' = [step EXCEPT ![p] = "socket"]
  /\ UNCHANGED <<given, depth, socketPath, alone, deaths, failures>>

\* battman_socket_path: the first of the paths that fits, and for whose copy there is memory.
ChooseSocket(p) ==
  /\ step[p] \in {"socket", "elsewhere"}
  /\ LET inDirectory == IF step[p] = "socket" THEN Target ELSE "fallback directory"
         first == IF long /\ step[p] = "socket" THEN "/var/tmp" ELSE inDirectory
     IN  \E memory \in BOOLEAN :
           /\ MayFail(~memory)
           /\ socketPath' = [socketPath EXCEPT ![p] =
                IF memory THEN first ELSE IF first = "/var/tmp" THEN "/private/var/tmp" ELSE "/var/tmp"]
  /\ step' = [step EXCEPT ![p] = "ready"]
  /\ UNCHANGED <<given, disk, depth, rootOwned, alone, deaths>>

\* The process dies, and is launched again.
Die(p) ==
  /\ deaths < MaxDeaths
  /\ deaths' = deaths + 1
  /\ step[p] # "start"
  /\ step' = [step EXCEPT ![p] = "start"]
  /\ socketPath' = [socketPath EXCEPT ![p] = "unresolved"]
  /\ UNCHANGED <<given, disk, depth, rootOwned, alone, failures>>

ConfigNext ==
  \E p \in Processes : Resolve(p) \/ MakeDir(p) \/ Own(p) \/ ChooseSocket(p) \/ Die(p)

ConfigSpec == ConfigInit /\ [][ConfigNext]_configVars

-----------------------------------------------------------------------------

Ready == \A p \in Processes : step[p] = "ready"
InTheWay == \E i \in 1..Len(Path) : disk[Path[i]] = "file"

\* Once the app and the daemon have both resolved the directory, in any order and whatever died
\* on the way, it exists and the app can write to it, provided that one of them runs as root or
\* root has never had a part of the path; and both look for the socket at the same place.
DirReady ==
  Ready /\ failures = 0 =>
    /\ \A p, q \in Processes : socketPath[p] = socketPath[q]
    /\ ~InTheWay /\ (rootOwned \/ alone) => disk[Target] = "mobile"
=============================================================================
