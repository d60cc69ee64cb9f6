------------------------------ MODULE WorkerCall ------------------------------
(***************************************************************************)
(* The privileged worker: the app's main thread sends it one command at a  *)
(* time over a pipe and blocks for the answer on another.  It writes       *)
(* preferences for the app and tunes the thermal state of the system.      *)
(*                                                                         *)
(* The worker inherits the app's ends of both pipes too, so it never sees  *)
(* the end of its input: it looks for its parent instead.  Nobody waits    *)
(* for it, so a dead worker stays a zombie that still answers kill(pid, 0).*)
(***************************************************************************)
EXTENDS Integers, Sequences

CONSTANTS
  Values,     \* the thresholds and reductions the app sets
  Tunes,      \* the thermal commands it sends: <<section, row, value>>
  MaxCalls,   \* bound on the calls
  MaxFaults,  \* bound on deaths, failed spawns and failed commits
  Absent      \* no value

ASSUME ValuesAssumption == Values \subseteq Nat /\ Absent \notin Nat
ASSUME TunesAssumption == Tunes \subseteq (0..15) \X (0..15) \X (0..255)
ASSUME BoundAssumption == MaxCalls \in Nat /\ MaxFaults \in Nat

VARIABLES
  sys,        \* the release of the system: "old", "15" or "16"; "catalyst" is a Mac
  app,        \* the main thread: "idle", "probe", "arg", "reply", "data", "gone"
  call,       \* the call it is in
  pid,        \* worker_pid: "none", "alive" or "zombie"
  wpc,        \* the worker: "cmd", "arg", "act", "data"
  wcmd,       \* the command it has read
  wret,       \* what its last thermal command returned
  down, back, \* the bytes in the two pipes, one element per write
  prefs,      \* the two preference suites
  therm,      \* OSThermalStatus.plist
  pressure,   \* the state behind kOSThermalNotificationPressureLevelName
  notif,      \* the state behind kOSThermalNotificationName
  calls, faults,
  \* History, for the properties:
  last,       \* the last call and what the app took for its answer
  acked,      \* what setters have stored with an acknowledgement
  doubt,      \* the preferences whose last setter got none
  died        \* the worker died or could not be spawned during a call

worker == <<pid, wpc, wcmd, wret>>
pipes  == <<down, back>>
stored == <<prefs, therm, pressure, notif>>
vars == <<sys, app, call, worker, pipes, stored, calls, faults, last, acked, doubt, died>>

-----------------------------------------------------------------------------
Prefs == {"plug", "thr", "bri"}
Plain == [k \in Prefs |-> Absent]

\* iOS 15 keeps only the backlight reduction in the older suite.
Suite == IF sys = "old" THEN "saver" ELSE "power"
SuiteForReduction == IF sys \in {"old", "15"} THEN "saver" ELSE "power"

\* A call: its command byte and its argument.
Calls == ({1, 2} \X {0, 1}) \cup ({3, 7} \X Values) \cup ({4, 6} \X {Absent}) \cup ({5} \X Tunes)
None == <<0, Absent>>
HasArgument(cmd) == cmd \notin {4, 6}

\* The answers: the byte 1, or the byte 2 and six bytes of data.
Ack == "1"
More == "2"
Lost == [ret |-> 0, value |-> 0, present |-> 0, plug |-> 0]     \* uint64_t data = 0
Data(value, present, plug) == [ret |-> value, value |-> value, present |-> present, plug |-> plug]

-----------------------------------------------------------------------------
(* Thermal tuning: OSThermalStatus.plist and the pressure notification.    *)

ThermRow == [OSNotif |-> <<1, 0>>, CLTM |-> <<1, 1>>, HIP |-> <<2, 0>>, SimulateHIP |-> <<2, 1>>,
             Sunlight |-> <<3, 1>>]
ThermKeys == DOMAIN ThermRow
NoTherm == [k \in ThermKeys |-> [on |-> Absent, persist |-> Absent]]

Failed == 1001                                                   \* kSCStatusFailed

\* setThermPrefs stores a key and, except for SimulateHIP, whether it persists.
Stored(k, on, persist) ==
  [therm EXCEPT ![k] = [on |-> on, persist |-> IF k = "SimulateHIP" THEN @.persist ELSE persist]]

\* A mutant: one scale of states for every system.
PressureStateOneScale(p) == IF p \in 1..5 THEN 10 * p ELSE 0

\* The state posted for a pressure (0 nominal .. 5 sleeping), and the pressure read back from
\* it; a Mac has no light pressure.
PressureState(p) ==
  IF sys = "catalyst"
  THEN CASE p \in {1, 2} -> 1 [] p \in 3..5 -> p - 1 [] OTHER -> 0
  ELSE IF p \in 1..5 THEN 10 * p ELSE 0

thermal_pressure ==
  CASE pressure = 0 -> 0
    [] pressure \in 1..4 -> pressure + 1
    [] pressure \in {10, 20, 30, 40, 50} -> pressure \div 10
    [] OTHER -> 6

Bit0(v) == v % 2
Bit1(v) == (v \div 2) % 2

\* What command 5 does for section, row and value: the new preferences and the new state.
\* A row it does not know fails with 1001; row 3.0 deletes the override or stores it as off.
TunedPrefs(tune) ==
  LET at == <<tune[1], tune[2]>> IN
  IF at = <<3, 0>>
  THEN IF Bit0(tune[3]) = 1 THEN [therm EXCEPT !["Sunlight"].on = Absent]
                            ELSE Stored("Sunlight", 0, 0)
  ELSE IF \E k \in ThermKeys : ThermRow[k] = at
  THEN Stored(CHOOSE k \in ThermKeys : ThermRow[k] = at, Bit0(tune[3]), Bit1(tune[3]))
  ELSE therm
Known(tune) == <<tune[1], tune[2]>> \in {ThermRow[k] : k \in ThermKeys} \cup {<<3, 0>>, <<4, 0>>}
Unsupported == -1                                                \* a Mac posts no such level

Init ==
  /\ sys \in {"old", "15", "16", "catalyst"}
  /\ app = "idle" /\ call = None
  /\ pid = "none" /\ wpc = "cmd" /\ wcmd = None /\ wret = 0
  /\ down = <<>> /\ back = <<>>
  /\ prefs = [s \in {"power", "saver"} |-> Plain] /\ therm = NoTherm /\ pressure = 0 /\ notif = 0
  /\ calls = 0 /\ faults = 0
  /\ last = [call |-> None, got |-> Lost] /\ acked = Plain /\ doubt = {} /\ died = FALSE

-----------------------------------------------------------------------------
(* battman_worker_call, on the main thread.                                *)

Begin(c) ==
  /\ app = "idle" /\ calls < MaxCalls
  /\ app' = "probe" /\ call' = c /\ calls' = calls + 1 /\ died' = FALSE
  /\ UNCHANGED <<sys, worker, pipes, stored, faults, last, acked, doubt>>

\* The first call spawns the worker.
Spawn ==
  /\ app = "probe" /\ pid = "none"
  /\ pid' = "alive" /\ wpc' = "cmd" /\ wcmd' = None /\ wret' = 0
  /\ down' = <<>> /\ back' = <<>>
  /\ UNCHANGED <<sys, app, call, stored, calls, faults, last, acked, doubt, died>>

\* The answer of a call; a setter that was acknowledged is known to be stored, one that was
\* not leaves the app in doubt.
Setter(cmd) == CASE cmd = 1 -> "plug" [] cmd \in {2, 3} -> "thr" [] cmd = 7 -> "bri" [] OTHER -> "no"
Wanted(c) == CASE c[1] = 2 -> (IF c[2] = 1 THEN 80 ELSE Absent) [] OTHER -> c[2]
Answered(got, known) ==
  /\ app' = "idle" /\ call' = None
  /\ last' = [call |-> call, got |-> got]
  /\ acked' = IF known /\ Setter(call[1]) \in Prefs
              THEN [acked EXCEPT ![Setter(call[1])] = Wanted(call)] ELSE acked
  /\ doubt' = IF known THEN doubt \ {Setter(call[1])} ELSE doubt \cup ({Setter(call[1])} \cap Prefs)

\* Without a worker every descriptor is -1: the call reads nothing and answers 0.
SpawnFails ==
  /\ app = "probe" /\ pid = "none"
  /\ faults < MaxFaults /\ faults' = faults + 1
  /\ died' = TRUE
  /\ Answered(Lost, FALSE)
  /\ UNCHANGED <<sys, worker, pipes, stored, calls>>

\* The command goes out; a pipe without a reader kills the app (SIGPIPE).
SendCommand ==
  /\ app = "probe" /\ pid # "none"
  /\ IF pid = "zombie" THEN app' = "gone" /\ UNCHANGED down
     ELSE /\ down' = Append(down, call[1])
          /\ app' = IF HasArgument(call[1]) THEN "arg" ELSE "reply"
  /\ UNCHANGED <<sys, call, worker, back, stored, calls, faults, last, acked, doubt, died>>

SendArgument ==
  /\ app = "arg"
  /\ IF pid = "zombie" THEN app' = "gone" /\ UNCHANGED down
     ELSE down' = Append(down, call[2]) /\ app' = "reply"
  /\ UNCHANGED <<sys, call, worker, back, stored, calls, faults, last, acked, doubt, died>>

\* retval: 2 announces data, anything else ends the call with 0.
Receive ==
  /\ app = "reply" /\ back # <<>>
  /\ back' = Tail(back)
  /\ IF Head(back) = More
     THEN app' = "data" /\ UNCHANGED <<call, last, acked, doubt>>
     ELSE Answered(Lost, Head(back) = Ack)
  /\ UNCHANGED <<sys, worker, down, stored, calls, faults, died>>

ReceiveData ==
  /\ app = "data" /\ back # <<>>
  /\ back' = Tail(back)
  /\ Answered(Head(back), FALSE)
  /\ UNCHANGED <<sys, worker, down, stored, calls, faults, died>>

\* The worker's death ends the pipe: retval stays whatever it was, and in every case the call
\* answers 0.
EndOfFile ==
  /\ app \in {"reply", "data"} /\ back = <<>> /\ pid = "zombie"
  /\ Answered(Lost, FALSE)
  /\ UNCHANGED <<sys, worker, pipes, stored, calls, faults, died>>

-----------------------------------------------------------------------------
(* battman_run_worker.                                                     *)

\* A mutant: command 2 does not take its argument out of the pipe.
ReadCommandShort ==
  /\ pid = "alive" /\ wpc = "cmd" /\ down # <<>>
  /\ wcmd' = <<Head(down), Absent>> /\ down' = Tail(down)
  /\ wpc' = IF HasArgument(Head(down)) /\ Head(down) # 2 THEN "arg" ELSE "act"
  /\ UNCHANGED <<sys, app, call, pid, wret, back, stored, calls, faults, last, acked, doubt, died>>

ReadCommand ==
  /\ pid = "alive" /\ wpc = "cmd" /\ down # <<>>
  /\ wcmd' = <<Head(down), Absent>> /\ down' = Tail(down)
  /\ wpc' = IF HasArgument(Head(down)) THEN "arg" ELSE "act"
  /\ UNCHANGED <<sys, app, call, pid, wret, back, stored, calls, faults, last, acked, doubt, died>>

ReadArgument ==
  /\ pid = "alive" /\ wpc = "arg" /\ down # <<>>
  /\ wcmd' = <<wcmd[1], Head(down)>> /\ down' = Tail(down)
  /\ wpc' = "act"
  /\ UNCHANGED <<sys, app, call, pid, wret, back, stored, calls, faults, last, acked, doubt, died>>

Store(suite, k, v) == prefs' = [prefs EXCEPT ![suite][k] = v]
Replies(step, msg) == wpc' = step /\ back' = Append(back, msg)

\* A mutant: command 7 stores its preference and sends no answer.
SetPreferenceSilent ==
  /\ pid = "alive" /\ wpc = "act" /\ wcmd[1] = 7
  /\ Store(SuiteForReduction, "bri", wcmd[2])
  /\ wpc' = "cmd" /\ wcmd' = None
  /\ UNCHANGED <<sys, app, call, pid, wret, pipes, therm, pressure, notif, calls, faults, last, acked, doubt, died>>

\* Commands 1, 2, 3 and 7 store a preference and acknowledge it.
SetPreference ==
  /\ pid = "alive" /\ wpc = "act"
  /\ \/ wcmd[1] = 1 /\ Store(Suite, "plug", wcmd[2])
     \/ wcmd[1] = 2 /\ Store(Suite, "thr", IF wcmd[2] = 0 THEN Absent ELSE 80)
     \/ wcmd[1] = 3 /\ Store(Suite, "thr", wcmd[2])
     \/ wcmd[1] = 7 /\ Store(SuiteForReduction, "bri", wcmd[2])
  /\ Replies("cmd", Ack) /\ wcmd' = None
  /\ UNCHANGED <<sys, app, call, pid, wret, down, therm, pressure, notif, calls, faults, last, acked, doubt, died>>

\* Commands 4, 5 and 6 announce data first; command 5 has done its work by then.
Announce ==
  /\ pid = "alive" /\ wpc = "act" /\ wcmd[1] \in {4, 6}
  /\ Replies("data", More)
  /\ UNCHANGED <<sys, app, call, pid, wcmd, wret, down, stored, calls, faults, last, acked, doubt, died>>

Tune ==
  /\ pid = "alive" /\ wpc = "act" /\ wcmd[1] = 5
  /\ LET tune == wcmd[2]
         at == <<tune[1], tune[2]>> IN
     \/ /\ therm' = TunedPrefs(tune)
        /\ pressure' = IF at = <<4, 0>> THEN PressureState(tune[3]) ELSE pressure
        /\ notif' = IF at = <<4, 1>> /\ sys # "catalyst" THEN tune[3] ELSE notif
        /\ wret' = CASE Known(tune) -> 0
                     [] at = <<4, 1>> -> IF sys = "catalyst" THEN Unsupported ELSE 0
                     [] OTHER -> Failed
        /\ UNCHANGED faults
     \/ /\ faults < MaxFaults /\ faults' = faults + 1
        /\ wret' = Failed
        /\ UNCHANGED <<therm, pressure, notif>>
  /\ Replies("data", More)
  /\ UNCHANGED <<sys, app, call, pid, wcmd, down, prefs, calls, last, acked, doubt, died>>

\* A preference that is absent reads as its default, and says so.
ReadOr(k, default) ==
  LET v == prefs[Suite][k] IN Data(IF v = Absent THEN default ELSE v, IF v = Absent THEN 0 ELSE 1,
                                   IF prefs[Suite].plug = 1 THEN 1 ELSE 0)
SendData ==
  /\ pid = "alive" /\ wpc = "data"
  /\ Replies("cmd", CASE wcmd[1] = 4 -> ReadOr("thr", 80)
                      [] wcmd[1] = 6 -> ReadOr("bri", 20)
                      [] OTHER -> Data(wret, 0, 0))
  /\ wcmd' = None /\ wret' = 0
  /\ UNCHANGED <<sys, app, call, pid, down, stored, calls, faults, last, acked, doubt, died>>

\* A mutant: the monitor looks only when a byte has come in.
ParentMonitorOnInput ==
  /\ pid = "alive" /\ app = "gone" /\ down # <<>>
  /\ pid' = "none"
  /\ UNCHANGED <<sys, app, call, wpc, wcmd, wret, pipes, stored, calls, faults, last, acked, doubt, died>>

\* parent_monitor finds itself adopted and ends the worker.
ParentMonitor ==
  /\ pid = "alive" /\ app = "gone"
  /\ pid' = "none"
  /\ UNCHANGED <<sys, app, call, wpc, wcmd, wret, pipes, stored, calls, faults, last, acked, doubt, died>>

Dies ==
  /\ pid = "alive" /\ app # "gone" /\ faults < MaxFaults
  /\ pid' = "zombie" /\ faults' = faults + 1 /\ died' = TRUE
  /\ UNCHANGED <<sys, app, call, wpc, wcmd, wret, pipes, stored, calls, last, acked, doubt>>

AppEnds ==
  /\ app # "gone"
  /\ app' = "gone"
  /\ pid' = IF pid = "zombie" THEN "none" ELSE pid          \* launchd reaps
  /\ UNCHANGED <<sys, call, wpc, wcmd, wret, pipes, stored, calls, faults, last, acked, doubt, died>>

Serve == ReadCommand \/ ReadArgument \/ SetPreference \/ Announce \/ Tune \/ SendData
Converse == Spawn \/ SpawnFails \/ SendCommand \/ SendArgument \/ Receive \/ ReceiveData \/ EndOfFile

Next == (\E c \in Calls : Begin(c)) \/ Converse \/ Serve \/ ParentMonitor \/ Dies \/ AppEnds

\* Threads that can run do; the monitor polls every ten seconds.
Spec == Init /\ [][Next]_vars /\ WF_vars(Converse) /\ WF_vars(Serve) /\ WF_vars(ParentMonitor)

-----------------------------------------------------------------------------
TypeOK ==
  /\ app \in {"idle", "probe", "arg", "reply", "data", "gone"} /\ call \in Calls \cup {None}
  /\ pid \in {"none", "alive", "zombie"} /\ wpc \in {"cmd", "arg", "act", "data"}
  /\ Len(down) <= 2 /\ Len(back) <= 2
  /\ \A s \in DOMAIN prefs : \A k \in Prefs : prefs[s][k] \in Values \cup {0, 1, 80, Absent}
  /\ therm \in [ThermKeys -> [on : {0, 1, Absent}, persist : {0, 1, Absent}]]
  /\ pressure \in {0, 1, 2, 3, 4, 10, 20, 30, 40, 50} /\ notif \in 0..255

\* Between calls no byte is left in either pipe and the worker waits for a command.
InStep ==
  (app = "idle" /\ pid = "alive") => down = <<>> /\ back = <<>> /\ wpc = "cmd"

\* What the app reads is what it last stored, or the default, through deaths and failures,
\* unless a setter went unanswered.  On iOS 15 alone the reduction is stored where it is not
\* read, and always reads as 20.
Reads(got, k, default) ==
  k \in doubt \/ got.value = IF acked[k] = Absent THEN default ELSE acked[k]
ReadBack ==
  (~died /\ app = "idle") =>
    /\ last.call[1] = 4 =>
         /\ Reads(last.got, "thr", 80)
         /\ "thr" \in doubt \/ (last.got.present = 1) = (acked.thr # Absent)
         /\ "plug" \in doubt \/ (last.got.plug = 1) = (acked.plug = 1)
    /\ last.call[1] = 6 => IF sys = "15" THEN last.got.value = 20 ELSE Reads(last.got, "bri", 20)

\* No call takes another one's answer for its own: the ends are in step whenever none is under
\* way (worker.c:363-396), and what a getter returns is what the last setter stored.
OwnAnswers == InStep /\ ReadBack

\* A tune reported as done (0) was done, as long as the worker lived: pressure reads back as
\* asked (a Mac takes light for moderate), a stored key holds what the row asked for.
TuneDone ==
  (~died /\ app = "idle" /\ last.call[1] = 5 /\ last.got.ret = 0) =>
    LET t == last.call[2] IN
    /\ (t[1] = 4 /\ t[2] = 0 /\ t[3] \in 0..5) =>
         thermal_pressure = IF sys = "catalyst" /\ t[3] = 1 THEN 2 ELSE t[3]
    /\ (t[1] = 3 /\ t[2] = 0) => therm["Sunlight"].on = IF Bit0(t[3]) = 1 THEN Absent ELSE 0
    /\ (t[1] = 4 /\ t[2] = 1) => notif = t[3] /\ sys # "catalyst"
    /\ \A k \in ThermKeys : ThermRow[k] = <<t[1], t[2]>> =>
         therm[k].on = Bit0(t[3]) /\ (k # "SimulateHIP" => therm[k].persist = Bit1(t[3]))

\* Every call ends, if only with the app: the two ends never wait for each other.
CallEnds == (app # "idle") ~> (app \in {"idle", "gone"})

\* No worker outlives its app.
OrphanEnds == (app = "gone") ~> (pid # "alive")
=============================================================================
