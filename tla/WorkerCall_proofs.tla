------------------------- MODULE WorkerCall_proofs -------------------------
(***************************************************************************)
(* Theorems about WorkerCall, for any thresholds, commands and bounds.     *)
(***************************************************************************)
EXTENDS WorkerCall, SequenceTheorems, TLAPS

-----------------------------------------------------------------------------
(* The inductive invariant.                                                *)

\* The suite a preference is stored in.
Home == [k \in Prefs |-> IF k = "bri" THEN SuiteForReduction ELSE Suite]

States == {0, 1, Absent}
Shape ==
  /\ sys \in {"old", "15", "16", "catalyst"}
  /\ app \in {"idle", "probe", "arg", "reply", "data"} /\ call \in Calls \cup {None}
  /\ pid \in {"none", "alive", "zombie"}
  /\ prefs \in [{"power", "saver"} -> [Prefs -> Nat \cup {Absent}]]
  /\ acked \in [Prefs -> Nat \cup {Absent}]
  /\ therm \in [ThermKeys -> [on : States, persist : States]]

\* The system and the preferences are as a tune that reports 0 has asked.
Done(t) ==
  /\ (t[1] = 4 /\ t[2] = 0 /\ t[3] \in 0..5) =>
       thermal_pressure = IF sys = "catalyst" /\ t[3] = 1 THEN 2 ELSE t[3]
  /\ (t[1] = 3 /\ t[2] = 0) => therm["Sunlight"].on = IF Bit0(t[3]) = 1 THEN Absent ELSE 0
  /\ (t[1] = 4 /\ t[2] = 1) => notif = t[3] /\ sys # "catalyst"
  /\ \A k \in ThermKeys : ThermRow[k] = <<t[1], t[2]>> =>
       therm[k].on = Bit0(t[3]) /\ (k # "SimulateHIP" => therm[k].persist = Bit1(t[3]))

\* What a call is answered with is true of the preferences and the system as they are.
Honest(data) ==
  /\ call[1] \in {4, 5, 6}
  /\ call[1] = 4 => data = ReadOr("thr", 80)
  /\ call[1] = 6 => data = ReadOr("bri", 20)
  /\ call[1] = 5 /\ data.ret = 0 => Done(call[2])

\* The worker has read the call and has yet to act on it.
Heard == down = <<>> /\ back = <<>> /\ wpc = "act" /\ wcmd = call

\* It is about to send the data of an answer it has announced.
Prepared ==
  /\ down = <<>> /\ wpc = "data" /\ wcmd = call /\ call[1] \in {4, 5, 6}
  /\ call[1] = 5 /\ wret = 0 => Done(call[2])

\* What the pipes hold of a conversation, wherever the app is in it.
AtRest == down = <<>> /\ back = <<>> /\ wpc = "cmd"

Asking ==
  /\ HasArgument(call[1]) /\ back = <<>>
  /\ \/ down = <<call[1]>> /\ wpc = "cmd"
     \/ down = <<>> /\ wpc = "arg" /\ wcmd = <<call[1], Absent>>

Unheard ==
  /\ back = <<>>
  /\ \/ wpc = "cmd" /\ HasArgument(call[1]) /\ down = <<call[1], call[2]>>
     \/ wpc = "cmd" /\ ~HasArgument(call[1]) /\ down = <<call[1]>>
     \/ wpc = "arg" /\ HasArgument(call[1]) /\ wcmd = <<call[1], Absent>> /\ down = <<call[2]>>

Acknowledged ==
  /\ back = <<Ack>> /\ down = <<>> /\ wpc = "cmd"
  /\ Setter(call[1]) \in Prefs
  /\ prefs[Home[Setter(call[1])]][Setter(call[1])] = Wanted(call)

Replied ==
  \/ back = <<More>> /\ Prepared
  \/ \E data : back = <<More, data>> /\ Honest(data) /\ down = <<>> /\ wpc = "cmd"

Reading ==
  \/ back = <<>> /\ Prepared
  \/ \E data : back = <<data>> /\ Honest(data) /\ down = <<>> /\ wpc = "cmd"

InConversation ==
  /\ app \in {"idle", "probe"} /\ pid = "alive" => AtRest
  /\ app = "arg" => Asking
  /\ app = "reply" => Unheard \/ Heard \/ Acknowledged \/ Replied
  /\ app = "data" => Reading

\* A call is under way between its command and its answer, with a worker that lived at its begin.
Living ==
  /\ app \in {"probe", "arg", "reply", "data"} => call \in Calls
  /\ app \in {"arg", "reply", "data"} => pid # "none" /\ (pid = "zombie" => died)

\* The app knows what is stored but for what it is in doubt about and what it is setting.
Stocked ==
  /\ \A k \in Prefs : \/ k \in doubt \/ prefs[Home[k]][k] = acked[k]
                      \/ app = "reply" /\ Setter(call[1]) = k
  /\ sys = "15" => prefs["power"]["bri"] = Absent

Inside == Shape /\ InConversation /\ Living /\ Stocked /\ ReadBack /\ TuneDone

\* The app is gone for good; what the worker goes on with concerns nobody.
WorkerInv == app # "gone" => Inside

-----------------------------------------------------------------------------
(* The pipes and the calls.                                                *)

\* One or two bytes in a pipe.
LEMMA Bytes ==
  ASSUME NEW x, NEW y
  PROVE  /\ Append(<<>>, x) = <<x>> /\ Append(<<x>>, y) = <<x, y>>
         /\ <<x>> # <<>> /\ <<x, y>> # <<>>
         /\ Head(<<x>>) = x /\ Tail(<<x>>) = <<>>
         /\ Head(<<x, y>>) = x /\ Tail(<<x, y>>) = <<y>>
<1>1. Append(<<x>>, y) = <<x, y>>
  <2>1. <<x>> \in Seq({x, y}) /\ <<x, y>> \in Seq({x, y})
    OBVIOUS
  <2>2. /\ Append(<<x>>, y) \in Seq({x, y}) /\ Len(Append(<<x>>, y)) = 2
        /\ Append(<<x>>, y)[1] = x /\ Append(<<x>>, y)[2] = y
    BY <2>1
  <2>3. Len(<<x, y>>) = 2 /\ <<x, y>>[1] = x /\ <<x, y>>[2] = y
    OBVIOUS
  <2>4. \A i \in 1..2 : Append(<<x>>, y)[i] = <<x, y>>[i]
    BY <2>2, <2>3
  <2> QED
    BY <2>1, <2>2, <2>3, <2>4, SeqEqual
<1>2. Append(<<>>, x) = <<x>>
  OBVIOUS
<1>3. <<x>> # <<>> /\ <<x, y>> # <<>>
  OBVIOUS
<1>4. Head(<<x>>) = x /\ Tail(<<x>>) = <<>>
  OBVIOUS
<1>5. Head(<<x, y>>) = x /\ Tail(<<x, y>>) = <<y>>
  OBVIOUS
<1> QED
  BY <1>1, <1>2, <1>3, <1>4, <1>5

\* A call by its command.
LEMMA CallShape ==
  ASSUME NEW c \in Calls
  PROVE  /\ c = <<c[1], c[2]>> /\ c[1] \in 1..7
         /\ c[1] \in {1, 2} => c[2] \in {0, 1}
         /\ c[1] \in {3, 7} => c[2] \in Nat
         /\ c[1] \in {4, 6} => c[2] = Absent
         /\ c[1] = 5 => c[2] \in (0..15) \X (0..15) \X (0..255)
         /\ HasArgument(c[1]) <=> c[1] \notin {4, 6}
<1>1. CASE c \in {1, 2} \X {0, 1}
  BY <1>1 DEF HasArgument
<1>2. CASE c \in {3, 7} \X Values
  <2>1. c = <<c[1], c[2]>> /\ c[1] \in {3, 7} /\ c[2] \in Values
    BY <1>2
  <2>2. c[2] \in Nat
    BY <2>1, ValuesAssumption
  <2> QED
    BY <2>1, <2>2 DEF HasArgument
<1>3. CASE c \in {4, 6} \X {Absent}
  BY <1>3 DEF HasArgument
<1>4. CASE c \in {5} \X Tunes
  BY <1>4, TunesAssumption DEF HasArgument
<1> QED
  BY <1>1, <1>2, <1>3, <1>4 DEF Calls

\* Its preference and the value it is to have.
LEMMA SetterShape ==
  ASSUME NEW c \in Calls
  PROVE  /\ Setter(c[1]) \in Prefs <=> c[1] \in {1, 2, 3, 7}
         /\ c[1] \in {1, 2, 3, 7} => Wanted(c) \in Nat \cup {Absent}
         /\ c[1] = 1 => Setter(c[1]) = "plug" /\ Wanted(c) = c[2]
         /\ c[1] \in {2, 3} => Setter(c[1]) = "thr"
         /\ c[1] = 2 => Wanted(c) = IF c[2] = 0 THEN Absent ELSE 80
         /\ c[1] = 3 => Wanted(c) = c[2]
         /\ c[1] = 7 => Setter(c[1]) = "bri" /\ Wanted(c) = c[2]
BY CallShape DEF Setter, Wanted, Prefs

-----------------------------------------------------------------------------
(* A tune that reports 0.                                                  *)

\* Every key has a row of its own, and none that of another command.
LEMMA Rows ==
  /\ ThermKeys = {"OSNotif", "CLTM", "HIP", "SimulateHIP", "Sunlight"}
  /\ \A k \in ThermKeys : ThermRow[k] \notin {<<3, 0>>, <<4, 0>>, <<4, 1>>}
  /\ \A j, k \in ThermKeys : ThermRow[j] = ThermRow[k] => j = k
<1>1. ThermKeys = {"OSNotif", "CLTM", "HIP", "SimulateHIP", "Sunlight"}
  BY DEF ThermKeys, ThermRow
<1>2. /\ ThermRow["OSNotif"] = <<1, 0>> /\ ThermRow["CLTM"] = <<1, 1>> /\ ThermRow["HIP"] = <<2, 0>>
      /\ ThermRow["SimulateHIP"] = <<2, 1>> /\ ThermRow["Sunlight"] = <<3, 1>>
  BY DEF ThermRow
<1> QED
  BY <1>1, <1>2

\* A bit of a byte.
LEMMA Bits == ASSUME NEW v \in 0..255 PROVE Bit0(v) \in {0, 1} /\ Bit1(v) \in {0, 1}
BY DEF Bit0, Bit1

\* Storing a key changes that key alone.
LEMMA StoredShape ==
  ASSUME Shape, NEW k \in ThermKeys, NEW on \in {0, 1}, NEW persist \in {0, 1}
  PROVE  /\ Stored(k, on, persist) \in [ThermKeys -> [on : States, persist : States]]
         /\ Stored(k, on, persist)[k].on = on
         /\ k # "SimulateHIP" => Stored(k, on, persist)[k].persist = persist
<1>1. therm \in [ThermKeys -> [on : States, persist : States]] /\ on \in States /\ persist \in States
      /\ therm[k].persist \in States
  BY DEF Shape, States
<1> QED
  BY <1>1 DEF Stored

\* What TunedPrefs makes of the preferences.
LEMMA TunedShape ==
  ASSUME Shape, NEW t \in (0..15) \X (0..15) \X (0..255)
  PROVE  /\ TunedPrefs(t) \in [ThermKeys -> [on : States, persist : States]]
         /\ t[1] = 3 /\ t[2] = 0 =>
              TunedPrefs(t)["Sunlight"].on = IF Bit0(t[3]) = 1 THEN Absent ELSE 0
         /\ \A k \in ThermKeys : ThermRow[k] = <<t[1], t[2]>> =>
              /\ TunedPrefs(t)[k].on = Bit0(t[3])
              /\ k # "SimulateHIP" => TunedPrefs(t)[k].persist = Bit1(t[3])
<1>1. t[3] \in 0..255 /\ Bit0(t[3]) \in {0, 1} /\ Bit1(t[3]) \in {0, 1} /\ "Sunlight" \in ThermKeys
  BY Bits, Rows
<1>2. CASE <<t[1], t[2]>> = <<3, 0>>
  <2>1. TunedPrefs(t) = IF Bit0(t[3]) = 1 THEN [therm EXCEPT !["Sunlight"].on = Absent]
                        ELSE Stored("Sunlight", 0, 0)
    BY <1>2 DEF TunedPrefs
  <2>2. /\ Stored("Sunlight", 0, 0) \in [ThermKeys -> [on : States, persist : States]]
        /\ Stored("Sunlight", 0, 0)["Sunlight"].on = 0
    BY <1>1, StoredShape
  <2>3. /\ [therm EXCEPT !["Sunlight"].on = Absent] \in [ThermKeys -> [on : States, persist : States]]
        /\ [therm EXCEPT !["Sunlight"].on = Absent]["Sunlight"].on = Absent
    <3>1. therm \in [ThermKeys -> [on : States, persist : States]] /\ Absent \in States
      BY DEF Shape, States
    <3> QED
      BY <1>1, <3>1
  <2>4. \A k \in ThermKeys : ThermRow[k] # <<t[1], t[2]>>
    BY <1>2, Rows
  <2> QED
    BY <2>1, <2>2, <2>3, <2>4
<1>3. ASSUME NEW k \in ThermKeys, ThermRow[k] = <<t[1], t[2]>>
      PROVE  TunedPrefs(t) = Stored(k, Bit0(t[3]), Bit1(t[3]))
  <2>1. <<t[1], t[2]>> # <<3, 0>>
    BY <1>3, Rows
  <2>2. (CHOOSE j \in ThermKeys : ThermRow[j] = <<t[1], t[2]>>) = k
    BY <1>3, Rows
  <2> QED
    BY <1>3, <2>1, <2>2 DEF TunedPrefs
<1>4. CASE \E k \in ThermKeys : ThermRow[k] = <<t[1], t[2]>>
  <2>1. PICK k \in ThermKeys : ThermRow[k] = <<t[1], t[2]>>
    BY <1>4
  <2>2. /\ TunedPrefs(t) \in [ThermKeys -> [on : States, persist : States]]
        /\ TunedPrefs(t)[k].on = Bit0(t[3])
        /\ k # "SimulateHIP" => TunedPrefs(t)[k].persist = Bit1(t[3])
    <3> DEFINE on == Bit0(t[3])
               persist == Bit1(t[3])
    <3>1. TunedPrefs(t) = Stored(k, on, persist) /\ on \in {0, 1} /\ persist \in {0, 1}
      BY <1>1, <1>3, <2>1
    <3> HIDE DEF on, persist
    <3>2. /\ Stored(k, on, persist) \in [ThermKeys -> [on : States, persist : States]]
          /\ Stored(k, on, persist)[k].on = on
          /\ k # "SimulateHIP" => Stored(k, on, persist)[k].persist = persist
      BY <3>1, StoredShape
    <3> QED
      BY <3>1, <3>2 DEF on, persist
  <2>3. ~(t[1] = 3 /\ t[2] = 0) /\ \A j \in ThermKeys : ThermRow[j] = <<t[1], t[2]>> => j = k
    BY <2>1, Rows
  <2> QED
    BY <2>2, <2>3
<1>5. CASE ~(\E k \in ThermKeys : ThermRow[k] = <<t[1], t[2]>>) /\ <<t[1], t[2]>> # <<3, 0>>
  <2>1. TunedPrefs(t) = therm
    BY <1>5 DEF TunedPrefs
  <2> QED
    BY <1>5, <2>1 DEF Shape
<1> QED
  BY <1>2, <1>4, <1>5

\* A pressure that was asked for reads back as it was, but that a Mac has no light one.
LEMMA PressureReads ==
  ASSUME Shape, sys' = sys, NEW p \in 0..5, pressure' = PressureState(p)
  PROVE  thermal_pressure' = IF sys' = "catalyst" /\ p = 1 THEN 2 ELSE p
<1>1. CASE sys = "catalyst"
  BY <1>1 DEF PressureState, thermal_pressure
<1>2. CASE sys # "catalyst"
  BY <1>2 DEF PressureState, thermal_pressure
<1> QED
  BY <1>1, <1>2

\* What command 5 reports as done is done.
LEMMA TuneWorks ==
  ASSUME Shape, call \in Calls, call[1] = 5, wcmd = call, Tune
  PROVE  /\ wret' = 0 => Done(call[2])'
         /\ therm' \in [ThermKeys -> [on : States, persist : States]]
<1> DEFINE t == call[2]
<1>1. t \in (0..15) \X (0..15) \X (0..255) /\ t[3] \in 0..255 /\ t = wcmd[2]
  BY CallShape
<1>2. sys' = sys /\ call' = call
  BY DEF Tune
<1>3. CASE UNCHANGED therm /\ wret' = Failed
  BY <1>3 DEF Shape, Failed
<1>4. CASE /\ therm' = TunedPrefs(t)
           /\ pressure' = IF <<t[1], t[2]>> = <<4, 0>> THEN PressureState(t[3]) ELSE pressure
           /\ notif' = IF <<t[1], t[2]>> = <<4, 1>> /\ sys # "catalyst" THEN t[3] ELSE notif
           /\ wret' = CASE Known(t) -> 0
                        [] <<t[1], t[2]>> = <<4, 1>> -> IF sys = "catalyst" THEN Unsupported ELSE 0
                        [] OTHER -> Failed
  <2> HIDE DEF t
  <2>1. therm' \in [ThermKeys -> [on : States, persist : States]]
    BY <1>1, <1>4, TunedShape
  <2>2. t[1] = 4 /\ t[2] = 0 /\ t[3] \in 0..5 =>
          thermal_pressure' = IF sys' = "catalyst" /\ t[3] = 1 THEN 2 ELSE t[3]
    BY <1>2, <1>4, PressureReads
  <2>3. /\ t[1] = 3 /\ t[2] = 0 => therm'["Sunlight"].on = IF Bit0(t[3]) = 1 THEN Absent ELSE 0
        /\ \A k \in ThermKeys : ThermRow[k] = <<t[1], t[2]>> =>
             therm'[k].on = Bit0(t[3]) /\ (k # "SimulateHIP" => therm'[k].persist = Bit1(t[3]))
    BY <1>1, <1>4, TunedShape
  <2>4. t[1] = 4 /\ t[2] = 1 /\ wret' = 0 => notif' = t[3] /\ sys' # "catalyst"
    <3>1. t[1] = 4 /\ t[2] = 1 => ~Known(t)
      BY Rows DEF Known
    <3> QED
      BY <1>2, <1>4, <3>1 DEF Unsupported
  <2>5. t' = t
    BY <1>2 DEF t
  <2>6. wret' = 0 => Done(t)'
    BY <2>2, <2>3, <2>4, <2>5 DEF Done
  <2> QED
    BY <2>1, <2>6 DEF t
<1>5. \/ UNCHANGED therm /\ wret' = Failed
      \/ /\ therm' = TunedPrefs(t)
         /\ pressure' = IF <<t[1], t[2]>> = <<4, 0>> THEN PressureState(t[3]) ELSE pressure
         /\ notif' = IF <<t[1], t[2]>> = <<4, 1>> /\ sys # "catalyst" THEN t[3] ELSE notif
         /\ wret' = CASE Known(t) -> 0
                      [] <<t[1], t[2]>> = <<4, 1>> -> IF sys = "catalyst" THEN Unsupported ELSE 0
                      [] OTHER -> Failed
  BY <1>1 DEF Tune
<1> QED
  BY <1>3, <1>4, <1>5

-----------------------------------------------------------------------------
(* The answer of a call.                                                   *)

\* What a call without data or with honest data is answered with agrees with what the app knows.
LEMMA HonestReads ==
  ASSUME Shape, Stocked, call \in Calls, NEW got, Honest(got)
  PROVE  /\ call[1] = 4 =>
              /\ "thr" \in doubt \/ got.value = IF acked["thr"] = Absent THEN 80 ELSE acked["thr"]
              /\ "thr" \in doubt \/ (got.present = 1 <=> acked["thr"] # Absent)
              /\ "plug" \in doubt \/ (got.plug = 1 <=> acked["plug"] = 1)
         /\ call[1] = 6 =>
              IF sys = "15" THEN got.value = 20
              ELSE "bri" \in doubt \/ got.value = IF acked["bri"] = Absent THEN 20 ELSE acked["bri"]
<1>1. Prefs = {"plug", "thr", "bri"}
  BY DEF Prefs
<1>2. call[1] = 4 \/ call[1] = 6 => Setter(call[1]) = "no"
  BY DEF Setter
<1>3. CASE call[1] = 4
  <2>1. ("thr" \in doubt \/ prefs[Suite]["thr"] = acked["thr"]) /\ ("plug" \in doubt \/ prefs[Suite]["plug"] = acked["plug"])
    BY <1>1, <1>2, <1>3 DEF Stocked, Home
  <2>2. got = ReadOr("thr", 80)
    BY <1>3 DEF Honest
  <2>3. /\ got.value = IF prefs[Suite]["thr"] = Absent THEN 80 ELSE prefs[Suite]["thr"]
        /\ got.present = IF prefs[Suite]["thr"] = Absent THEN 0 ELSE 1
        /\ got.plug = IF prefs[Suite]["plug"] = 1 THEN 1 ELSE 0
    BY <2>2 DEF ReadOr, Data
  <2> QED
    BY <1>3, <2>1, <2>3
<1>4. CASE call[1] = 6
  <2>1. got = ReadOr("bri", 20)
    BY <1>4 DEF Honest
  <2>2. got.value = IF prefs[Suite]["bri"] = Absent THEN 20 ELSE prefs[Suite]["bri"]
    BY <2>1 DEF ReadOr, Data
  <2>3. CASE sys = "15"
    BY <1>4, <2>2, <2>3 DEF Stocked, Suite
  <2>4. CASE sys # "15"
    <3>1. Home["bri"] = Suite
      BY <1>1, <2>4 DEF Home, SuiteForReduction, Suite, Shape
    <3>2. "bri" \in doubt \/ prefs[Suite]["bri"] = acked["bri"]
      BY <1>1, <1>2, <1>4, <3>1 DEF Stocked
    <3> QED
      BY <1>4, <2>2, <2>4, <3>2
  <2> QED
    BY <2>3, <2>4
<1> QED
  BY <1>3, <1>4

\* The answer leaves the app knowing what is stored, and in doubt about what it cannot know.
LEMMA AnswerKeeps ==
  ASSUME Inside, app \in {"probe", "reply", "data"}, call \in Calls,
         NEW got, NEW known \in BOOLEAN, Answered(got, known), UNCHANGED <<sys, stored, pid>>,
         pid' = "alive" => AtRest',
         known => /\ Setter(call[1]) \in Prefs
                  /\ prefs[Home[Setter(call[1])]][Setter(call[1])] = Wanted(call),
         died' \/ known \/ Honest(got)
  PROVE  Inside'
<1>1. /\ app' = "idle" /\ call' = None /\ last' = [call |-> call, got |-> got]
      /\ acked' = IF known /\ Setter(call[1]) \in Prefs
                  THEN [acked EXCEPT ![Setter(call[1])] = Wanted(call)] ELSE acked
      /\ doubt' = IF known THEN doubt \ {Setter(call[1])} ELSE doubt \cup ({Setter(call[1])} \cap Prefs)
      /\ UNCHANGED <<sys, pid, prefs, therm, pressure, notif>>
  BY DEF Answered, stored
<1>2. Shape'
  <2>1. acked' \in [Prefs -> Nat \cup {Absent}]
    BY <1>1, SetterShape DEF Inside, Shape
  <2> QED
    BY <1>1, <2>1 DEF Inside, Shape
<1>3. InConversation' /\ Living'
  BY <1>1 DEF InConversation, Living
<1>4. Stocked'
  <2>1. Home' = Home
    BY <1>1 DEF Home, Suite, SuiteForReduction
  <2>2. ASSUME NEW k \in Prefs PROVE k \in doubt' \/ prefs'[Home'[k]][k] = acked'[k]
    <3>1. CASE Setter(call[1]) = k
      BY <1>1, <2>1, <2>2, <3>1 DEF Inside, Shape
    <3>2. CASE Setter(call[1]) # k
      <4>1. acked'[k] = acked[k] /\ (k \in doubt => k \in doubt')
        BY <1>1, <2>2, <3>2 DEF Inside, Shape
      <4>2. k \in doubt \/ prefs[Home[k]][k] = acked[k]
        BY <2>2, <3>2 DEF Inside, Stocked
      <4> QED
        BY <1>1, <2>1, <4>1, <4>2
    <3> QED
      BY <3>1, <3>2
  <2>3. sys' = "15" => prefs'["power"]["bri"] = Absent
    BY <1>1 DEF Inside, Stocked
  <2> QED
    BY <2>2, <2>3 DEF Stocked
<1>5. /\ last'.call = call /\ last'.got = got
      /\ call[1] \in {4, 5, 6} => Setter(call[1]) \notin Prefs
  BY <1>1 DEF Setter, Prefs
<1>6. ReadBack'
  <2>1. CASE died'
    BY <2>1 DEF ReadBack
  <2>2. CASE known
    BY <1>5, <2>2 DEF ReadBack
  <2>3. CASE ~known /\ Honest(got)
    <3>1. acked' = acked /\ doubt' = doubt
      BY <1>1, <1>5, <2>3 DEF Honest
    <3>2. Shape /\ Stocked
      BY DEF Inside
    <3> QED
      BY <1>1, <1>5, <2>3, <3>1, <3>2, HonestReads DEF ReadBack, Reads
  <2> QED
    BY <2>1, <2>2, <2>3
<1>7. TuneDone'
  <2>1. CASE died'
    BY <2>1 DEF TuneDone
  <2>2. CASE known
    BY <1>5, <2>2 DEF TuneDone
  <2>3. CASE Honest(got)
    <3>1. call[1] = 5 /\ got.ret = 0 => Done(call[2])
      BY <2>3 DEF Honest
    <3> QED
      BY <1>1, <1>5, <3>1 DEF TuneDone, Done, thermal_pressure
  <2> QED
    BY <2>1, <2>2, <2>3
<1> QED
  BY <1>1, <1>2, <1>3, <1>4, <1>6, <1>7 DEF Inside

-----------------------------------------------------------------------------
(* The worker.                                                             *)

\* The worker has something to do in the middle of a call only, and the app waits meanwhile.
LEMMA ServeFrame ==
  ASSUME Inside, Serve
  PROVE  /\ pid = "alive" /\ app \in {"arg", "reply", "data"} /\ call \in Calls
         /\ UNCHANGED <<sys, app, call, pid, last, acked, doubt, died>>
         /\ Living' /\ ReadBack' /\ TuneDone'
         /\ call = <<call[1], call[2]>> /\ (call[1] \in {4, 6} => call[2] = Absent)
         /\ HasArgument(call[1]) <=> call[1] \notin {4, 6}
<1>1. pid = "alive" /\ UNCHANGED <<sys, app, call, pid, last, acked, doubt, died>>
  BY DEF Serve, ReadCommand, ReadArgument, SetPreference, Announce, Tune, SendData
<1>2. \/ wpc # "cmd" \/ down # <<>>
  BY DEF Serve, ReadCommand, ReadArgument, SetPreference, Announce, Tune, SendData
<1>3. app \in {"arg", "reply", "data"} /\ call \in Calls
  BY <1>1, <1>2 DEF Inside, InConversation, AtRest, Living, Shape
<1>4. Living' /\ ReadBack' /\ TuneDone'
  BY <1>1, <1>3 DEF Inside, Living, ReadBack, TuneDone
<1>5. /\ call = <<call[1], call[2]>> /\ (call[1] \in {4, 6} => call[2] = Absent)
      /\ HasArgument(call[1]) <=> call[1] \notin {4, 6}
  BY <1>3, CallShape
<1> QED
  BY <1>1, <1>3, <1>4, <1>5

\* What the pipes say when the worker has something to do.
LEMMA ServeFinds ==
  ASSUME Inside, Serve
  PROVE  /\ wpc = "cmd" /\ down # <<>> =>
              /\ back = <<>>
              /\ \/ app = "arg" /\ HasArgument(call[1]) /\ down = <<call[1]>>
                 \/ app = "reply" /\ HasArgument(call[1]) /\ down = <<call[1], call[2]>>
                 \/ app = "reply" /\ ~HasArgument(call[1]) /\ down = <<call[1]>>
         /\ wpc = "arg" /\ down # <<>> =>
              /\ app = "reply" /\ back = <<>> /\ HasArgument(call[1])
              /\ wcmd = <<call[1], Absent>> /\ down = <<call[2]>>
         /\ wpc = "act" => app = "reply" /\ Heard
         /\ wpc = "data" => /\ Prepared
                           /\ \/ app = "reply" /\ back = <<More>>
                              \/ app = "data" /\ back = <<>>
<1>1. app \in {"arg", "reply", "data"}
  BY ServeFrame
<1>2. CASE app = "arg"
  BY <1>2 DEF Inside, InConversation, Asking
<1>3. CASE app = "reply"
  <2>1. Unheard \/ Heard \/ Acknowledged \/ Replied
    BY <1>3 DEF Inside, InConversation
  <2>2. CASE Unheard
    BY <1>3, <2>2 DEF Unheard
  <2>3. CASE Heard
    BY <1>3, <2>3 DEF Heard
  <2>4. CASE Acknowledged
    BY <1>3, <2>4 DEF Acknowledged
  <2>5. CASE Replied
    BY <1>3, <2>5 DEF Replied, Prepared
  <2> QED
    BY <2>1, <2>2, <2>3, <2>4, <2>5
<1>4. CASE app = "data"
  BY <1>4 DEF Inside, InConversation, Reading, Prepared
<1> QED
  BY <1>1, <1>2, <1>3, <1>4

\* The worker hears the call.
LEMMA HearingKeeps == ASSUME Inside, ReadCommand \/ ReadArgument PROVE Inside'
<1>1. /\ Serve /\ app' = app /\ call' = call /\ back' = back /\ pid' = pid
      /\ UNCHANGED <<sys, stored, acked, doubt>>
  BY DEF Serve, ReadCommand, ReadArgument
<1>2. Living' /\ ReadBack' /\ TuneDone' /\ app \in {"arg", "reply", "data"}
      /\ call = <<call[1], call[2]>> /\ (~HasArgument(call[1]) => call[2] = Absent)
  BY <1>1, ServeFrame
<1>3. Shape' /\ Stocked'
  BY <1>1 DEF Inside, Shape, Stocked, Home, Suite, SuiteForReduction, stored
<1>4. CASE ReadCommand
  <2>1. wpc = "cmd" /\ down # <<>> /\ wcmd' = <<Head(down), Absent>> /\ down' = Tail(down)
        /\ wpc' = IF HasArgument(Head(down)) THEN "arg" ELSE "act"
    BY <1>4 DEF ReadCommand
  <2>2. ASSUME app = "arg" PROVE InConversation'
    <3>1. down = <<call[1]>> /\ back = <<>> /\ HasArgument(call[1])
      BY <1>1, <2>1, <2>2, ServeFinds
    <3>2. down' = <<>> /\ wcmd' = <<call[1], Absent>> /\ wpc' = "arg"
      BY <2>1, <3>1, Bytes
    <3> QED
      BY <1>1, <2>2, <3>1, <3>2 DEF InConversation, Asking
  <2>3. ASSUME app = "reply", HasArgument(call[1]) PROVE InConversation'
    <3>1. down = <<call[1], call[2]>> /\ back = <<>>
      BY <1>1, <2>1, <2>3, ServeFinds
    <3>2. down' = <<call[2]>> /\ wcmd' = <<call[1], Absent>> /\ wpc' = "arg"
      BY <2>1, <2>3, <3>1, Bytes
    <3> QED
      BY <1>1, <2>3, <3>1, <3>2 DEF InConversation, Unheard
  <2>4. ASSUME app = "reply", ~HasArgument(call[1]) PROVE InConversation'
    <3>1. down = <<call[1]>> /\ back = <<>>
      BY <1>1, <2>1, <2>4, ServeFinds
    <3>2. down' = <<>> /\ wcmd' = call /\ wpc' = "act"
      BY <1>2, <2>1, <2>4, <3>1, Bytes
    <3> QED
      BY <1>1, <2>4, <3>1, <3>2 DEF InConversation, Heard
  <2>5. app # "data"
    BY <1>1, <2>1, ServeFinds
  <2>6. InConversation'
    BY <1>2, <2>2, <2>3, <2>4, <2>5
  <2> QED
    BY <1>2, <1>3, <2>6 DEF Inside
<1>5. CASE ReadArgument
  <2>1. wpc = "arg" /\ down # <<>> /\ wcmd' = <<wcmd[1], Head(down)>> /\ down' = Tail(down)
        /\ wpc' = "act"
    BY <1>5 DEF ReadArgument
  <2>2. app = "reply" /\ back = <<>> /\ wcmd = <<call[1], Absent>> /\ down = <<call[2]>>
    BY <1>1, <2>1, ServeFinds
  <2>3. down' = <<>> /\ wcmd' = call
    BY <1>2, <2>1, <2>2, Bytes
  <2>4. InConversation'
    BY <1>1, <2>1, <2>2, <2>3 DEF InConversation, Heard
  <2> QED
    BY <1>2, <1>3, <2>4 DEF Inside
<1> QED
  BY <1>4, <1>5

\* It stores a preference for the app and acknowledges it.
LEMMA StoringKeeps == ASSUME Inside, SetPreference PROVE Inside'
<1>1. /\ Serve /\ wpc = "act" /\ UNCHANGED <<sys, app, call, pid, down, therm, acked, doubt>>
      /\ wpc' = "cmd" /\ back' = Append(back, Ack)
  BY DEF Serve, SetPreference, Replies
<1>2. /\ app = "reply" /\ Heard /\ call \in Calls /\ Living' /\ ReadBack' /\ TuneDone'
  BY <1>1, ServeFrame, ServeFinds
<1> DEFINE k == Setter(call[1])
           suite == Home[k]
           v == Wanted(call)
<1>3. /\ k \in Prefs /\ v \in Nat \cup {Absent} /\ suite \in {"power", "saver"}
      /\ prefs' = [prefs EXCEPT ![suite][k] = v]
      /\ k = "bri" => suite = SuiteForReduction
  <2>1. Home["plug"] = Suite /\ Home["thr"] = Suite /\ Home["bri"] = SuiteForReduction
    BY DEF Home, Prefs
  <2>2. Suite \in {"power", "saver"} /\ SuiteForReduction \in {"power", "saver"}
    BY DEF Suite, SuiteForReduction
  <2>3. CASE call[1] = 1
    BY <1>2, <2>1, <2>2, <2>3, SetterShape DEF SetPreference, Store, Heard
  <2>4. CASE call[1] = 2
    BY <1>2, <2>1, <2>2, <2>4, SetterShape DEF SetPreference, Store, Heard
  <2>5. CASE call[1] = 3
    BY <1>2, <2>1, <2>2, <2>5, SetterShape DEF SetPreference, Store, Heard
  <2>6. CASE call[1] = 7
    BY <1>2, <2>1, <2>2, <2>6, SetterShape DEF SetPreference, Store, Heard
  <2>7. call[1] \in {1, 2, 3, 7}
    BY <1>2 DEF SetPreference, Heard
  <2> QED
    BY <2>3, <2>4, <2>5, <2>6, <2>7
<1> HIDE DEF k, suite, v
<1>4. prefs \in [{"power", "saver"} -> [Prefs -> Nat \cup {Absent}]]
  BY DEF Inside, Shape
<1>5. /\ prefs' \in [{"power", "saver"} -> [Prefs -> Nat \cup {Absent}]] /\ prefs'[suite][k] = v
      /\ \A s \in {"power", "saver"} : \A j \in Prefs : s # suite \/ j # k => prefs'[s][j] = prefs[s][j]
  BY <1>3, <1>4
<1>6. Shape'
  BY <1>1, <1>5 DEF Inside, Shape
<1>7. Home' = Home /\ \A j \in Prefs : Home[j] \in {"power", "saver"}
  BY <1>1 DEF Home, Suite, SuiteForReduction
<1>8. Stocked'
  <2>1. ASSUME NEW j \in Prefs, j # k
        PROVE  j \in doubt' \/ prefs'[Home'[j]][j] = acked'[j]
    <3>1. j \in doubt \/ prefs[Home[j]][j] = acked[j]
      BY <1>2, <2>1 DEF Inside, Stocked, k
    <3> QED
      BY <1>1, <1>5, <1>7, <2>1, <3>1
  <2>2. app' = "reply" /\ Setter(call'[1]) = k
    BY <1>1, <1>2 DEF k
  <2>3. sys' = "15" => prefs'["power"]["bri"] = Absent
    <3>1. sys = "15" /\ k = "bri" => suite # "power"
      BY <1>3 DEF SuiteForReduction
    <3>2. "bri" \in Prefs
      BY DEF Prefs
    <3> QED
      BY <1>1, <1>5, <3>1, <3>2 DEF Inside, Stocked
  <2> QED
    BY <2>1, <2>2, <2>3 DEF Stocked
<1>9. InConversation'
  <2>1. back' = <<Ack>> /\ down' = <<>>
    BY <1>1, <1>2, Bytes DEF Heard
  <2>2. Acknowledged'
    BY <1>1, <1>3, <1>5, <1>7, <2>1 DEF Acknowledged, k, suite, v
  <2> QED
    BY <1>1, <1>2, <2>2 DEF InConversation
<1> QED
  BY <1>2, <1>6, <1>8, <1>9 DEF Inside

\* It announces data, having tuned the system if that was the call, and sends them.
LEMMA TellingKeeps == ASSUME Inside, Announce \/ Tune \/ SendData PROVE Inside'
<1>1. /\ Serve /\ UNCHANGED <<sys, app, call, pid, down, prefs, acked, doubt>>
  BY DEF Serve, Announce, Tune, SendData, stored
<1>2. call \in Calls /\ Living' /\ ReadBack' /\ TuneDone'
  BY <1>1, ServeFrame
<1>3. Stocked'
  BY <1>1 DEF Inside, Stocked, Home, Suite, SuiteForReduction
<1>4. CASE Announce \/ Tune
  <2>1. /\ app = "reply" /\ Heard /\ wcmd' = wcmd /\ wpc' = "data" /\ back' = Append(back, More)
        /\ call[1] \in {4, 5, 6}
    BY <1>1, <1>4, ServeFinds DEF Announce, Tune, Replies, Heard
  <2>2. /\ therm' \in [ThermKeys -> [on : States, persist : States]]
        /\ call[1] = 5 /\ wret' = 0 => Done(call[2])'
    <3>1. CASE Announce
      <4>1. call[1] # 5
        BY <2>1, <3>1 DEF Announce, Heard
      <4> QED
        BY <3>1, <4>1 DEF Announce, stored, Inside, Shape
    <3>2. CASE Tune
      <4>1. call[1] = 5
        BY <2>1, <3>2 DEF Tune, Heard
      <4> QED
        BY <1>2, <2>1, <3>2, <4>1, TuneWorks DEF Inside, Heard
    <3> QED
      BY <1>4, <3>1, <3>2
  <2>3. Shape'
    BY <1>1, <2>2 DEF Inside, Shape
  <2>4. back' = <<More>> /\ Prepared'
    BY <1>1, <2>1, <2>2, Bytes DEF Prepared, Heard
  <2>5. InConversation'
    BY <1>1, <2>1, <2>4 DEF InConversation, Replied
  <2> QED
    BY <1>2, <1>3, <2>3, <2>5 DEF Inside
<1>5. CASE SendData
  <2>1. PICK data :
          /\ data = CASE wcmd[1] = 4 -> ReadOr("thr", 80)
                     [] wcmd[1] = 6 -> ReadOr("bri", 20)
                     [] OTHER -> Data(wret, 0, 0)
          /\ back' = Append(back, data)
    BY <1>5 DEF SendData, Replies
  <2>2. /\ wpc' = "cmd" /\ UNCHANGED <<therm, pressure, notif>>
        /\ Prepared
        /\ \/ app = "reply" /\ back = <<More>>
           \/ app = "data" /\ back = <<>>
    BY <1>1, <1>5, ServeFinds DEF SendData, Replies, stored
  <2>3. Honest(data)
    BY <2>1, <2>2 DEF Prepared, Honest, Data
  <2>4. Honest(data)'
    BY <1>1, <2>2, <2>3 DEF Honest, ReadOr, Suite, Done, thermal_pressure
  <2>5. Shape'
    BY <1>1, <2>2 DEF Inside, Shape
  <2>6. InConversation'
    <3>1. CASE app = "reply"
      <4>1. back' = <<More, data>> /\ down' = <<>>
        BY <1>1, <2>1, <2>2, <3>1, Bytes DEF Prepared
      <4> QED
        BY <1>1, <2>2, <2>4, <3>1, <4>1 DEF InConversation, Replied
    <3>2. CASE app = "data"
      <4>1. back' = <<data>> /\ down' = <<>>
        BY <1>1, <2>1, <2>2, <3>2, Bytes DEF Prepared
      <4> QED
        BY <1>1, <2>2, <2>4, <3>2, <4>1 DEF InConversation, Reading
    <3> QED
      BY <2>2, <3>1, <3>2
  <2> QED
    BY <1>2, <1>3, <2>5, <2>6 DEF Inside
<1> QED
  BY <1>4, <1>5

-----------------------------------------------------------------------------
(* The app.                                                                *)

\* A step that moves the call on without an answer changes nothing the app knows.
LEMMA CallFrame ==
  ASSUME Inside, app' \in {"probe", "arg", "reply", "data"}, call' \in Calls,
         \/ app # "reply"
         \/ call' = call /\ app' = "reply"
         \/ Setter(call[1]) \notin Prefs,
         UNCHANGED <<sys, prefs, therm, acked, doubt>>, pid' \in {"none", "alive", "zombie"},
         app' # "probe" => pid' # "none" /\ (pid' = "zombie" => died'),
         InConversation'
  PROVE  Inside'
<1>1. Shape'
  BY DEF Inside, Shape
<1>2. Living' /\ ReadBack' /\ TuneDone'
  BY DEF Living, ReadBack, TuneDone
<1>3. Home' = Home
  BY DEF Home, Suite, SuiteForReduction
<1>4. Stocked'
  <2>1. ASSUME NEW k \in Prefs
        PROVE  k \in doubt' \/ prefs'[Home'[k]][k] = acked'[k] \/ (app' = "reply" /\ Setter(call'[1]) = k)
    BY <1>3, <2>1 DEF Inside, Stocked
  <2>2. sys' = "15" => prefs'["power"]["bri"] = Absent
    BY DEF Inside, Stocked
  <2> QED
    BY <2>1, <2>2 DEF Stocked
<1> QED
  BY <1>1, <1>2, <1>4 DEF Inside

\* The app begins a call, and has a worker for it.
LEMMA BeginKeeps == ASSUME Inside, (\E c \in Calls : Begin(c)) \/ Spawn PROVE Inside'
<1>1. CASE \E c \in Calls : Begin(c)
  <2>1. /\ app = "idle" /\ app' = "probe" /\ call' \in Calls
        /\ UNCHANGED <<sys, prefs, therm, acked, doubt, pid, wpc, down, back>>
    BY <1>1 DEF Begin, worker, pipes, stored
  <2>2. InConversation'
    BY <2>1 DEF Inside, InConversation, AtRest
  <2>3. pid' \in {"none", "alive", "zombie"}
    BY <2>1 DEF Inside, Shape
  <2> QED
    BY <2>1, <2>2, <2>3, CallFrame
<1>2. CASE Spawn
  <2>1. /\ app = "probe" /\ app' = "probe" /\ UNCHANGED <<sys, call, prefs, therm, acked, doubt>>
        /\ pid' = "alive" /\ wpc' = "cmd" /\ down' = <<>> /\ back' = <<>>
    BY <1>2 DEF Spawn, stored
  <2>2. InConversation' /\ call' \in Calls
    BY <2>1 DEF Inside, InConversation, AtRest, Living
  <2> QED
    BY <2>1, <2>2, CallFrame
<1> QED
  BY <1>1, <1>2

\* It sends the command and its argument, unless the pipe has no reader.
LEMMA SendingKeeps ==
  ASSUME Inside, SendCommand \/ SendArgument, app' # "gone" PROVE Inside'
<1>1. CASE SendCommand
  <2>1. /\ app = "probe" /\ pid = "alive" /\ down' = Append(down, call[1])
        /\ app' = IF HasArgument(call[1]) THEN "arg" ELSE "reply"
        /\ UNCHANGED <<sys, call, prefs, therm, acked, doubt, pid, wpc, back>>
    <3>1. pid = "alive"
      BY <1>1 DEF SendCommand, Inside, Shape
    <3> QED
      BY <1>1, <3>1 DEF SendCommand, worker, stored
  <2>2. call \in Calls /\ down = <<>> /\ back = <<>> /\ wpc = "cmd"
    BY <2>1 DEF Inside, Living, InConversation, AtRest
  <2>3. down' = <<call[1]>>
    BY <2>1, <2>2, Bytes
  <2>4. InConversation'
    BY <2>1, <2>2, <2>3 DEF InConversation, Asking, Unheard
  <2> QED
    BY <2>1, <2>2, <2>4, CallFrame
<1>2. CASE SendArgument
  <2>1. /\ app = "arg" /\ pid # "zombie" /\ down' = Append(down, call[2]) /\ app' = "reply"
        /\ UNCHANGED <<sys, call, prefs, therm, acked, doubt, pid, wpc, wcmd, back>>
    BY <1>2 DEF SendArgument, worker, stored
  <2>2. call \in Calls /\ pid = "alive" /\ Asking
    BY <2>1 DEF Inside, Living, InConversation, Shape
  <2>3. ASSUME down = <<call[1]>>, wpc = "cmd" PROVE InConversation'
    <3>1. down' = <<call[1], call[2]>>
      BY <2>1, <2>3, Bytes
    <3> QED
      BY <2>1, <2>2, <2>3, <3>1 DEF InConversation, Asking, Unheard
  <2>4. ASSUME down = <<>>, wpc = "arg" PROVE InConversation'
    <3>1. down' = <<call[2]>>
      BY <2>1, <2>4, Bytes
    <3> QED
      BY <2>1, <2>2, <2>4, <3>1 DEF InConversation, Asking, Unheard
  <2>5. InConversation'
    BY <2>2, <2>3, <2>4 DEF Asking
  <2> QED
    BY <2>1, <2>2, <2>5, CallFrame
<1> QED
  BY <1>1, <1>2

\* It takes its answer out of the pipe, or finds that there will be none.
LEMMA AnswersKeep ==
  ASSUME Inside, Receive \/ ReceiveData \/ EndOfFile \/ SpawnFails PROVE Inside'
<1>1. CASE SpawnFails
  <2>1. /\ app = "probe" /\ Answered(Lost, FALSE) /\ died' /\ pid = "none" /\ pid' = pid
        /\ UNCHANGED <<sys, stored>>
    BY <1>1 DEF SpawnFails, worker
  <2>2. call \in Calls
    BY <2>1 DEF Inside, Living
  <2> QED
    BY <2>1, <2>2, AnswerKeeps
<1>2. CASE EndOfFile
  <2>1. /\ app \in {"reply", "data"} /\ Answered(Lost, FALSE) /\ pid = "zombie" /\ pid' = pid /\ died' = died
        /\ UNCHANGED <<sys, stored>>
    BY <1>2 DEF EndOfFile, worker
  <2>2. call \in Calls /\ died
    BY <2>1 DEF Inside, Living
  <2> QED
    BY <2>1, <2>2, AnswerKeeps
<1>3. CASE ReceiveData
  <2>1. /\ app = "data" /\ back # <<>> /\ back' = Tail(back) /\ Answered(Head(back), FALSE)
        /\ UNCHANGED <<sys, stored, pid, wpc, down>>
    BY <1>3 DEF ReceiveData, worker
  <2>2. PICK data : back = <<data>> /\ Honest(data) /\ down = <<>> /\ wpc = "cmd"
    BY <2>1 DEF Inside, InConversation, Reading
  <2>3. Head(back) = data /\ back' = <<>> /\ call \in Calls
    BY <2>1, <2>2, Bytes DEF Inside, Living
  <2>4. AtRest'
    BY <2>1, <2>2, <2>3 DEF AtRest
  <2> QED
    BY <2>1, <2>2, <2>3, <2>4, AnswerKeeps
<1>4. CASE Receive
  <2>1. /\ app = "reply" /\ back # <<>> /\ back' = Tail(back) /\ call \in Calls
        /\ pid \in {"alive", "zombie"} /\ (pid = "zombie" => died)
        /\ UNCHANGED <<sys, stored, pid, wpc, wcmd, wret, down, died>>
    BY <1>4 DEF Receive, worker, Inside, Living, Shape
  <2>2. Acknowledged \/ Replied
    BY <2>1 DEF Inside, InConversation, Unheard, Heard
  <2>3. CASE Acknowledged
    <3>1. Head(back) = Ack /\ back' = <<>> /\ Ack # More
      BY <2>1, <2>3, Bytes DEF Acknowledged, Ack, More
    <3>2. Answered(Lost, TRUE)
      BY <1>4, <3>1 DEF Receive
    <3>3. AtRest'
      BY <2>1, <2>3, <3>1 DEF AtRest, Acknowledged
    <3> QED
      BY <2>1, <2>3, <3>2, <3>3, AnswerKeeps DEF Acknowledged
  <2>4. CASE Replied
    <3>1. Head(back) = More
      BY <2>4, Bytes DEF Replied
    <3>2. app' = "data" /\ UNCHANGED <<call, acked, doubt>>
      BY <1>4, <3>1 DEF Receive
    <3>3. Setter(call[1]) \notin Prefs
      BY <2>4 DEF Replied, Prepared, Honest, Setter, Prefs
    <3>4. Reading'
      <4>1. CASE back = <<More>> /\ Prepared
        <5>1. back' = <<>>
          BY <2>1, <4>1, Bytes
        <5> QED
          BY <2>1, <3>2, <4>1, <5>1 DEF Reading, Prepared, Done, thermal_pressure, stored
      <4>2. CASE \E data : back = <<More, data>> /\ Honest(data) /\ down = <<>> /\ wpc = "cmd"
        <5>1. PICK data : back = <<More, data>> /\ Honest(data) /\ down = <<>> /\ wpc = "cmd"
          BY <4>2
        <5>2. back' = <<data>>
          BY <2>1, <5>1, Bytes
        <5>3. Honest(data)'
          BY <2>1, <3>2, <5>1 DEF Honest, ReadOr, Suite, Done, thermal_pressure, stored
        <5> QED
          BY <2>1, <5>1, <5>2, <5>3 DEF Reading
      <4> QED
        BY <2>4, <4>1, <4>2 DEF Replied
    <3>5. InConversation'
      BY <3>2, <3>4 DEF InConversation
    <3>6. UNCHANGED <<prefs, therm>>
      BY <2>1 DEF stored
    <3> QED
      BY <2>1, <3>2, <3>3, <3>5, <3>6, CallFrame
  <2> QED
    BY <2>2, <2>3, <2>4
<1> QED
  BY <1>1, <1>2, <1>3, <1>4

\* The worker dies: what it has sent is still in the pipe.
LEMMA DeathKeeps == ASSUME Inside, Dies PROVE Inside'
<1>1. /\ pid' = "zombie" /\ died'
      /\ UNCHANGED <<sys, app, call, wpc, wcmd, wret, down, back, prefs, therm, pressure, notif, last, acked, doubt>>
  BY DEF Dies, pipes, stored
<1>2. Shape' /\ Living' /\ ReadBack' /\ TuneDone'
  BY <1>1 DEF Inside, Shape, Living, ReadBack, TuneDone
<1>3. Stocked'
  BY <1>1 DEF Inside, Stocked, Home, Suite, SuiteForReduction
<1>4. Unheard' = Unheard /\ Heard' = Heard /\ Prepared' = Prepared /\ Asking' = Asking
  BY <1>1 DEF Unheard, Heard, Prepared, Asking, Done, thermal_pressure
<1>5. Acknowledged => Acknowledged'
  BY <1>1 DEF Acknowledged, Home, Suite, SuiteForReduction
<1>6. ASSUME NEW data, Honest(data) PROVE Honest(data)'
  BY <1>1, <1>6 DEF Honest, ReadOr, Suite, Done, thermal_pressure
<1>7. (Replied => Replied') /\ (Reading => Reading')
  BY <1>1, <1>4, <1>6 DEF Replied, Reading
<1>8. InConversation'
  BY <1>1, <1>4, <1>5, <1>7 DEF Inside, InConversation
<1> QED
  BY <1>2, <1>3, <1>8 DEF Inside

-----------------------------------------------------------------------------
(* The theorems.                                                           *)

\* The invariant holds before the first call.
LEMMA WorkerInit == Init => WorkerInv
<1> SUFFICES ASSUME Init PROVE Inside
  BY DEF WorkerInv
<1>1. prefs \in [{"power", "saver"} -> [Prefs -> Nat \cup {Absent}]]
  BY DEF Init, Plain
<1>2. therm \in [ThermKeys -> [on : States, persist : States]]
  BY DEF Init, NoTherm, States
<1>3. Shape
  BY <1>1, <1>2 DEF Init, Shape, Plain
<1>4. InConversation /\ Living
  BY DEF Init, InConversation, Living
<1>5. Stocked
  <2>1. \A k \in Prefs : Home[k] \in {"power", "saver"}
    BY DEF Home, Suite, SuiteForReduction
  <2> QED
    BY <2>1 DEF Init, Stocked, Plain, Prefs
<1>6. ReadBack /\ TuneDone
  <2>1. last.call[1] = 0
    BY DEF Init, None
  <2> QED
    BY <2>1 DEF ReadBack, TuneDone
<1> QED
  BY <1>3, <1>4, <1>5, <1>6 DEF Inside

\* And every step keeps it, or ends the app.
LEMMA WorkerStep == WorkerInv /\ [Next]_vars => WorkerInv'
<1> SUFFICES ASSUME WorkerInv, [Next]_vars PROVE WorkerInv'
  OBVIOUS
<1>1. CASE app = "gone"
  <2>1. app' = "gone"
    BY <1>1 DEF vars, Next, Begin, Converse, Spawn, SpawnFails, SendCommand, SendArgument, Receive, ReceiveData,
       EndOfFile, Serve, ReadCommand, ReadArgument, SetPreference, Announce, Tune, SendData, ParentMonitor, Dies,
       AppEnds
  <2> QED
    BY <2>1 DEF WorkerInv
<1>2. CASE app # "gone" /\ app' # "gone"
  <2>1. Inside
    BY <1>2 DEF WorkerInv
  <2>2. ASSUME Next PROVE Inside'
    BY <1>2, <2>1, <2>2, BeginKeeps, SendingKeeps, AnswersKeep, HearingKeeps, StoringKeeps, TellingKeeps, DeathKeeps
       DEF Next, Converse, Serve, ParentMonitor, AppEnds
  <2>3. CASE UNCHANGED vars
    <3>1. UNCHANGED <<sys, app, call, pid, wpc, wcmd, wret, down, back, prefs, therm, pressure, notif, last,
                      acked, doubt, died>>
      BY <2>3 DEF vars, worker, pipes, stored
    <3>2. Shape' /\ Living'
      BY <2>1, <3>1 DEF Inside, Shape, Living
    <3>3. ReadBack'
      BY <2>1, <3>1 DEF Inside, ReadBack, Reads
    <3>4. TuneDone'
      BY <2>1, <3>1 DEF Inside, TuneDone, thermal_pressure
    <3>5. Stocked'
      BY <2>1, <3>1 DEF Inside, Stocked, Home, Suite, SuiteForReduction
    <3>6. Unheard' = Unheard /\ Heard' = Heard /\ Prepared' = Prepared /\ Asking' = Asking
      BY <3>1 DEF Unheard, Heard, Prepared, Asking, Done, thermal_pressure
    <3>7. Acknowledged => Acknowledged'
      BY <3>1 DEF Acknowledged, Home, Suite, SuiteForReduction
    <3>8. ASSUME NEW data, Honest(data) PROVE Honest(data)'
      BY <3>1, <3>8 DEF Honest, ReadOr, Suite, Done, thermal_pressure
    <3>9. (Replied => Replied') /\ (Reading => Reading')
      BY <3>1, <3>6, <3>8 DEF Replied, Reading
    <3>10. InConversation'
      <4>1. AtRest' = AtRest
        BY <3>1 DEF AtRest
      <4> QED
        BY <2>1, <3>1, <3>6, <3>7, <3>9, <4>1 DEF Inside, InConversation
    <3> QED
      BY <3>2, <3>3, <3>4, <3>5, <3>10 DEF Inside, WorkerInv
  <2> QED
    BY <2>2, <2>3 DEF WorkerInv
<1>3. CASE app' = "gone"
  BY <1>3 DEF WorkerInv
<1> QED
  BY <1>1, <1>2, <1>3

\* The parts of the invariant hold throughout, for any values, commands and bounds.
THEOREM WorkerInvariance == Spec => []WorkerInv
BY WorkerInit, WorkerStep, PTL DEF Spec

\* battman_worker_call never takes another call's answer for its own, and the app reads back what it
\* has stored, whatever dies or fails to be spawned in between.
THEOREM OwnAnswersHolds == Spec => []OwnAnswers
<1>1. WorkerInv => OwnAnswers
  <2>1. CASE app = "gone"
    BY <2>1 DEF OwnAnswers, InStep, ReadBack
  <2>2. CASE app # "gone"
    BY <2>2 DEF WorkerInv, Inside, InConversation, AtRest, OwnAnswers, InStep
  <2> QED
    BY <2>1, <2>2
<1> QED
  BY <1>1, WorkerInvariance, PTL

\* What command 5 reports as done (0) is in OSThermalStatus.plist or in the notification's state.
THEOREM TuneDoneHolds == Spec => []TuneDone
<1>1. WorkerInv => TuneDone
  <2>1. CASE app = "gone"
    BY <2>1 DEF TuneDone
  <2>2. CASE app # "gone"
    BY <2>2 DEF WorkerInv, Inside
  <2> QED
    BY <2>1, <2>2
<1> QED
  BY <1>1, WorkerInvariance, PTL
=============================================================================
