------------------------ MODULE ChargeControl_proofs ------------------------
(***************************************************************************)
(* Theorems about ChargeControl, for batteries of any scale and any number *)
(* of failures, edits and changes of the device.                           *)
(***************************************************************************)
EXTENDS ChargeControl, TLAPS

-----------------------------------------------------------------------------
(* The inductive invariant.                                                *)

\* Nothing is under way unless the daemon runs, and it starts with empty caches.
Lifecycle ==
  /\ up # "running" => \A t \in Threads : ~Busy(t)
  /\ up = "starting" => \A k \in Keys : cache[k] = "unknown"

\* Unless something is upset one thread is busy at a time.
OneBusy == ~upset => \A t, u \in Threads : Busy(t) /\ Busy(u) => t = u

\* Between its write and its note a thread has its key as it wants it.
Written == ~upset => \A t \in Threads : th[t].at = "note" => key[Target(t)] = th[t].inhibit

\* A key's cache is true but for the key of a note to come, and during a stop.
CacheKept ==
  up = "running" /\ ~upset
    => \A k \in Keys : \/ cache[k] \in {"unknown", Bit(key[k])}
                       \/ \E t \in Threads : th[t].at = "note" /\ Target(t) = k
                       \/ th["client"].at \in {"stopC", "leave"}

\* A stop goes on only with the keys it has released.
StopKept ==
  ~upset => /\ th["client"].at \in {"stopC", "leave"} => ~key["CH0I"]
            /\ th["client"].at = "leave" => ~key["CH0C"]

\* Only client stops by command, and the other threads never are in one.
Steps3 == \A t \in Threads : th[t].at \in {"stopI", "stopC"} => t = "client"

Switching == {"probe", "compare", "write"}

Band(t) == /\ settings.resume # Off /\ settings.resume < th[t].level
           /\ th[t].level < settings.limit

\* What an undisturbed update knows at each of its steps.
Knows(t) ==
  th[t].quiet =>
    /\ stores = <<>>
    /\ th[t].at \in {"decide", "paired", "alone"} \cup Switching
         => Valid(settings.resume, settings.limit)
    /\ th[t].at = "paired" => settings.resume # Off /\ settings.resume < th[t].level
    /\ th[t].at = "alone" => settings.resume = Off
    /\ th[t].at \in Switching
         => ~Band(t) /\ (th[t].inhibit <=> AtLeast(th[t].level, settings.limit))

Asks(t) == th[t].at \in {"check", "decide", "paired", "alone"} => ~th[t].inhibit

Knowledge == \A t \in Threads : Asks(t) /\ Knows(t)

ControlInv == TypeOK /\ Lifecycle /\ OneBusy /\ Written /\ CacheKept /\ StopKept /\ Steps3 /\ Knowledge

-----------------------------------------------------------------------------
(* Type correctness.                                                       *)

Shapes ==
  /\ Level \subseteq Nat /\ Off \notin Nat
  /\ MaxLevel \in Nat /\ MaxLevel >= 1 /\ MaxMoves \in Nat

LEMMA ConstantFacts == Shapes
BY LevelAssumption, OffAssumption DEF Shapes, Level

\* A thread that is given another field of the right shape keeps the shape of a thread.
LEMMA FieldChanges ==
  ASSUME NEW r \in Thread
  PROVE  /\ \A s \in Steps : [r EXCEPT !.at = s] \in Thread
         /\ \A b \in BOOLEAN : [r EXCEPT !.inhibit = b] \in Thread
         /\ \A b \in BOOLEAN : [r EXCEPT !.taken = b] \in Thread
         /\ \A b \in BOOLEAN : [r EXCEPT !.failed = b] \in Thread
         /\ \A b \in BOOLEAN : [r EXCEPT !.quiet = b] \in Thread
         /\ \A m \in Mode : [r EXCEPT !.mode = m] \in Thread
         /\ \A v \in Level \cup {-1} : [r EXCEPT !.level = v] \in Thread
         /\ [r EXCEPT !.mode.override = FALSE] \in Thread
BY DEF Thread, Mode

LEMMA IdleThread == Idle \in Thread /\ Plain \in Mode
BY DEF Idle, Plain, Mode, Thread, Steps

LEMMA TypeInit == Init => TypeOK
<1> USE ConstantFacts, IdleThread DEF Shapes
<1> SUFFICES ASSUME Init PROVE TypeOK
  OBVIOUS
<1>1. settings \in Settings
  BY DEF Init, Settings, Threshold, Level
<1>2. th \in [Threads -> Thread]
  BY DEF Init
<1>3. stores \in Seq(Stores)
  BY DEF Init
<1>4. key \in [Keys -> BOOLEAN] /\ managed \in [Keys -> BOOLEAN]
      /\ cache \in [Keys -> {"unknown", "on", "off"}]
  BY DEF Init
<1>5. badge \in Badges /\ moves \in 0..MaxMoves /\ level \in Level
  BY DEF Init, Badges
<1> QED
  BY <1>1, <1>2, <1>3, <1>4, <1>5 DEF Init, TypeOK

LEMMA StorePairs ==
  /\ \A f \in {"resume", "limit"}, v \in Threshold : <<f, v>> \in Stores
  /\ \A m \in Mode : <<"mode", m>> \in Stores
BY DEF Stores

\* What an edit stores is well-formed: a moved threshold takes the other one along within
\* the scale.
LEMMA EditsType == settings \in Settings => Edits \subseteq Seq(Stores)
<1> SUFFICES ASSUME settings \in Settings PROVE Edits \subseteq Seq(Stores)
  OBVIOUS
<1> USE ConstantFacts, StorePairs DEF Shapes
<1>1. settings.resume \in Threshold /\ settings.limit \in Threshold /\ settings.mode \in Mode
  BY DEF Settings
<1>2. Level \subseteq Threshold /\ Off \in Threshold
  BY DEF Threshold
<1>3. ASSUME NEW v \in 1..MaxLevel PROVE EditLimit(v) \in Seq(Stores)
  <2>1. v \in Threshold /\ v - 1 \in Threshold
    BY <1>3 DEF Threshold, Level
  <2> QED
    BY <2>1 DEF EditLimit
<1>4. ASSUME NEW v \in Level, settings.resume # Off PROVE EditResume(v) \in Seq(Stores)
  <2>1. v \in Threshold /\ MaxLevel \in Threshold /\ MaxLevel - 1 \in Threshold
    BY <1>4 DEF Threshold, Level
  <2>2. v # MaxLevel => v + 1 \in Threshold
    BY <1>4 DEF Threshold, Level
  <2> QED
    BY <2>1, <2>2 DEF EditResume
<1>5. EditType \in Seq(Stores) /\ Defaults \in Seq(Stores)
  <2>1. 0 \in Threshold /\ MaxLevel \in Threshold /\ Plain \in Mode
    BY IdleThread DEF Threshold, Level
  <2> QED
    BY <2>1, <1>2 DEF EditType, Defaults
<1>6. /\ << <<"mode", [settings.mode EXCEPT !.keepAC = ~@]>> >> \in Seq(Stores)
      /\ << <<"mode", [settings.mode EXCEPT !.override = ~@]>> >> \in Seq(Stores)
  <2>1. /\ [settings.mode EXCEPT !.keepAC = ~@] \in Mode
        /\ [settings.mode EXCEPT !.override = ~@] \in Mode
    BY <1>1 DEF Mode
  <2> QED
    BY <2>1
<1> QED
  BY <1>3, <1>4, <1>5, <1>6 DEF Edits

\* A byte of an edit keeps the shape of the settings.
LEMMA StoreType ==
  ASSUME settings \in Settings, stores \in Seq(Stores), stores # <<>>
  PROVE  /\ [settings EXCEPT ![Head(stores)[1]] = Head(stores)[2]] \in Settings
         /\ Tail(stores) \in Seq(Stores)
<1>1. Head(stores) \in Stores /\ Tail(stores) \in Seq(Stores)
  OBVIOUS
<1>2. CASE Head(stores) \in {"resume", "limit"} \X Threshold
  BY <1>2 DEF Settings
<1>3. CASE Head(stores) \in {"mode"} \X Mode
  BY <1>3 DEF Settings
<1> QED
  BY <1>1, <1>2, <1>3 DEF Stores

LEMMA TypeStep == TypeOK /\ [Next]_vars => TypeOK'
<1> USE ConstantFacts DEF Shapes
<1> SUFFICES ASSUME TypeOK, [Next]_vars PROVE TypeOK'
  OBVIOUS
<1>a. /\ \A t \in Threads : th[t] \in Thread
      /\ settings.mode \in Mode
  BY DEF TypeOK, Settings
<1>b. ASSUME NEW t \in Threads, NEW s \in Steps, Goes(t, s) PROVE th' \in [Threads -> Thread]
  BY <1>a, <1>b, FieldChanges DEF Goes, TypeOK
<1>c. ASSUME NEW t \in Threads, Done(t) PROVE th' \in [Threads -> Thread]
  BY <1>c, IdleThread DEF Done, TypeOK
<1>d. ASSUME NEW t \in Threads, NEW v \in Level \cup {-1}, Begin(t, v)
      PROVE  th' \in [Threads -> Thread]
  <2>1. [Idle EXCEPT !.at = "check", !.level = v, !.quiet = stores = <<>>] \in Thread
    BY <1>d, IdleThread DEF Idle, Thread, Steps
  <2> QED
    BY <1>d, <2>1 DEF Begin, TypeOK
<1>e. ASSUME NEW t \in Threads, NEW on \in BOOLEAN, Switch(t, on)
      PROVE  th' \in [Threads -> Thread]
  <2>1. [th[t] EXCEPT !.at = "probe", !.inhibit = on] \in Thread
    BY <1>a DEF Thread, Steps
  <2> QED
    BY <1>e, <2>1 DEF Switch, TypeOK
<1>f. Moves => moves' \in 0..MaxMoves
  BY DEF Moves, TypeOK
<1>1. CASE Launch
  BY <1>1 DEF Launch, TypeOK, hardware, appVars
<1>2. CASE Start
  <2>1. th' \in [Threads -> Thread]
    BY <1>2, <1>d DEF Start, TypeOK, Threads
  <2> QED
    BY <1>2, <2>1 DEF Start, TypeOK, hardware, appVars, daemon
<1>3. CASE PowerEvent
  <2>1. th' \in [Threads -> Thread]
    BY <1>3, <1>b, <1>d DEF PowerEvent, TypeOK, Threads, Steps
  <2> QED
    BY <1>3, <2>1 DEF PowerEvent, Overlap, TypeOK, hardware, appVars, daemon
<1>4. CASE Redecide
  <2>1. th' \in [Threads -> Thread]
    BY <1>4, <1>d DEF Redecide, TypeOK, Threads
  <2> QED
    BY <1>4, <2>1 DEF Redecide, Overlap, TypeOK, hardware, appVars, daemon
<1>5. CASE Stop
  <2>1. th' \in [Threads -> Thread]
    BY <1>5, <1>b DEF Stop, Threads, Steps
  <2> QED
    BY <1>5, <2>1 DEF Stop, Overlap, TypeOK, hardware, appVars, daemon
<1>6. ASSUME NEW k \in Keys, NEW at \in {"stopI", "stopC"}, NEW next \in Steps, Release(k, at, next)
      PROVE  TypeOK'
  <2>1. th' \in [Threads -> Thread]
    BY <1>6, <1>b, <1>c DEF Release, Ends, Threads
  <2> QED
    BY <1>6, <2>1, <1>f DEF Release, Ends, TypeOK, appVars, Badges
<1>7. ASSUME NEW t \in Threads, Exit(t) PROVE TypeOK'
  BY <1>7, IdleThread DEF Exit, TypeOK, hardware, appVars, Badges
<1>8. ASSUME NEW t \in Threads, Check(t) PROVE TypeOK'
  <2>1. th' \in [Threads -> Thread]
    BY <1>8, <1>b, <1>c DEF Check, Ends, Steps
  <2>2. th[t].level \in Level \cup {-1}
    BY <1>a DEF Thread
  <2> QED
    BY <1>8, <2>1, <2>2 DEF Check, Ends, Goes, Done, TypeOK, hardware, appVars, Badges
<1>9. ASSUME NEW t \in Threads, DecideResume(t) PROVE TypeOK'
  <2> DEFINE step == CASE settings.resume = Off -> "alone"
                       [] AtMost(th[t].level, settings.resume) -> "probe"
                       [] OTHER -> "paired"
  <2>1. step \in Steps
    BY DEF Steps
  <2>2. [th[t] EXCEPT !.at = step, !.mode = settings.mode] \in Thread
    BY <2>1, <1>a DEF Thread
  <2>4. th' \in [Threads -> Thread]
    BY <1>9, <2>2 DEF DecideResume, TypeOK
  <2> QED
    BY <1>9, <2>4 DEF DecideResume, TypeOK, hardware, appVars, daemon
<1>10. ASSUME NEW t \in Threads, DecidePaired(t) \/ DecideAlone(t) PROVE TypeOK'
  <2>1. th' \in [Threads -> Thread]
    <3>1. CASE DecidePaired(t)
      BY <3>1, <1>c, <1>e DEF DecidePaired
    <3>2. CASE DecideAlone(t)
      <4> DEFINE on == th[t].level >= settings.limit
      <4>1. on \in BOOLEAN
        OBVIOUS
      <4>2. CASE settings.limit = Off
        BY <3>2, <4>2, <1>c DEF DecideAlone
      <4>3. CASE settings.limit # Off
        <5>1. Switch(t, on)
          BY <3>2, <4>3, Zenon DEF DecideAlone
        <5> HIDE DEF on
        <5> QED
          BY <4>1, <5>1, <1>e
      <4> QED
        BY <4>2, <4>3
    <3> QED
      BY <1>10, <3>1, <3>2
  <2> QED
    BY <1>10, <2>1 DEF DecidePaired, DecideAlone, TypeOK, hardware, appVars, daemon
<1>11. ASSUME NEW t \in Threads, NoPower(t) \/ ProbeFails(t) \/ WriteFails(t) PROVE TypeOK'
  <2>1. th' \in [Threads -> Thread]
    BY <1>11, <1>c DEF NoPower, ProbeFails, WriteFails, Ends
  <2> QED
    BY <1>11, <2>1, <1>f DEF NoPower, ProbeFails, WriteFails, Ends, TypeOK, hardware, appVars, Badges
<1>12. ASSUME NEW t \in Threads, Probe(t) PROVE TypeOK'
  <2>1. th' \in [Threads -> Thread]
    <3>1. ASSUME NEW b \in BOOLEAN
          PROVE  /\ [th[t] EXCEPT !.at = "compare", !.mode.override = FALSE, !.taken = b] \in Thread
                 /\ [th[t] EXCEPT !.at = "compare", !.mode.override = FALSE, !.failed = b] \in Thread
      BY <1>a DEF Thread, Steps, Mode
    <3>2. Reports(t) \in BOOLEAN
      BY DEF Reports
    <3>3. /\ [th[t] EXCEPT !.at = "compare", !.mode.override = FALSE, !.taken = Reports(t)] \in Thread
          /\ [th[t] EXCEPT !.at = "compare", !.mode.override = FALSE, !.failed = TRUE] \in Thread
      BY <3>1, <3>2, Zenon
    <3> QED
      BY <1>12, <3>3 DEF Probe, TypeOK
  <2>2. managed' \in [Keys -> BOOLEAN]
    BY <1>12, <1>a DEF Probe, TakenBack, TypeOK, Thread
  <2> QED
    BY <1>12, <2>1, <2>2, <1>f DEF Probe, TypeOK, appVars, daemon
<1>13. ASSUME NEW t \in Threads PROVE Shown(t) \in Badges
  BY DEF Shown, Badges
<1>14. ASSUME NEW t \in Threads, Compare(t) \/ Write(t) \/ Note(t) PROVE TypeOK'
  <2>1. th' \in [Threads -> Thread]
    BY <1>14, <1>b, <1>c DEF Compare, Write, Note, Ends, Steps
  <2>2. th[t].inhibit \in BOOLEAN /\ Bit(th[t].inhibit) \in {"unknown", "on", "off"}
    BY <1>a DEF Thread, Bit
  <2>3. key' \in [Keys -> BOOLEAN] /\ cache' \in [Keys -> {"unknown", "on", "off"}]
    BY <1>14, <2>2 DEF Compare, Write, Note, Ends, TypeOK, hardware, daemon
  <2> QED
    BY <1>14, <1>13, <2>1, <2>3 DEF Compare, Write, Note, Ends, TypeOK, hardware, appVars, daemon
<1>15. CASE Edit
  <2>1. stores' \in Seq(Stores)
    BY <1>15, EditsType DEF Edit, TypeOK
  <2>2. th' \in [Threads -> Thread]
    BY <1>15, <1>a, FieldChanges DEF Edit, TypeOK
  <2> QED
    BY <1>15, <1>f, <2>1, <2>2 DEF Edit, TypeOK, hardware, daemon
<1>16. CASE Store
  BY <1>16, StoreType DEF Store, TypeOK, hardware, daemon
<1>17. CASE Removed
  <2>1. stores' \in Seq(Stores)
    BY <1>17 DEF Removed
  <2> QED
    BY <1>17, <1>f, <2>1 DEF Removed, TypeOK, hardware, daemon
<1>18. CASE LevelMoves \/ AdapterMoves
  BY <1>18, <1>f DEF LevelMoves, AdapterMoves, TypeOK, appVars, daemon
<1>19. ASSUME NEW k \in Keys, Toggle(k) \/ ManagedMoves(k) PROVE TypeOK'
  BY <1>19, <1>f DEF Toggle, ManagedMoves, TypeOK, appVars, daemon
<1>20. CASE UNCHANGED vars
  BY <1>20 DEF vars, hardware, appVars, daemon, TypeOK
<1> QED
  <2>1. StopInflow \/ StopCharge => TypeOK'
    BY <1>6 DEF StopInflow, StopCharge, Keys, Steps
  <2> QED
    BY <1>1, <1>2, <1>3, <1>4, <1>5, <2>1, <1>7, <1>8, <1>9, <1>10, <1>11, <1>12, <1>14, <1>15,
       <1>16, <1>17, <1>18, <1>19, <1>20 DEF Next, Update

-----------------------------------------------------------------------------
(* One thread at a time.                                                   *)

\* Whose turn it is: what the parts of the invariant about steps say together.
Turns == Lifecycle /\ OneBusy /\ Steps3

\* Thread t goes on within update_power_level, or is through with it.
Advances(t) ==
  /\ th[t].at \in {"check", "decide", "paired", "alone", "probe", "compare", "write", "note"}
  /\ th'[t].at \notin {"stopI", "stopC"}
  /\ \A u \in Threads \ {t} : th'[u] = th[u]
  /\ UNCHANGED <<up, upset>>

\* What the ways to move a thread do to it.
Others(t) == \A u \in Threads \ {t} : th'[u] = th[u]
SameField(t, f) == th'[t][f] = th[t][f]

LEMMA GoesEffect ==
  ASSUME TypeOK, NEW t \in Threads, NEW s \in Steps, Goes(t, s)
  PROVE  /\ Others(t) /\ th'[t].at = s
         /\ SameField(t, "level") /\ SameField(t, "mode")
         /\ SameField(t, "inhibit") /\ SameField(t, "quiet")
BY DEF Goes, TypeOK, Thread, Others, SameField

LEMMA DoneEffect ==
  ASSUME TypeOK, NEW t \in Threads, Done(t)
  PROVE  Others(t) /\ th'[t] = Idle /\ th'[t].at = "idle" /\ ~th'[t].quiet
BY DEF Done, TypeOK, Others, Idle

LEMMA BeginEffect ==
  ASSUME TypeOK, NEW t \in Threads, NEW v, Begin(t, v)
  PROVE  /\ Others(t) /\ th'[t].at = "check" /\ th'[t].level = v /\ ~th'[t].inhibit
         /\ th'[t].quiet => stores = <<>>
BY DEF Begin, Idle, TypeOK, Others

LEMMA SwitchEffect ==
  ASSUME TypeOK, NEW t \in Threads, NEW on, Switch(t, on)
  PROVE  /\ Others(t) /\ th'[t].at = "probe" /\ th'[t].inhibit = on
         /\ SameField(t, "level") /\ SameField(t, "mode") /\ SameField(t, "quiet")
BY DEF Switch, TypeOK, Thread, Others, SameField

LEMMA ResumeEffect ==
  ASSUME TypeOK, NEW t \in Threads, DecideResume(t)
  PROVE  /\ Others(t) /\ th'[t].at \in {"alone", "probe", "paired"}
         /\ SameField(t, "level") /\ SameField(t, "inhibit") /\ SameField(t, "quiet")
         /\ th'[t].at = "alone" => settings.resume = Off
         /\ th'[t].at = "probe" => AtMost(th[t].level, settings.resume)
         /\ th'[t].at = "paired" =>
              settings.resume # Off /\ ~AtMost(th[t].level, settings.resume)
<1> DEFINE step == CASE settings.resume = Off -> "alone"
                     [] AtMost(th[t].level, settings.resume) -> "probe"
                     [] OTHER -> "paired"
<1>1. th' = [th EXCEPT ![t] = [@ EXCEPT !.at = step, !.mode = settings.mode]]
  BY DEF DecideResume
<1>2. /\ settings.resume = Off => step = "alone"
      /\ settings.resume # Off /\ AtMost(th[t].level, settings.resume) => step = "probe"
      /\ settings.resume # Off /\ ~AtMost(th[t].level, settings.resume) => step = "paired"
  BY DEF AtMost
<1> HIDE DEF step
<1>3. /\ Others(t) /\ th'[t].at = step
      /\ SameField(t, "level") /\ SameField(t, "inhibit") /\ SameField(t, "quiet")
  BY <1>1 DEF TypeOK, Thread, Others, SameField
<1>4. CASE settings.resume = Off
  BY <1>2, <1>3, <1>4
<1>5. CASE settings.resume # Off /\ AtMost(th[t].level, settings.resume)
  BY <1>2, <1>3, <1>5
<1>6. CASE settings.resume # Off /\ ~AtMost(th[t].level, settings.resume)
  BY <1>2, <1>3, <1>6
<1> QED
  BY <1>4, <1>5, <1>6

LEMMA ProbedFields ==
  ASSUME NEW r \in Thread, NEW b
  PROVE  LET a == [r EXCEPT !.at = "compare", !.mode.override = FALSE, !.taken = b]
             c == [r EXCEPT !.at = "compare", !.mode.override = FALSE, !.failed = b]
         IN /\ a.at = "compare" /\ a.level = r.level /\ a.inhibit = r.inhibit /\ a.quiet = r.quiet
            /\ c.at = "compare" /\ c.level = r.level /\ c.inhibit = r.inhibit /\ c.quiet = r.quiet
BY DEF Thread

LEMMA ProbeEffect ==
  ASSUME TypeOK, NEW t \in Threads, Probe(t)
  PROVE  /\ Others(t) /\ th'[t].at = "compare"
         /\ SameField(t, "level") /\ SameField(t, "inhibit") /\ SameField(t, "quiet")
<1> DEFINE a == [th[t] EXCEPT !.at = "compare", !.mode.override = FALSE, !.taken = Reports(t)]
           c == [th[t] EXCEPT !.at = "compare", !.mode.override = FALSE, !.failed = TRUE]
<1>1. th[t] \in Thread /\ th \in [Threads -> Thread]
  BY DEF TypeOK
<1>2. \/ th' = [th EXCEPT ![t] = a]
      \/ th' = [th EXCEPT ![t] = c]
  BY DEF Probe
<1>3. /\ a.at = "compare" /\ a.level = th[t].level
      /\ a.inhibit = th[t].inhibit /\ a.quiet = th[t].quiet
      /\ c.at = "compare" /\ c.level = th[t].level
      /\ c.inhibit = th[t].inhibit /\ c.quiet = th[t].quiet
  BY <1>1, ProbedFields, Zenon
<1> HIDE DEF a, c
<1> QED
  BY <1>1, <1>2, <1>3 DEF Others, SameField

LEMMA UpdateAdvances ==
  ASSUME TypeOK, NEW t \in Threads, Update(t)
  PROVE  Advances(t)
<1> USE DEF Advances, Others
<1>1. CASE Check(t)
  BY <1>1, GoesEffect, DoneEffect DEF Check, Ends, Steps
<1>2. CASE DecideResume(t)
  BY <1>2, ResumeEffect DEF DecideResume
<1>3. CASE DecidePaired(t) \/ DecideAlone(t)
  BY <1>3, SwitchEffect, DoneEffect DEF DecidePaired, DecideAlone
<1>4. CASE NoPower(t) \/ ProbeFails(t) \/ WriteFails(t)
  BY <1>4, DoneEffect DEF NoPower, ProbeFails, WriteFails, Ends
<1>5. CASE Probe(t)
  BY <1>5, ProbeEffect DEF Probe
<1>6. CASE Compare(t) \/ Write(t) \/ Note(t)
  BY <1>6, GoesEffect, DoneEffect DEF Compare, Write, Note, Ends, Steps
<1> QED
  BY <1>1, <1>2, <1>3, <1>4, <1>5, <1>6 DEF Update

LEMMA AdvanceTurns ==
  ASSUME TypeOK, Turns, NEW t \in Threads, Advances(t), UNCHANGED cache \/ up = "running"
  PROVE  Turns'
BY DEF Turns, Lifecycle, OneBusy, Steps3, Busy, Advances

LEMMA TurnsStep == ControlInv /\ [Next]_vars => Turns'
<1> SUFFICES ASSUME TypeOK, Turns, [Next]_vars PROVE Turns'
  BY DEF ControlInv, Turns
<1>a. th \in [Threads -> Thread]
  BY DEF TypeOK
<1> USE <1>a DEF Turns, Lifecycle, OneBusy, Steps3, Busy
<1>1. CASE Launch
  BY <1>1 DEF Launch, Keys
<1>2. CASE Start
  <2>1. \/ up' = "no" /\ UNCHANGED th
        \/ up' = "running" /\ Others("main") /\ th'["main"].at = "check"
    BY <1>2, BeginEffect DEF Start, Threads
  <2> QED
    BY <1>2, <2>1 DEF Start, daemon, Threads, Others
<1>3. CASE PowerEvent
  <2>1. Others("power") /\ th'["power"].at \in {"check", "leave"}
    BY <1>3, BeginEffect, GoesEffect DEF PowerEvent, Threads, Steps
  <2> QED
    BY <1>3, <2>1 DEF PowerEvent, Overlap, daemon, Threads, Others
<1>4. CASE Redecide
  BY <1>4 DEF Redecide, ClientReady, Overlap, Begin, Idle, daemon, Threads
<1>5. CASE Stop
  BY <1>5 DEF Stop, ClientReady, Overlap, Goes, daemon, Threads
<1>6. CASE StopInflow \/ StopCharge
  BY <1>6 DEF StopInflow, StopCharge, Release, Ends, Goes, Done, Idle, daemon, Threads
<1>7. ASSUME NEW t \in Threads, Exit(t) PROVE Turns'
  BY <1>7 DEF Exit, Idle
<1>8. ASSUME NEW t \in Threads, Update(t) PROVE Turns'
  <2>1. Advances(t)
    BY <1>8, UpdateAdvances
  <2>2. up = "running"
    BY <2>1 DEF Advances, TypeOK
  <2> QED
    BY <2>1, <2>2, AdvanceTurns
<1>9. CASE Edit
  <2>1. \A t \in Threads : th'[t].at = th[t].at
    BY <1>9 DEF Edit, Thread
  <2> QED
    BY <1>9, <2>1 DEF Edit, daemon
<1>10. CASE Store \/ Removed \/ LevelMoves \/ AdapterMoves \/ UNCHANGED vars
  BY <1>10 DEF Store, Removed, LevelMoves, AdapterMoves, vars, daemon
<1>11. ASSUME NEW k \in Keys, Toggle(k) \/ ManagedMoves(k) PROVE Turns'
  BY <1>11 DEF Toggle, ManagedMoves, daemon
<1> QED
  BY <1>1, <1>2, <1>3, <1>4, <1>5, <1>6, <1>7, <1>8, <1>9, <1>10, <1>11 DEF Next
-----------------------------------------------------------------------------
(* The keys and what is remembered of them.                                *)

KeyInv == Written /\ CacheKept /\ StopKept

\* A thread that neither comes from a write or a stop nor gets there leaves the keys'
\* part of the invariant alone.
LEMMA KeysKept ==
  ASSUME TypeOK, KeyInv, NEW t \in Threads, Others(t), UNCHANGED <<key, cache>>,
         upset => upset', up' = "running" => up = "running",
         th[t].at \notin {"note", "stopC", "leave"}, th'[t].at \notin {"note", "stopC"},
         th'[t].at = "leave" => t = "power"
  PROVE  KeyInv'
<1>1. \A u \in Threads : u # t => th'[u] = th[u]
  BY DEF Others
<1>2. Written'
  BY <1>1 DEF KeyInv, Written, Target
<1>3. th'["client"].at \in {"stopC", "leave"} <=> th["client"].at \in {"stopC", "leave"}
  BY <1>1 DEF Threads
<1>4. CacheKept'
  BY <1>1, <1>3 DEF KeyInv, CacheKept, Target
<1>5. StopKept'
  BY <1>1 DEF KeyInv, StopKept, Threads
<1> QED
  BY <1>2, <1>4, <1>5 DEF KeyInv

\* When nothing is busy and no daemon runs there is nothing to remember.
LEMMA KeysAtRest ==
  ASSUME \A t \in Threads : th'[t].at = "idle", up' # "running"
  PROVE  KeyInv'
BY DEF KeyInv, Written, CacheKept, StopKept, Threads

LEMMA UpdateKeys ==
  ASSUME TypeOK, Turns, KeyInv, NEW t \in Threads, Update(t)
  PROVE  KeyInv'
<1>1. Advances(t) /\ Others(t)
  BY UpdateAdvances DEF Advances, Others
<1>2. /\ th \in [Threads -> Thread] /\ key \in [Keys -> BOOLEAN]
      /\ cache \in [Keys -> {"unknown", "on", "off"}]
  BY DEF TypeOK
<1>3. Target(t) \in Keys /\ th[t].inhibit \in BOOLEAN
  BY <1>2 DEF Target, Keys, Thread
<1>4. ~upset => \A u \in Threads : u # t => th[u].at = "idle" /\ th'[u].at = "idle"
  BY <1>1 DEF Turns, OneBusy, Busy, Advances
<1>5. th[t].at \notin {"stopC", "leave"}
  BY <1>1 DEF Advances
<1>6. CASE Check(t)
  BY <1>6, <1>1, KeysKept, GoesEffect, DoneEffect DEF Check, Ends, Steps, hardware, Advances
<1>7. CASE DecideResume(t)
  BY <1>7, <1>1, KeysKept, ResumeEffect DEF DecideResume, hardware, daemon
<1>8. CASE DecidePaired(t) \/ DecideAlone(t)
  <2>1. th[t].at \in {"paired", "alone"} /\ th'[t].at \in {"probe", "idle"}
    <3>1. CASE DecidePaired(t)
      BY <3>1, SwitchEffect, DoneEffect DEF DecidePaired
    <3>2. CASE DecideAlone(t)
      BY <3>2, SwitchEffect, DoneEffect, Zenon DEF DecideAlone
    <3> QED
      BY <1>8, <3>1, <3>2
  <2>2. UNCHANGED <<key, cache, up, upset>>
    BY <1>8 DEF DecidePaired, DecideAlone, hardware, daemon
  <2> QED
    BY <2>1, <2>2, <1>1, KeysKept
<1>9. CASE NoPower(t) \/ ProbeFails(t) \/ WriteFails(t)
  BY <1>9, <1>1, KeysKept, DoneEffect DEF NoPower, ProbeFails, WriteFails, Ends, hardware
<1>10. CASE Probe(t)
  BY <1>10, <1>1, KeysKept, ProbeEffect DEF Probe, daemon
<1>11. CASE Compare(t)
  <2>1. th[t].at = "compare" /\ th'[t].at \in {"write", "idle"}
    BY <1>11, GoesEffect, DoneEffect DEF Compare, Ends, Steps
  <2> QED
    BY <1>11, <2>1, <1>1, KeysKept DEF Compare, hardware
<1>12. CASE Write(t)
  <2>1. th'[t].at = "note" /\ th'[t].mode = th[t].mode /\ th'[t].inhibit = th[t].inhibit
    BY <1>12, GoesEffect DEF Write, SameField, Steps
  <2>2. Target(t)' = Target(t)
    BY <2>1 DEF Target
  <2>3. /\ key'[Target(t)] = th[t].inhibit /\ cache' = cache /\ th[t].at = "write"
        /\ \A k \in Keys : k # Target(t) => key'[k] = key[k]
    BY <1>12, <1>2, <1>3 DEF Write, daemon
  <2>4. SUFFICES ASSUME ~upset PROVE KeyInv'
    BY <1>1 DEF KeyInv, Written, CacheKept, StopKept, Advances
  <2>5. Written'
    BY <1>4, <2>1, <2>2, <2>3, <2>4 DEF Written
  <2>6. ASSUME NEW k \in Keys, up = "running"
        PROVE  \/ cache'[k] \in {"unknown", Bit(key'[k])}
               \/ \E u \in Threads : th'[u].at = "note" /\ Target(u)' = k
    <3>1. CASE k = Target(t)
      BY <3>1, <2>1, <2>2
    <3>2. CASE k # Target(t)
      <4>1. \A u \in Threads : th[u].at # "note"
        BY <1>4, <2>3, <2>4
      <4>2. th["client"].at \notin {"stopC", "leave"}
        BY <1>4, <2>3, <2>4 DEF Threads
      <4> QED
        BY <4>1, <4>2, <3>2, <2>3, <2>4, <2>6 DEF KeyInv, CacheKept
    <3> QED
      BY <3>1, <3>2
  <2>7. CacheKept'
    BY <1>1, <2>6 DEF CacheKept, Advances
  <2>8. StopKept'
    BY <1>4, <2>1, <2>4 DEF StopKept, Threads
  <2> QED
    BY <2>5, <2>7, <2>8 DEF KeyInv
<1>13. CASE Note(t)
  <2>1. th'[t].at = "idle"
    BY <1>13, DoneEffect DEF Note, Ends
  <2>2. /\ cache'[Target(t)] = Bit(th[t].inhibit) /\ key' = key /\ th[t].at = "note"
        /\ \A k \in Keys : k # Target(t) => cache'[k] = cache[k]
    BY <1>13, <1>2, <1>3 DEF Note, hardware
  <2>3. SUFFICES ASSUME ~upset PROVE KeyInv'
    BY <1>1 DEF KeyInv, Written, CacheKept, StopKept, Advances
  <2>4. \A u \in Threads : th'[u].at = "idle"
    BY <1>4, <2>1, <2>3
  <2>5. Written' /\ StopKept'
    BY <2>4 DEF Written, StopKept, Threads
  <2>6. ASSUME NEW k \in Keys, up = "running"
        PROVE  cache'[k] \in {"unknown", Bit(key'[k])}
    <3>1. CASE k = Target(t)
      <4>1. key[Target(t)] = th[t].inhibit
        BY <2>2, <2>3 DEF KeyInv, Written
      <4> QED
        BY <3>1, <4>1, <2>2
    <3>2. CASE k # Target(t)
      <4>1. \A u \in Threads : th[u].at = "note" => u = t
        BY <1>4, <2>3
      <4>2. th["client"].at \notin {"stopC", "leave"}
        BY <1>4, <2>2, <2>3 DEF Threads
      <4> QED
        BY <4>1, <4>2, <3>2, <2>2, <2>3, <2>6 DEF KeyInv, CacheKept
    <3> QED
      BY <3>1, <3>2
  <2>7. CacheKept'
    BY <1>1, <2>6 DEF CacheKept, Advances
  <2> QED
    BY <2>5, <2>7 DEF KeyInv
<1> QED
  BY <1>6, <1>7, <1>8, <1>9, <1>10, <1>11, <1>12, <1>13 DEF Update

LEMMA KeysStep == ControlInv /\ [Next]_vars => KeyInv'
<1> SUFFICES ASSUME TypeOK, Turns, KeyInv, [Next]_vars PROVE KeyInv'
  BY DEF ControlInv, Turns, KeyInv
<1>a. th \in [Threads -> Thread] /\ key \in [Keys -> BOOLEAN]
  BY DEF TypeOK
<1>b. up # "running" => \A t \in Threads : th[t].at = "idle"
  BY DEF Turns, Lifecycle, Busy
<1>1. CASE Launch
  BY <1>1, <1>b, KeysAtRest DEF Launch
<1>2. CASE Start
  <2>1. CASE UNCHANGED th /\ up' = "no"
    BY <2>1, <1>2, <1>b, KeysAtRest DEF Start
  <2>2. CASE up' = "running" /\ Begin("main", level)
    <3>1. \A t \in Threads : th'[t].at \in {"idle", "check"}
      BY <2>2, <1>2, <1>b, BeginEffect DEF Start, Others, Threads
    <3>2. \A k \in Keys : cache'[k] = "unknown"
      BY <1>2 DEF Start, daemon, Turns, Lifecycle
    <3> QED
      BY <3>1, <3>2 DEF KeyInv, Written, CacheKept, StopKept, Threads
  <2> QED
    BY <1>2, <2>1, <2>2 DEF Start
<1>3. CASE PowerEvent
  <2>1. Others("power") /\ th'["power"].at \in {"check", "leave"} /\ th["power"].at = "idle"
    BY <1>3, BeginEffect, GoesEffect DEF PowerEvent, Threads, Steps, Busy
  <2> QED
    BY <1>3, <2>1, KeysKept DEF PowerEvent, Overlap, hardware, daemon, Threads
<1>4. CASE Redecide
  <2>1. Others("client") /\ th'["client"].at = "check" /\ th["client"].at = "idle"
    BY <1>4, BeginEffect DEF Redecide, ClientReady, Threads, Busy
  <2> QED
    BY <1>4, <2>1, KeysKept DEF Redecide, Overlap, hardware, daemon, Threads
<1>5. CASE Stop
  <2>1. Others("client") /\ th'["client"].at = "stopI" /\ th["client"].at = "idle"
    BY <1>5, GoesEffect DEF Stop, ClientReady, Threads, Steps, Busy
  <2> QED
    BY <1>5, <2>1, KeysKept DEF Stop, Overlap, hardware, daemon, Threads
<1>6. CASE StopInflow
  <2> USE <1>6 DEF StopInflow, Release
  <2>1. CASE Ends("client", "failed")
    <3>1. Others("client") /\ th'["client"].at = "idle"
      BY <2>1, DoneEffect DEF Ends, Threads
    <3>2. ~Goes("client", "stopC")
      BY <3>1, GoesEffect DEF Threads, Steps
    <3>3. UNCHANGED <<key, cache, up>> /\ th["client"].at = "stopI"
      BY <3>2
    <3>4. upset => upset'
      BY <3>2, Zenon
    <3> HIDE DEF StopInflow, Release
    <3> QED
      BY <3>1, <3>3, <3>4, KeysKept DEF Threads
  <2>2. CASE /\ key' = [key EXCEPT !["CH0I"] = FALSE]
             /\ Goes("client", "stopC") /\ UNCHANGED upset
    <3>1. Others("client") /\ th'["client"].at = "stopC"
      BY <2>2, GoesEffect DEF Threads, Steps
    <3>2. ~upset => \A t \in Threads : th'[t].at \in {"idle", "stopC"}
      BY <3>1 DEF Turns, OneBusy, Busy, Others, Threads
    <3>3. ~key'["CH0I"]
      BY <2>2, <1>a DEF Keys
    <3> QED
      BY <2>2, <3>1, <3>2, <3>3 DEF KeyInv, Written, CacheKept, StopKept, Threads
  <2> QED
    BY <2>1, <2>2
<1>7. CASE StopCharge
  <2> USE <1>7 DEF StopCharge, Release
  <2>1. CASE upset'
    BY <2>1 DEF KeyInv, Written, CacheKept, StopKept
  <2>2. CASE ~upset'
    <3> DEFINE done == /\ key' = [key EXCEPT !["CH0C"] = FALSE]
                       /\ Goes("client", "leave")
                       /\ UNCHANGED <<badge, moves, upset>>
    <3>0. done \/ upset' = (upset \/ "stopC" = "stopC")
      OBVIOUS
    <3>1. Goes("client", "leave") /\ key' = [key EXCEPT !["CH0C"] = FALSE] /\ ~upset
      <4>1. CASE done
        BY <4>1, <2>2
      <4>2. CASE upset' = (upset \/ "stopC" = "stopC")
        <5>1. upset'
          BY <4>2
        <5> QED
          BY <5>1, <2>2
      <4> QED
        BY <3>0, <4>1, <4>2
    <3>2. Others("client") /\ th'["client"].at = "leave"
      BY <3>1, GoesEffect DEF Threads, Steps
    <3>3. \A t \in Threads : th'[t].at \in {"idle", "leave"}
      BY <3>1, <3>2 DEF Turns, OneBusy, Busy, Others, Threads
    <3>4. ~key'["CH0I"] /\ ~key'["CH0C"]
      BY <3>1, <1>a DEF Keys, KeyInv, StopKept
    <3> QED
      BY <3>2, <3>3, <3>4 DEF KeyInv, Written, CacheKept, StopKept, Threads
  <2> QED
    BY <2>1, <2>2
<1>8. ASSUME NEW t \in Threads, Exit(t) PROVE KeyInv'
  BY <1>8, KeysAtRest DEF Exit, Idle
<1>9. ASSUME NEW t \in Threads, Update(t) PROVE KeyInv'
  BY <1>9, UpdateKeys
<1>10. CASE Edit
  <2>1. \A t \in Threads : /\ th'[t].at = th[t].at /\ th'[t].mode = th[t].mode
                           /\ th'[t].inhibit = th[t].inhibit
    BY <1>10, <1>a DEF Edit, Thread
  <2>2. UNCHANGED <<key, cache, up, upset>>
    BY <1>10 DEF Edit, hardware, daemon
  <2>3. Written' /\ CacheKept'
    BY <2>1, <2>2 DEF KeyInv, Written, CacheKept, Target, Threads
  <2>4. StopKept'
    BY <2>1, <2>2 DEF KeyInv, StopKept, Threads
  <2> QED
    BY <2>3, <2>4 DEF KeyInv
<1>11. CASE Store \/ Removed \/ LevelMoves \/ AdapterMoves \/ UNCHANGED vars
  <2>1. UNCHANGED <<key, cache, th, up, upset>>
    BY <1>11 DEF Store, Removed, LevelMoves, AdapterMoves, vars, hardware, daemon
  <2> QED
    BY <2>1 DEF KeyInv, Written, CacheKept, StopKept, Target
<1>12. ASSUME NEW k \in Keys, Toggle(k) PROVE KeyInv'
  BY <1>12 DEF Toggle, KeyInv, Written, CacheKept, StopKept
<1>13. ASSUME NEW k \in Keys, ManagedMoves(k) PROVE KeyInv'
  BY <1>13 DEF ManagedMoves, daemon, KeyInv, Written, CacheKept, StopKept, Target
<1> QED
  BY <1>1, <1>2, <1>3, <1>4, <1>5, <1>6, <1>7, <1>8, <1>9, <1>10, <1>11, <1>12, <1>13 DEF Next

-----------------------------------------------------------------------------
(* What an update knows.                                                   *)

\* The levels are numbers, and the thresholds are but for the byte 255.
LEMMA Numbers ==
  ASSUME TypeOK, NEW t \in Threads
  PROVE  /\ th[t].level \in Int
         /\ settings.resume \in Nat \/ settings.resume = Off
         /\ settings.limit \in Nat \/ settings.limit = Off
<1>1. \A v \in Level : v \in Nat
  BY ConstantFacts DEF Shapes
<1>2. th[t] \in Thread /\ settings \in Settings
  BY DEF TypeOK
<1>3. th[t].level \in Level \cup {-1}
  BY <1>2 DEF Thread
<1>4. settings.resume \in Threshold /\ settings.limit \in Threshold
  BY <1>2 DEF Settings
<1>5. \A v \in Threshold : v \in Nat \/ v = Off
  BY <1>1 DEF Threshold
<1>6. th[t].level \in Int
  BY <1>1, <1>3
<1> QED
  BY <1>4, <1>5, <1>6

\* A step of one thread leaves alone what the others know of unchanged settings.
LEMMA KnowledgeKept ==
  ASSUME Knowledge, NEW t \in Threads, Others(t), UNCHANGED <<settings, stores>>,
         Asks(t)', Knows(t)'
  PROVE  Knowledge'
BY DEF Knowledge, Others, Asks, Knows, Band

\* A thread that is through knows nothing.
LEMMA KnowsNothing ==
  ASSUME NEW t \in Threads, th'[t] = Idle
  PROVE  Asks(t)' /\ Knows(t)'
BY DEF Idle, Asks, Knows

LEMMA UpdateKnows ==
  ASSUME TypeOK, Knowledge, NEW t \in Threads, Update(t)
  PROVE  Knowledge'
<1>1. Others(t)
  BY UpdateAdvances DEF Advances, Others
<1>2. UNCHANGED <<settings, stores>>
  BY DEF Update, Check, DecideResume, DecidePaired, DecideAlone, NoPower, Probe, ProbeFails,
         Compare, Write, WriteFails, Note, appVars
<1>3. Asks(t) /\ Knows(t) /\ th[t] \in Thread
  BY DEF Knowledge, TypeOK
<1>4. SUFFICES Asks(t)' /\ Knows(t)'
  BY <1>1, <1>2, KnowledgeKept
<1>5. CASE Done(t)
  BY <1>5, DoneEffect, KnowsNothing
<1>6. CASE Check(t) /\ ~Done(t)
  <2>1. /\ th[t].at = "check" /\ th'[t].at = "decide" /\ Valid(settings.resume, settings.limit)
        /\ SameField(t, "inhibit") /\ SameField(t, "quiet")
    BY <1>6, GoesEffect DEF Check, Ends, Steps
  <2> QED
    BY <2>1, <1>2, <1>3 DEF Asks, Knows, SameField, Switching, Valid
<1>7. CASE DecideResume(t)
  <2>1. /\ th[t].at = "decide" /\ th'[t].at \in {"alone", "probe", "paired"}
        /\ SameField(t, "level") /\ SameField(t, "inhibit") /\ SameField(t, "quiet")
        /\ th'[t].at = "alone" => settings.resume = Off
        /\ th'[t].at = "probe" => AtMost(th[t].level, settings.resume)
        /\ th'[t].at = "paired" =>
             settings.resume # Off /\ ~AtMost(th[t].level, settings.resume)
    BY <1>7, ResumeEffect DEF DecideResume
  <2>2. ~th[t].inhibit /\ ~th'[t].inhibit
    BY <2>1, <1>3 DEF Asks, SameField
  <2>3. SUFFICES ASSUME th[t].quiet PROVE Knows(t)'
    BY <2>1, <2>2 DEF Asks, Knows, SameField
  <2>4. stores = <<>> /\ Valid(settings.resume, settings.limit)
    BY <2>1, <2>3, <1>3 DEF Knows
  <2>5. th'[t].at = "paired" => settings.resume < th[t].level
    BY <2>1, Numbers DEF AtMost
  <2>6. th'[t].at = "probe" => ~Band(t) /\ ~AtLeast(th[t].level, settings.limit)
    BY <2>1, <2>4, Numbers DEF AtMost, AtLeast, Valid, Band
  <2>7. Band(t)' = Band(t) /\ AtLeast(th[t].level, settings.limit)'
                               = AtLeast(th[t].level, settings.limit)
    BY <2>1, <1>2 DEF Band, AtLeast, SameField
  <2> QED
    BY <2>1, <2>2, <2>4, <2>5, <2>6, <2>7, <1>2 DEF Knows, Switching, Valid, SameField
<1>8. CASE (DecidePaired(t) \/ DecideAlone(t)) /\ ~Done(t)
  <2> DEFINE high == th[t].level >= settings.limit
  <2>1. /\ th[t].at \in {"paired", "alone"} /\ Switch(t, high) /\ settings.limit # Off
        /\ th[t].at = "paired" => high
    <3>1. CASE DecidePaired(t)
      <4>1. AtLeast(th[t].level, settings.limit) /\ Switch(t, TRUE) /\ th[t].at = "paired"
        BY <3>1, <1>8 DEF DecidePaired
      <4>2. high /\ settings.limit # Off
        BY <4>1 DEF AtLeast
      <4>3. high = TRUE
        BY <4>2
      <4>4. Switch(t, high)
        BY <4>1, <4>3
      <4> QED
        BY <4>1, <4>2, <4>4
    <3>2. CASE DecideAlone(t)
      BY <3>2, <1>8, Zenon DEF DecideAlone
    <3> QED
      BY <1>8, <3>1, <3>2
  <2>2. /\ th'[t].at = "probe" /\ th'[t].inhibit = high
        /\ SameField(t, "level") /\ SameField(t, "quiet")
    BY <2>1, SwitchEffect
  <2>3. AtLeast(th[t].level, settings.limit) <=> high
    BY <2>1 DEF AtLeast
  <2>4. ASSUME th[t].quiet
        PROVE  /\ stores = <<>> /\ Valid(settings.resume, settings.limit)
               /\ th[t].at = "alone" => settings.resume = Off
    BY <2>1, <2>4, <1>3 DEF Knows
  <2>5. ASSUME th[t].quiet PROVE ~Band(t)
    BY <2>1, <2>4, <2>5, Numbers DEF Band
  <2>6. Band(t)' = Band(t) /\ AtLeast(th[t].level, settings.limit)'
                               = AtLeast(th[t].level, settings.limit)
    BY <2>2, <1>2 DEF Band, AtLeast, SameField
  <2> HIDE DEF high
  <2> QED
    BY <2>2, <2>3, <2>4, <2>5, <2>6, <1>2 DEF Asks, Knows, Switching, Valid, SameField
<1>9. CASE Probe(t) \/ (Compare(t) /\ ~Done(t))
  <2>1. /\ th[t].at \in Switching /\ th'[t].at \in Switching
        /\ SameField(t, "level") /\ SameField(t, "inhibit") /\ SameField(t, "quiet")
    <3>1. CASE Probe(t)
      BY <3>1, ProbeEffect DEF Probe, Switching
    <3>2. CASE Compare(t) /\ ~Done(t)
      BY <3>2, GoesEffect DEF Compare, Ends, Switching, Steps
    <3> QED
      BY <1>9, <3>1, <3>2
  <2>2. Band(t)' = Band(t) /\ AtLeast(th[t].level, settings.limit)'
                               = AtLeast(th[t].level, settings.limit)
    BY <2>1, <1>2 DEF Band, AtLeast, SameField
  <2> QED
    BY <2>1, <2>2, <1>2, <1>3 DEF Asks, Knows, Switching, Valid, SameField
<1>10. CASE Write(t)
  <2>1. th[t].at = "write" /\ th'[t].at = "note" /\ SameField(t, "quiet")
    BY <1>10, GoesEffect DEF Write, Steps
  <2> QED
    BY <2>1, <1>2, <1>3 DEF Asks, Knows, Switching, SameField
<1>11. NoPower(t) \/ ProbeFails(t) \/ WriteFails(t) \/ Note(t) => Done(t)
  BY DEF NoPower, ProbeFails, WriteFails, Note, Ends
<1> QED
  BY <1>5, <1>6, <1>7, <1>8, <1>9, <1>10, <1>11 DEF Update

LEMMA KnowledgeStep == ControlInv /\ [Next]_vars => Knowledge'
<1> SUFFICES ASSUME TypeOK, Knowledge, [Next]_vars PROVE Knowledge'
  BY DEF ControlInv
<1>a. th \in [Threads -> Thread]
  BY DEF TypeOK
<1>1. ASSUME NEW t \in Threads, NEW v, Begin(t, v), UNCHANGED <<settings, stores>> PROVE Knowledge'
  <2>1. Others(t) /\ Asks(t)' /\ Knows(t)'
    BY <1>1, BeginEffect DEF Asks, Knows, Switching
  <2> QED
    BY <1>1, <2>1, KnowledgeKept
<1>2. ASSUME NEW t \in Threads, NEW s \in {"leave", "stopI", "stopC"}, Goes(t, s),
             UNCHANGED <<settings, stores>>
      PROVE  Knowledge'
  <2>1. Others(t) /\ th'[t].at = s /\ SameField(t, "quiet")
    BY <1>2, GoesEffect DEF Steps
  <2>2. Asks(t)' /\ Knows(t)'
    BY <2>1, <1>2 DEF Knowledge, Asks, Knows, Switching, SameField
  <2> QED
    BY <1>2, <2>1, <2>2, KnowledgeKept
<1>3. CASE Launch
  BY <1>3 DEF Launch, appVars, Knowledge, Asks, Knows, Band
<1>4. CASE Start
  <2>1. UNCHANGED <<settings, stores>>
    BY <1>4 DEF Start, appVars
  <2>2. CASE Begin("main", level)
    BY <2>1, <2>2, <1>1 DEF Threads
  <2>3. CASE UNCHANGED th
    BY <2>1, <2>3 DEF Knowledge, Asks, Knows, Band
  <2> QED
    BY <1>4, <2>2, <2>3 DEF Start
<1>5. CASE PowerEvent \/ Redecide \/ Stop
  BY <1>5, <1>1, <1>2 DEF PowerEvent, Redecide, Stop, appVars, Threads
<1>6. CASE StopInflow \/ StopCharge
  <2>1. UNCHANGED <<settings, stores>>
    BY <1>6 DEF StopInflow, StopCharge, Release, appVars
  <2>2. CASE Done("client")
    BY <2>1, <2>2, DoneEffect, KnowsNothing, KnowledgeKept DEF Threads
  <2>3. CASE Goes("client", "stopC") \/ Goes("client", "leave")
    BY <2>1, <2>3, <1>2 DEF Threads
  <2> QED
    BY <1>6, <2>2, <2>3 DEF StopInflow, StopCharge, Release, Ends
<1>7. ASSUME NEW t \in Threads, Exit(t) PROVE Knowledge'
  BY <1>7, KnowsNothing DEF Exit, Knowledge
<1>8. ASSUME NEW t \in Threads, Update(t) PROVE Knowledge'
  BY <1>8, UpdateKnows
<1>9. CASE Edit
  <2>1. \A t \in Threads : /\ th'[t].at = th[t].at /\ th'[t].inhibit = th[t].inhibit
                           /\ ~th'[t].quiet
    BY <1>9, <1>a DEF Edit, Thread
  <2> QED
    BY <2>1 DEF Knowledge, Asks, Knows
<1>10. CASE Store
  <2>1. \A t \in Threads : ~th[t].quiet
    BY <1>10 DEF Store, Knowledge, Knows
  <2> QED
    BY <1>10, <2>1 DEF Store, Knowledge, Asks, Knows
<1>11. CASE Removed
  BY <1>11 DEF Removed, Knowledge, Asks, Knows, Band
<1>12. CASE LevelMoves \/ AdapterMoves \/ UNCHANGED vars
  BY <1>12 DEF LevelMoves, AdapterMoves, vars, appVars, Knowledge, Asks, Knows, Band
<1>13. ASSUME NEW k \in Keys, Toggle(k) \/ ManagedMoves(k) PROVE Knowledge'
  BY <1>13 DEF Toggle, ManagedMoves, appVars, Knowledge, Asks, Knows, Band
<1> QED
  BY <1>3, <1>4, <1>5, <1>6, <1>7, <1>8, <1>9, <1>10, <1>11, <1>12, <1>13 DEF Next

-----------------------------------------------------------------------------
(* The theorems.                                                           *)

LEMMA ControlInit == Init => ControlInv
<1> SUFFICES ASSUME Init PROVE ControlInv
  OBVIOUS
<1>1. \A t \in Threads : th[t] = Idle
  BY DEF Init
<1>2. Lifecycle /\ OneBusy /\ Written /\ CacheKept /\ StopKept /\ Steps3
  BY <1>1 DEF Init, Idle, Lifecycle, OneBusy, Written, CacheKept, StopKept, Steps3, Busy, Threads
<1>3. Knowledge
  BY <1>1 DEF Idle, Knowledge, Asks, Knows
<1> QED
  BY <1>2, <1>3, TypeInit DEF ControlInv

LEMMA ControlStep == ControlInv /\ [Next]_vars => ControlInv'
BY TypeStep, TurnsStep, KeysStep, KnowledgeStep DEF ControlInv, Turns, KeyInv

\* The parts of the invariant hold throughout, for every scale and every bound.
THEOREM InvariantHolds == Spec => []ControlInv
BY ControlInit, ControlStep, PTL DEF Spec

\* Every variable of the daemon keeps its shape; in particular no edit of the app stores a
\* threshold off the scale.
THEOREM TypeCorrect == Spec => []TypeOK
<1>1. ControlInv => TypeOK
  BY DEF ControlInv
<1> QED
  BY <1>1, InvariantHolds, PTL

\* CH0CCache and CH0ICache are true to the keys unless handlers overlapped, a stop failed
\* halfway or a key was set by hand.
THEOREM CacheIsTrue == Spec => []CacheTrue
<1>1. ControlInv => CacheTrue
  BY DEF ControlInv, CacheKept, CacheTrue, Threads
<1> QED
  BY <1>1, InvariantHolds, PTL

\* A stop command that ends the daemon (daemon.c, command 3) has released both keys.
THEOREM StopReleasesKeys == Spec => StopReleases
<1> DEFINE A == th["client"].at = "leave" /\ up' = "no" /\ ~upset => \A k \in Keys : ~key'[k]
<1>1. ControlInv /\ [Next]_vars => A
  <2> SUFFICES ASSUME ControlInv, [Next]_vars, th["client"].at = "leave", up' = "no", ~upset
               PROVE  \A k \in Keys : ~key'[k]
    OBVIOUS
  <2>1. up = "running"
    BY DEF ControlInv, Lifecycle, Busy, Threads
  <2>2. \A k \in Keys : ~key[k]
    BY DEF ControlInv, StopKept, Keys
  <2>3. \A t \in Threads : Update(t) => UNCHANGED up
    BY UpdateAdvances DEF ControlInv, Advances
  <2>4. \E t \in Threads : Exit(t)
    BY <2>1, <2>3 DEF Next, Launch, Start, PowerEvent, Redecide, Stop, StopInflow, StopCharge,
       Release, Edit, Store, Removed, LevelMoves, AdapterMoves, Toggle, ManagedMoves, vars
  <2> QED
    BY <2>2, <2>4 DEF Exit, hardware
<1>2. A \/ UNCHANGED vars => [A]_vars
  OBVIOUS
<1> QED
  BY <1>1, <1>2, InvariantHolds, PTL DEF Spec, StopReleases

\* Hysteresis: an update that no edit disturbed writes no key while the level is between
\* the thresholds, and inhibits exactly at the limit.
THEOREM Hysteresis == Spec => BandKept
<1> DEFINE A == \A t \in Threads : th[t].at = "write" /\ th'[t].at = "note" /\ th[t].quiet =>
                  /\ ~(settings.resume # Off /\ settings.resume < th[t].level
                         /\ th[t].level < settings.limit)
                  /\ key'[Target(t)] <=> AtLeast(th[t].level, settings.limit)
<1>1. ControlInv /\ [Next]_vars => A
  <2> SUFFICES ASSUME ControlInv, [Next]_vars, NEW t \in Threads,
                      th[t].at = "write", th'[t].at = "note", th[t].quiet
               PROVE  /\ ~Band(t)
                      /\ key'[Target(t)] <=> AtLeast(th[t].level, settings.limit)
    BY DEF Band
  <2>1. ~Band(t) /\ (th[t].inhibit <=> AtLeast(th[t].level, settings.limit))
    BY DEF ControlInv, Knowledge, Knows, Switching
  <2>2. Write(t)
    <3> USE DEF ControlInv
    <3>a. TypeOK /\ th \in [Threads -> Thread]
      BY DEF TypeOK
    <3>1. ASSUME NEW u \in Threads, Update(u) PROVE Write(t)
      <4>1. u = t
        BY <3>1, UpdateAdvances DEF Advances
      <4>2. CASE Check(t) \/ DecideResume(t) \/ DecidePaired(t) \/ DecideAlone(t) \/ NoPower(t)
                 \/ Probe(t) \/ ProbeFails(t) \/ Compare(t) \/ Note(t)
        BY <4>2 DEF Check, DecideResume, DecidePaired, DecideAlone, NoPower, Probe, ProbeFails,
           Compare, Note
      <4>3. CASE WriteFails(t)
        BY <4>3, DoneEffect DEF WriteFails, Ends
      <4> QED
        BY <3>1, <4>1, <4>2, <4>3 DEF Update
    <3>2. Start \/ PowerEvent \/ Redecide \/ Stop => th'[t].at # "note"
      BY BeginEffect, GoesEffect
         DEF Start, PowerEvent, Redecide, Stop, Others, Threads, Steps
    <3>3. StopInflow \/ StopCharge => th'[t].at # "note"
      BY GoesEffect, DoneEffect
         DEF StopInflow, StopCharge, Release, Ends, Others, Threads, Steps
    <3>4. ASSUME NEW u \in Threads, Exit(u) PROVE FALSE
      BY <3>4 DEF Exit, Idle
    <3>5. ~Edit
      BY <3>a DEF Edit, Thread
    <3>6. /\ ~Launch /\ ~Store /\ ~Removed /\ ~LevelMoves /\ ~AdapterMoves
          /\ \A k \in Keys : ~Toggle(k) /\ ~ManagedMoves(k)
          /\ ~UNCHANGED vars
      BY DEF Launch, Store, Removed, LevelMoves, AdapterMoves, Toggle, ManagedMoves, vars
    <3> QED
      BY <3>1, <3>2, <3>3, <3>4, <3>5, <3>6 DEF Next
  <2>3. key'[Target(t)] = th[t].inhibit
    BY <2>2 DEF ControlInv, TypeOK, Write, Target, Keys
  <2> QED
    BY <2>1, <2>3
<1>2. A \/ UNCHANGED vars => [A]_vars
  OBVIOUS
<1> QED
  BY <1>1, <1>2, InvariantHolds, PTL DEF Spec, BandKept
=============================================================================
