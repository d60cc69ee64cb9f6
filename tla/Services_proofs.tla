-------------------------- MODULE Services_proofs --------------------------
(***************************************************************************)
(* Theorems about the control socket, the language, the configuration      *)
(* directory, the cells' temperatures, the temperature page and the        *)
(* statistics of the charge history, for any number of clients, readers    *)
(* and processes, any bounds and any history.                              *)
(***************************************************************************)
EXTENDS ControlServer, Locale, ConfigDir, CellTemperature, TemperaturePage,
        Statistics, FiniteSetTheorems, SequenceTheorems, TLAPS

-----------------------------------------------------------------------------
(* The control socket: the inductive invariant.                            *)

\* Those who have a place.
Placed == {c \in Clients : thread[c] \in Serving \/ listener = c}

ServerShape ==
  /\ peer \in [Clients -> {"away", "waiting", "open", "gone", "shut"}]
  /\ thread \in [Clients -> {"none", "end1", "end2"} \cup Serving]
  /\ listener \in Clients \cup {Nobody}
  /\ daemon_client_count \in Nat

\* A connection has no thread before it is accepted, nor while the listener makes one for it.
Once ==
  \A c \in Clients :
    /\ peer[c] \in {"away", "waiting"} => thread[c] = "none" /\ listener # c
    /\ listener = c => thread[c] = "none"

Counted == daemon_client_count = Cardinality(Placed) /\ daemon_client_count <= MaxClients

PlacesInv == ServerShape /\ Once /\ Counted

-----------------------------------------------------------------------------
(* Taking a place and giving it back.                                      *)

\* There are finitely many places to count.
LEMMA PlacesFinite == IsFiniteSet(Placed) /\ Cardinality(Placed) \in Nat
<1>1. IsFiniteSet(Placed)
  BY ServerAssumption, FS_Subset DEF Placed
<1> QED
  BY <1>1, FS_CardinalityType

\* A client that had no place takes one.
LEMMA Taken ==
  ASSUME PlacesInv, NEW c \in Clients, c \notin Placed, daemon_client_count < MaxClients,
         Placed' = Placed \cup {c}, daemon_client_count' = daemon_client_count + 1
  PROVE  Counted' /\ daemon_client_count' \in Nat
<1>1. Cardinality(Placed \cup {c}) = Cardinality(Placed) + 1
  BY PlacesFinite, FS_AddElement
<1> QED
  BY <1>1, ServerAssumption DEF PlacesInv, Counted, ServerShape

\* A client that had a place gives it back.
LEMMA Returned ==
  ASSUME PlacesInv, NEW c \in Clients, c \in Placed,
         Placed' = Placed \ {c}, daemon_client_count' = daemon_client_count - 1
  PROVE  Counted' /\ daemon_client_count' \in Nat
<1>1. Cardinality(Placed \ {c}) = Cardinality(Placed) - 1
  BY PlacesFinite, FS_RemoveElement
<1>2. IsFiniteSet(Placed \ {c})
  BY PlacesFinite, FS_Subset
<1>3. Cardinality(Placed \ {c}) \in Nat
  BY <1>2, FS_CardinalityType
<1> QED
  BY <1>1, <1>3, ServerAssumption DEF PlacesInv, Counted, ServerShape

\* A step that moves no client in or out of a place.
LEMMA Stays ==
  ASSUME PlacesInv, Placed' = Placed, daemon_client_count' = daemon_client_count
  PROVE  Counted' /\ daemon_client_count' \in Nat
BY DEF PlacesInv, Counted, ServerShape

\* A thread that closes its client's connection has a place, and leaves it.
LEMMA Closing ==
  ASSUME PlacesInv, NEW c \in Clients, thread[c] \in Serving, listener' = listener,
         NEW then \in {"none", "end1"}, Goto(c, then),
         \A d \in Clients : peer'[d] \in {peer[d], "shut"},
         peer' \in [Clients -> {"away", "waiting", "open", "gone", "shut"}],
         daemon_client_count' = daemon_client_count - 1
  PROVE  PlacesInv'
<1> USE DEF PlacesInv
<1>1. thread' = [thread EXCEPT ![c] = then] /\ listener # c
  BY DEF Goto, Once, Serving
<1>2. c \in Placed /\ Placed' = Placed \ {c}
  BY <1>1 DEF Placed, ServerShape, Serving
<1>3. Counted' /\ daemon_client_count' \in Nat
  BY <1>2, Returned
<1>4. ServerShape'
  BY <1>1, <1>3 DEF ServerShape
<1>5. Once'
  BY <1>1 DEF Once, ServerShape, Serving
<1> QED
  BY <1>3, <1>4, <1>5

-----------------------------------------------------------------------------
(* The steps.                                                              *)

\* The listener takes a place for a connection, or gives it back when no thread starts.
LEMMA ListenerKeeps == ASSUME PlacesInv, MakeThread \/ \E c \in Clients : Accept(c) PROVE PlacesInv'
<1> USE ServerAssumption DEF PlacesInv
<1>1. ASSUME NEW c \in Clients, Accept(c) PROVE PlacesInv'
  <2>1. c \notin Placed /\ peer[c] = "waiting" /\ listener = Nobody /\ thread' = thread
    BY <1>1 DEF Accept, Once, Placed, Serving
  <2>2. CASE daemon_client_count < MaxClients
    <3>1. Placed' = Placed \cup {c}
      BY <1>1, <2>1, <2>2 DEF Accept, Placed
    <3>2. Counted' /\ daemon_client_count' \in Nat
      BY <1>1, <2>1, <2>2, <3>1, Taken DEF Accept
    <3> QED
      BY <1>1, <2>1, <2>2, <3>2 DEF Accept, ServerShape, Once
  <2>3. CASE ~(daemon_client_count < MaxClients)
    <3>1. Placed' = Placed /\ daemon_client_count' = daemon_client_count
      BY <1>1, <2>3 DEF Accept, Placed
    <3>2. Counted' /\ daemon_client_count' \in Nat
      BY <3>1, Stays
    <3> QED
      BY <1>1, <2>1, <2>3, <3>2 DEF Accept, ServerShape, Once
  <2> QED
    BY <2>2, <2>3
<1>2. CASE MakeThread
  <2>1. listener \in Clients /\ listener' = Nobody /\ thread[listener] = "none" /\ listener \in Placed
    BY <1>2 DEF MakeThread, ServerShape, Once, Placed
  <2>2. CASE UNCHANGED <<peer, daemon_client_count>> /\ thread' = [thread EXCEPT ![listener] = "read"]
    <3>1. Placed' = Placed
      BY <2>1, <2>2 DEF Placed, ServerShape, Serving
    <3>2. Counted' /\ daemon_client_count' \in Nat
      BY <2>2, <3>1, Stays
    <3>3. peer[listener] \notin {"away", "waiting"}
      BY <2>1 DEF Once
    <3> QED
      BY <2>1, <2>2, <3>2, <3>3 DEF ServerShape, Once, Serving
  <2>3. CASE CloseRefused(listener) /\ UNCHANGED thread
    <3>1. Placed' = Placed \ {listener}
      BY <2>1, <2>3 DEF Placed, ServerShape, Serving
    <3>2. Counted' /\ daemon_client_count' \in Nat
      BY <2>1, <2>3, <3>1, Returned DEF CloseRefused
    <3> QED
      BY <2>1, <2>3, <3>2 DEF CloseRefused, ServerShape, Once
  <2> QED
    BY <1>2, <2>2, <2>3 DEF MakeThread
<1> QED
  BY <1>1, <1>2

\* A thread keeps its place until it ends.
LEMMA ThreadKeeps == ASSUME PlacesInv, NEW c \in Clients, Thread(c) PROVE PlacesInv'
<1> USE DEF PlacesInv
<1>1. ASSUME UNCHANGED <<peer, listener, daemon_client_count>>,
             NEW then \in {"none", "end1", "end2"} \cup Serving, Goto(c, then),
             thread[c] # "none", then \in Serving <=> thread[c] \in Serving
      PROVE  PlacesInv'
  <2>1. Placed' = Placed
    BY <1>1 DEF Goto, Placed, ServerShape
  <2>2. Counted' /\ daemon_client_count' \in Nat
    BY <1>1, <2>1, Stays
  <2> QED
    BY <1>1, <2>2 DEF Goto, ServerShape, Once
<1>2. ASSUME NEW then \in {"none", "end1"}, thread[c] \in Serving, CloseClient(c, then) PROVE PlacesInv'
  BY <1>2, Closing DEF CloseClient, ServerShape
<1>3. CASE ReadCommand(c)
  <2>1. thread[c] = "read" /\ thread[c] \in Serving /\ listener' = listener
    BY <1>3 DEF ReadCommand, At, Serving
  <2>2. CASE UNCHANGED <<thread, peer, daemon_client_count>>
    <3>1. Placed' = Placed
      BY <2>1, <2>2 DEF Placed
    <3>2. Counted' /\ daemon_client_count' \in Nat
      BY <2>2, <3>1, Stays
    <3> QED
      BY <2>1, <2>2, <3>2 DEF ServerShape, Once
  <2>3. CASE Goto(c, "hello") /\ UNCHANGED <<peer, daemon_client_count>>
    BY <1>1, <2>1, <2>3 DEF Serving
  <2>4. CASE /\ Goto(c, "none") /\ daemon_client_count' = daemon_client_count - 1
             /\ \/ peer' = [d \in Clients |-> IF peer[d] \in {"open", "waiting"} THEN "shut" ELSE peer[d]]
                \/ peer' = [peer EXCEPT ![c] = IF @ = "open" THEN "shut" ELSE @]
    BY <2>1, <2>4, Closing DEF ServerShape
  <2> QED
    BY <1>3, <2>2, <2>3, <2>4 DEF ReadCommand
<1>4. CASE ReadFails(c)
  BY <1>2, <1>4 DEF ReadFails, At, Serving
<1>5. CASE Greet(c)
  BY <1>1, <1>2, <1>5 DEF Greet, At, Serving
<1>6. CASE Redirect(c)
  BY <1>1, <1>6 DEF Redirect, At, Serving
<1>7. CASE Forward(c)
  <2>1. CASE CloseClient(c, "end1")
    BY <1>2, <1>7, <2>1 DEF Forward, At, Serving
  <2>2. CASE UNCHANGED <<peer, thread, listener, daemon_client_count>>
    <3>1. Placed' = Placed
      BY <2>2 DEF Placed
    <3> QED
      BY <2>2, <3>1, Stays DEF ServerShape, Once
  <2> QED
    BY <1>7, <2>1, <2>2 DEF Forward
<1>8. CASE LogEnds(c)
  BY <1>2, <1>8 DEF LogEnds, At, Serving
<1>9. CASE Restore(c)
  BY <1>1, <1>9 DEF Restore, At, Serving
<1> QED
  BY <1>3, <1>4, <1>5, <1>6, <1>7, <1>8, <1>9 DEF Thread

\* No client has a place at first.
LEMMA PlacesInit == Init => PlacesInv
<1> SUFFICES ASSUME Init PROVE PlacesInv
  OBVIOUS
<1>1. Placed = {}
  BY ServerAssumption DEF Init, Placed, Serving
<1>2. Cardinality(Placed) = 0
  BY <1>1, FS_EmptySet
<1> QED
  BY <1>2, ServerAssumption DEF Init, PlacesInv, ServerShape, Once, Counted

\* Every step keeps the count true.
LEMMA PlacesStep == PlacesInv /\ [Next]_vars => PlacesInv'
<1> SUFFICES ASSUME PlacesInv, [Next]_vars PROVE PlacesInv'
  OBVIOUS
<1>1. ASSUME UNCHANGED <<thread, listener, daemon_client_count>>,
             peer' \in [Clients -> {"away", "waiting", "open", "gone", "shut"}],
             \A c \in Clients : peer'[c] \in {"away", "waiting"} => peer[c] \in {"away", "waiting"}
      PROVE  PlacesInv'
  <2>1. Placed' = Placed
    BY <1>1 DEF Placed
  <2> QED
    BY <1>1, <2>1, Stays DEF PlacesInv, ServerShape, Once
<1>2. ASSUME NEW c \in Clients, Connect(c) \/ Send(c) \/ Leave(c) PROVE PlacesInv'
  BY <1>1, <1>2 DEF Connect, Send, Leave, PlacesInv, ServerShape
<1>3. CASE Output \/ UNCHANGED vars
  BY <1>1, <1>3 DEF Output, vars, PlacesInv, ServerShape
<1> QED
  BY <1>2, <1>3, ListenerKeeps, ThreadKeeps DEF Next

-----------------------------------------------------------------------------
(* The theorem.                                                            *)

\* The parts of the invariant hold throughout.
THEOREM PlacesInvariance == Spec => []PlacesInv
BY PlacesInit, PlacesStep, PTL DEF Spec

\* daemon_client_count is the number of clients with a thread, and never exceeds
\* BATTMAN_MAX_CONTROL_CLIENTS, however connections, commands, failures and exits interleave.
THEOREM SlotsTrueHolds == Spec => []SlotsTrue
<1>1. PlacesInv => SlotsTrue
  BY DEF PlacesInv, Counted, Placed, SlotsTrue
<1> QED
  BY <1>1, PlacesInvariance, PTL

-----------------------------------------------------------------------------
(* The language: a stored code is the last choice.                         *)

Numbers == {Absent, Empty} \cup 0..(Languages - 1)

\* The number that the file, or the system's language, now gives.
Current == CASE langFile = Absent -> SystemCode [] langFile = Empty -> 0 [] OTHER -> langFile

LookupShape ==
  /\ langFile \in Numbers
  /\ \A r \in Readers :
       \/ lookup[r] = Idle
       \/ lookup[r] \in [at : {"read", "find", "copy", "convert", "store"}, asks : {"code", "dates"},
                         fresh : BOOLEAN, gone : Numbers]
  /\ lookup \in [Readers -> {lookup[r] : r \in Readers}]
  /\ selecting = Idle \/ selecting.at = "clear" \/ (selecting.at = "write" /\ selecting.value \in 0..(Languages - 1))

\* What a lookup has found so far is what it would find now, unless a clear is due or was made.
Following(r) ==
  /\ lookup[r].at = "read" => (lookup[r].gone = Absent => langFile # Absent) /\ lookup[r].asks = "code"
  /\ lookup[r].at # "idle" /\ lookup[r].fresh =>
       /\ lookup[r].gone # Absent => selecting.at = "clear"
       /\ lookup[r].asks = "code" /\ lookup[r].at # "read" /\ selecting = Idle => langFile = Absent

LocaleInv == LookupShape /\ (\A r \in Readers : Following(r)) /\ CodeFresh

\* Nobody has looked the language up at first.
LEMMA LocaleStarts == LocaleInit => LocaleInv
<1> SUFFICES ASSUME LocaleInit PROVE LocaleInv
  OBVIOUS
<1>1. /\ langFile \in Numbers /\ lookup = [r \in Readers |-> Idle] /\ selecting = Idle /\ code = Unset
  BY DEF LocaleInit, Numbers
<1>2. \A r \in Readers : lookup[r] = Idle
  BY <1>1
<1>3. lookup \in [Readers -> {lookup[r] : r \in Readers}]
  BY <1>1
<1>4. \A r \in Readers : Following(r)
  BY <1>2 DEF Following, Idle
<1> QED
  BY <1>1, <1>2, <1>3, <1>4 DEF LocaleInv, LookupShape, CodeFresh

\* A lookup follows the file, or is marked by the clear that is to come.
LEMMA LocaleStep == LocaleInv /\ [LocaleNext]_localeVars => LocaleInv'
<1> SUFFICES ASSUME LocaleInv, [LocaleNext]_localeVars PROVE LocaleInv'
  OBVIOUS
<1>0. \A r \in Readers : lookup[r] = Idle <=> lookup[r].at = "idle"
  BY DEF LocaleInv, LookupShape, Idle
<1>i. selecting = Idle <=> selecting.at = "idle"
  BY DEF LocaleInv, LookupShape, Idle
\* One lookup goes on, without storing.
<1>1. ASSUME NEW r \in Readers, NEW after, lookup' = [lookup EXCEPT ![r] = after],
             UNCHANGED <<config, system, langFile, code, selecting, overtaken>>,
             \/ after = Idle
             \/ after \in [at : {"read", "find", "copy", "convert", "store"}, asks : {"code", "dates"},
                          fresh : BOOLEAN, gone : Numbers],
             Following(r)'
      PROVE  LocaleInv'
  <2>1. LookupShape'
    BY <1>1 DEF LocaleInv, LookupShape, Idle
  <2>2. \A q \in Readers : Following(q)'
    BY <1>1 DEF LocaleInv, LookupShape, Following
  <2>3. CodeFresh'
    BY <1>1 DEF LocaleInv, CodeFresh, SystemCode
  <2> QED
    BY <2>1, <2>2, <2>3 DEF LocaleInv
<1>2. ASSUME NEW r \in Readers, OpenLang(r) PROVE LocaleInv'
  <2> DEFINE after == [at |-> IF langFile = Absent THEN "find" ELSE "read", asks |-> "code",
                      fresh |-> TRUE, gone |-> Absent]
  <2>1. lookup' = [lookup EXCEPT ![r] = after] /\ lookup'[r] = after
        /\ UNCHANGED <<config, system, langFile, code, selecting, overtaken>>
    BY <1>2 DEF OpenLang, LocaleInv, LookupShape
  <2>2. after \in [at : {"read", "find", "copy", "convert", "store"}, asks : {"code", "dates"},
                  fresh : BOOLEAN, gone : Numbers]
    BY DEF Numbers
  <2>3. Following(r)'
    BY <2>1 DEF Following
  <2> HIDE DEF after
  <2> QED
    BY <1>1, <2>1, <2>2, <2>3
<1>3. ASSUME NEW r \in Readers, FormatDates(r) PROVE LocaleInv'
  <2> DEFINE after == [at |-> "find", asks |-> "dates", fresh |-> TRUE, gone |-> Absent]
  <2>1. lookup' = [lookup EXCEPT ![r] = after] /\ lookup'[r] = after
        /\ UNCHANGED <<config, system, langFile, code, selecting, overtaken>>
    BY <1>3 DEF FormatDates, LocaleInv, LookupShape
  <2>2. after \in [at : {"read", "find", "copy", "convert", "store"}, asks : {"code", "dates"},
                  fresh : BOOLEAN, gone : Numbers]
    BY DEF Numbers
  <2>3. Following(r)'
    BY <2>1 DEF Following
  <2> HIDE DEF after
  <2> QED
    BY <1>1, <2>1, <2>2, <2>3
\* A lookup goes on from the file's absence.
<1>4. ASSUME NEW r \in Readers, lookup[r].at \in {"find", "copy", "convert"},
             NEW here \in {"copy", "convert", "store"},
             lookup' = [lookup EXCEPT ![r].at = here],
             UNCHANGED <<config, system, langFile, code, selecting, overtaken>>
      PROVE  LocaleInv'
  <2> DEFINE after == [lookup[r] EXCEPT !.at = here]
  <2>1. lookup[r] \in [at : {"read", "find", "copy", "convert", "store"}, asks : {"code", "dates"},
                       fresh : BOOLEAN, gone : Numbers]
    BY <1>4 DEF LocaleInv, LookupShape, Idle
  <2>2. lookup' = [lookup EXCEPT ![r] = after] /\ lookup'[r] = after
    BY <1>4 DEF LocaleInv, LookupShape
  <2>3. /\ after \in [at : {"read", "find", "copy", "convert", "store"}, asks : {"code", "dates"},
                     fresh : BOOLEAN, gone : Numbers]
        /\ after.at = here /\ after.asks = lookup[r].asks /\ after.fresh = lookup[r].fresh
        /\ after.gone = lookup[r].gone
    BY <2>1
  <2>4. Following(r)
    BY DEF LocaleInv
  <2>5. Following(r)'
    BY <1>4, <2>2, <2>3, <2>4 DEF Following
  <2> HIDE DEF after
  <2> QED
    BY <1>1, <1>4, <2>2, <2>3, <2>5
<1>5. ASSUME NEW r \in Readers, FindName(r) \/ CopyName(r) \/ ConvertName(r) PROVE LocaleInv'
  <2>1. CASE FindName(r)
    BY <1>4, <2>1 DEF FindName
  <2>2. CASE CopyName(r)
    BY <1>4, <2>2 DEF CopyName
  <2>3. CASE ConvertName(r)
    BY <1>4, <2>3 DEF ConvertName
  <2> QED
    BY <1>5, <2>1, <2>2, <2>3
\* A lookup stores what it found.
<1>6. ASSUME NEW r \in Readers, NEW value, Store(r, value),
             UNCHANGED <<config, system, langFile, selecting>>,
             lookup[r].fresh /\ selecting = Idle => value = Current
      PROVE  LocaleInv'
  <2>1. LookupShape'
    BY <1>6 DEF Store, LocaleInv, LookupShape, Idle
  <2>2. \A q \in Readers : Following(q)'
    BY <1>6 DEF Store, LocaleInv, LookupShape, Following, Idle
  <2>3. CodeFresh'
    BY <1>6 DEF Store, CodeFresh, Current, SystemCode
  <2> QED
    BY <2>1, <2>2, <2>3 DEF LocaleInv
<1>7. ASSUME NEW r \in Readers, ReadLang(r) PROVE LocaleInv'
  <2> DEFINE found == IF lookup[r].gone # Absent THEN lookup[r].gone ELSE langFile
             value == IF found = Empty THEN 0 ELSE found
  <2>1. lookup[r].at = "read" /\ Store(r, value) /\ UNCHANGED <<config, system, langFile, selecting>>
    BY <1>7 DEF ReadLang
  <2>2. ASSUME lookup[r].fresh, selecting = Idle PROVE value = Current
    <3>1. lookup[r].gone = Absent /\ langFile # Absent
      BY <2>1, <2>2 DEF LocaleInv, Following, Idle
    <3> QED
      BY <3>1 DEF Current
  <2> HIDE DEF value
  <2> QED
    BY <1>6, <2>1, <2>2
<1>8. ASSUME NEW r \in Readers, StoreSystem(r) PROVE LocaleInv'
  <2>1. CASE lookup[r].asks = "code"
    <3>1. lookup[r].at = "store" /\ Store(r, SystemCode) /\ UNCHANGED <<config, system, langFile, selecting>>
      BY <1>8, <2>1 DEF StoreSystem
    <3>2. lookup[r].fresh /\ selecting = Idle => SystemCode = Current
      <4>1. lookup[r].fresh /\ selecting = Idle => langFile = Absent
        BY <2>1, <3>1 DEF LocaleInv, Following
      <4> QED
        BY <4>1 DEF Current, Absent, Empty
    <3> QED
      BY <1>6, <3>1, <3>2
  <2>2. CASE lookup[r].asks # "code"
    <3>1. lookup' = [lookup EXCEPT ![r] = Idle]
          /\ UNCHANGED <<config, system, langFile, code, selecting, overtaken>>
      BY <1>8, <2>2 DEF StoreSystem
    <3>2. lookup'[r] = Idle
      BY <3>1 DEF LocaleInv, LookupShape
    <3>3. Following(r)'
      BY <3>2 DEF Following, Idle
    <3> QED
      BY <1>1, <3>1, <3>3
  <2> QED
    BY <2>1, <2>2
\* The settings screen.
<1>9. ASSUME NEW n \in 0..(Languages - 1), Choose(n) PROVE LocaleInv'
  <2>1. /\ UNCHANGED <<config, system, code, lookup, overtaken>>
        /\ selecting = Idle /\ selecting'.at \in {"write", "clear"}
        /\ selecting'.at = "write" => selecting'.value = n
        /\ langFile' \in Numbers /\ (langFile # Absent => langFile' # Absent)
    BY <1>9 DEF Choose, LocaleInv, LookupShape, Numbers, Empty, Absent
  <2>2. LookupShape'
    BY <2>1 DEF LocaleInv, LookupShape
  <2>3. \A r \in Readers : Following(r)'
    BY <2>1, <1>i DEF LocaleInv, Following, Idle
  <2>4. CodeFresh'
    BY <2>1 DEF CodeFresh, Idle
  <2> QED
    BY <2>2, <2>3, <2>4 DEF LocaleInv
<1>10. CASE WriteChoice
  <2>1. /\ UNCHANGED <<config, system, code, lookup, overtaken>>
        /\ selecting.at = "write" /\ selecting'.at = "clear" /\ selecting' # Idle
        /\ langFile' \in Numbers /\ (langFile # Absent => langFile' # Absent)
    BY <1>10 DEF WriteChoice, LocaleInv, LookupShape, Numbers, Absent, Idle
  <2>2. LookupShape'
    BY <2>1 DEF LocaleInv, LookupShape
  <2>3. \A r \in Readers : Following(r)'
    BY <2>1 DEF LocaleInv, Following
  <2>4. CodeFresh'
    BY <2>1 DEF CodeFresh
  <2> QED
    BY <2>2, <2>3, <2>4 DEF LocaleInv
<1>11. CASE RemoveChoice
  <2>1. /\ UNCHANGED <<config, system, code, overtaken>>
        /\ selecting'.at = "clear" /\ selecting' # Idle /\ langFile' = Absent
        /\ lookup' = [r \in Readers |-> IF lookup[r].at = "read" /\ lookup[r].gone = Absent
                                        THEN [lookup[r] EXCEPT !.gone = langFile] ELSE lookup[r]]
    BY <1>11 DEF RemoveChoice, Idle
  <2>2. ASSUME NEW r \in Readers
        PROVE  /\ Following(r)'
               /\ \/ lookup'[r] = Idle
                  \/ lookup'[r] \in [at : {"read", "find", "copy", "convert", "store"},
                                     asks : {"code", "dates"}, fresh : BOOLEAN, gone : Numbers]
    <3>1. Following(r) /\ langFile \in Numbers
      BY DEF LocaleInv, LookupShape
    <3>2. CASE lookup[r].at = "read" /\ lookup[r].gone = Absent
      <4>1. lookup[r] \in [at : {"read", "find", "copy", "convert", "store"}, asks : {"code", "dates"},
                           fresh : BOOLEAN, gone : Numbers]
        BY <3>2 DEF LocaleInv, LookupShape, Idle
      <4>2. lookup'[r] = [lookup[r] EXCEPT !.gone = langFile]
        BY <2>1, <3>2
      <4>3. /\ lookup'[r].at = "read" /\ lookup'[r].gone = langFile
            /\ lookup'[r].asks = lookup[r].asks /\ lookup'[r].fresh = lookup[r].fresh
            /\ lookup'[r] \in [at : {"read", "find", "copy", "convert", "store"},
                               asks : {"code", "dates"}, fresh : BOOLEAN, gone : Numbers]
        BY <3>1, <3>2, <4>1, <4>2
      <4> QED
        BY <2>1, <3>1, <3>2, <4>3 DEF Following
    <3>3. CASE ~(lookup[r].at = "read" /\ lookup[r].gone = Absent)
      <4>1. lookup'[r] = lookup[r]
        BY <2>1, <3>3
      <4> QED
        BY <2>1, <3>1, <3>3, <4>1 DEF LocaleInv, LookupShape, Following
    <3> QED
      BY <3>2, <3>3
  <2>3. LookupShape'
    <3>1. langFile' \in Numbers
      BY <2>1 DEF Numbers
    <3>2. lookup' \in [Readers -> {lookup'[r] : r \in Readers}]
      BY <2>1
    <3> QED
      BY <2>1, <2>2, <3>1, <3>2 DEF LookupShape
  <2>4. CodeFresh'
    BY <2>1 DEF CodeFresh
  <2> QED
    BY <2>2, <2>3, <2>4 DEF LocaleInv
<1>12. CASE preferred_language_code_clear
  <2>1. /\ UNCHANGED <<config, system, langFile>>
        /\ code' = Unset /\ selecting' = Idle
        /\ lookup' = [r \in Readers |-> IF lookup[r] = Idle THEN Idle
                                        ELSE [lookup[r] EXCEPT !.fresh = FALSE]]
    BY <1>12 DEF preferred_language_code_clear
  <2>2. ASSUME NEW r \in Readers
        PROVE  /\ Following(r)'
               /\ \/ lookup'[r] = Idle
                  \/ lookup'[r] \in [at : {"read", "find", "copy", "convert", "store"},
                                     asks : {"code", "dates"}, fresh : BOOLEAN, gone : Numbers]
    <3>1. Following(r)
      BY DEF LocaleInv
    <3>2. CASE lookup[r] = Idle
      BY <2>1, <3>2 DEF Following, Idle
    <3>3. CASE lookup[r] # Idle
      <4>1. lookup[r] \in [at : {"read", "find", "copy", "convert", "store"}, asks : {"code", "dates"},
                           fresh : BOOLEAN, gone : Numbers]
        BY <3>3 DEF LocaleInv, LookupShape
      <4>2. lookup'[r] = [lookup[r] EXCEPT !.fresh = FALSE]
        BY <2>1, <3>3
      <4>3. /\ lookup'[r].at = lookup[r].at /\ lookup'[r].gone = lookup[r].gone
            /\ lookup'[r].asks = lookup[r].asks /\ lookup'[r].fresh = FALSE
            /\ lookup'[r] \in [at : {"read", "find", "copy", "convert", "store"},
                               asks : {"code", "dates"}, fresh : BOOLEAN, gone : Numbers]
        BY <4>1, <4>2
      <4> QED
        BY <2>1, <3>1, <4>3 DEF Following
    <3> QED
      BY <3>2, <3>3
  <2>3. LookupShape'
    <3>1. lookup' \in [Readers -> {lookup'[r] : r \in Readers}]
      BY <2>1
    <3> QED
      BY <2>1, <2>2, <3>1 DEF LookupShape, LocaleInv
  <2>4. CodeFresh'
    BY <2>1 DEF CodeFresh
  <2> QED
    BY <2>2, <2>3, <2>4 DEF LocaleInv
<1>13. CASE UNCHANGED localeVars
  BY <1>13 DEF localeVars, LocaleInv, LookupShape, Following, CodeFresh, SystemCode
<1> QED
  BY <1>2, <1>3, <1>5, <1>7, <1>8, <1>9, <1>10, <1>11, <1>12, <1>13 DEF LocaleNext

\* Whatever the readers and the settings screen do, and in whatever order, a number that is
\* used after a choice is that of the file or the system (common.c), unless a lookup
\* older than the choice stored it.
THEOREM CodeFreshHolds == LocaleSpec => []CodeFresh
<1>1. LocaleInv => CodeFresh
  BY DEF LocaleInv
<1> QED
  BY <1>1, LocaleStarts, LocaleStep, PTL DEF LocaleSpec

-----------------------------------------------------------------------------
(* The bisection of a table finds the last entry that is not after a       *)
(* tag: by induction on the length of the range that is left.              *)

\* A set of numbers that is not empty has a least one.
LEMMA LeastOf ==
    ASSUME NEW T, T \subseteq Nat, T # {}
    PROVE  \E i \in T : \A j \in T : i <= j
<1> DEFINE R == {p \in Nat \X Nat : p[1] < p[2]}
<1>1. OpToRel(<, Nat) = R
  BY DEF OpToRel
<1>2. IsWellFoundedOn(R, Nat)
  BY <1>1, NatLessThanWellFounded
<1>3. \A i, j \in Nat : <<j, i>> \in R <=> j < i
  OBVIOUS
<1> HIDE DEF R
<1>4. PICK i \in T : \A j \in T : ~ (<<j, i>> \in R)
  BY <1>2, WFMin
<1>5. ASSUME NEW j \in T PROVE i <= j
  <2>1. i \in Nat /\ j \in Nat /\ ~ (j < i)
    BY <1>3, <1>4
  <2> QED
    BY <2>1
<1> QED
  BY <1>5

\* A set of numbers that holds zero, and the next of each it holds, holds all of them.
LEMMA NatSetInduction ==
    ASSUME NEW T, 0 \in T, \A n \in Nat : n \in T => n + 1 \in T
    PROVE  \A n \in Nat : n \in T
<1> SUFFICES ASSUME NEW m \in Nat, m \notin T PROVE FALSE
  OBVIOUS
<1> DEFINE U == {n \in Nat : n \notin T}
<1>1. PICK i \in U : \A j \in U : i <= j
  <2>1. U \subseteq Nat /\ U # {}
    OBVIOUS
  <2> HIDE DEF U
  <2> QED
    BY <2>1, LeastOf
<1>2. i \in Nat /\ i # 0 /\ i \notin T
  OBVIOUS
<1>3. i - 1 \in Nat /\ ~(i <= i - 1) /\ i - 1 \in T
  BY <1>1, <1>2
<1> QED
  BY <1>2, <1>3

\* The ranges a bisection is asked of, and the half of one it goes on with.
Ranges(n) == (1..n) \X (2..(n + 1))
Middle(r) == (r[1] + r[2]) \div 2
Half(table, tag, r) ==
  IF Before(tag, table[Middle(r)].tag) THEN <<r[1], Middle(r)>> ELSE <<Middle(r), r[2]>>

\* Floor is a solution of its equation, once there is one.
LEMMA FloorDef ==
  ASSUME NEW table, NEW tag, NEW g,
         g = [range \in Ranges(Len(table)) |->
                IF range[2] - range[1] <= 1 THEN range[1] ELSE g[Half(table, tag, range)]]
  PROVE  \E f : /\ f = [range \in Ranges(Len(table)) |->
                          IF range[2] - range[1] <= 1 THEN range[1] ELSE f[Half(table, tag, range)]]
                /\ Floor(table, tag) = f[<<1, Len(table) + 1>>]
<1> DEFINE f == CHOOSE f : f = [range \in Ranges(Len(table)) |->
                  IF range[2] - range[1] <= 1 THEN range[1] ELSE f[Half(table, tag, range)]]
<1>1. Floor(table, tag) = f[<<1, Len(table) + 1>>]
  BY Zenon DEF Floor, Ranges, Half, Middle
<1>2. f = [range \in Ranges(Len(table)) |->
             IF range[2] - range[1] <= 1 THEN range[1] ELSE f[Half(table, tag, range)]]
  BY Zenon
<1> QED
  BY <1>1, <1>2, Zenon

\* A range of more than one entry has its middle strictly inside.
LEMMA Halves ==
  ASSUME NEW n \in Nat, NEW l \in 1..n, NEW h \in 2..(n + 1)
  PROVE  /\ <<l, h>> \in Ranges(n)
         /\ ~ (h - l <= 1) =>
              /\ Middle(<<l, h>>) \in 1..n /\ Middle(<<l, h>>) \in 2..n
              /\ Middle(<<l, h>>) \in 2..(n + 1)
              /\ l < Middle(<<l, h>>) /\ Middle(<<l, h>>) < h
<1>1. <<l, h>> \in Ranges(n)
  BY DEF Ranges
<1>2. PICK m : m = (l + h) \div 2
  OBVIOUS
<1>3. Middle(<<l, h>>) = m
  BY <1>2 DEF Middle
<1>4. ~ (h - l <= 1) => m \in 1..n /\ m \in 2..n /\ m \in 2..(n + 1) /\ l < m /\ m < h
  BY <1>2
<1> QED
  BY <1>1, <1>3, <1>4

\* The bisection ends where the tag belongs, whatever the length of the table.
LEMMA FloorFinds ==
  ASSUME NEW table, NEW n \in Nat, Len(table) = n, NEW tag, NEW i \in 1..n,
         \A m \in 2..n : Before(tag, table[m].tag) <=> i < m
  PROVE  Floor(table, tag) = i
<1> DEFINE M(l, h) == Middle(<<l, h>>)
<1>1. ASSUME NEW l \in 1..n, NEW h \in 2..(n + 1), ~ (h - l <= 1)
      PROVE  Half(table, tag, <<l, h>>) = IF i < M(l, h) THEN <<l, M(l, h)>> ELSE <<M(l, h), h>>
  <2>1. Before(tag, table[M(l, h)].tag) <=> i < M(l, h)
    BY <1>1, Halves
  <2> QED
    BY <2>1 DEF Half
<1> DEFINE Closest(l, h) == IF h - l <= 1 \/ i < l THEN l ELSE IF h <= i THEN h - 1 ELSE i
           g == [range \in Ranges(n) |-> Closest(range[1], range[2])]
<1>2. g = [range \in Ranges(n) |->
             IF range[2] - range[1] <= 1 THEN range[1] ELSE g[Half(table, tag, range)]]
  <2>1. \A l \in 1..n, h \in 2..(n + 1) : g[<<l, h>>] = Closest(l, h)
    BY Halves
  <2>2. ASSUME NEW range \in Ranges(n)
        PROVE  g[range] = IF range[2] - range[1] <= 1 THEN range[1] ELSE g[Half(table, tag, range)]
    <3>1. PICK l \in 1..n, h \in 2..(n + 1) : range = <<l, h>>
      BY DEF Ranges
    <3> HIDE DEF g
    <3>2. CASE h - l <= 1
      BY <2>1, <3>1, <3>2
    <3>3. CASE ~ (h - l <= 1)
      <4>1. PICK m : m = M(l, h)
        OBVIOUS
      <4>2. m \in 1..n /\ m \in 2..(n + 1) /\ l < m /\ m < h
        BY <3>3, <4>1, Halves
      <4> HIDE DEF M
      <4>3. Half(table, tag, range) = IF i < m THEN <<l, m>> ELSE <<m, h>>
        BY <1>1, <3>1, <3>3, <4>1
      <4>4. g[<<l, m>>] = Closest(l, m) /\ g[<<m, h>>] = Closest(m, h) /\ g[range] = Closest(l, h)
        BY <2>1, <3>1, <4>2
      <4>5. Closest(l, h) = IF i < m THEN Closest(l, m) ELSE Closest(m, h)
        BY <3>3, <4>2
      <4> HIDE DEF Closest
      <4> QED
        BY <3>1, <3>3, <4>3, <4>4, <4>5
    <3> QED
      BY <3>2, <3>3
  <2>3. g = [range \in Ranges(n) |-> g[range]]
    OBVIOUS
  <2> HIDE DEF g
  <2> QED
    BY <2>2, <2>3
<1> HIDE DEF g, M
<1>3. PICK f : /\ f = [range \in Ranges(n) |->
                        IF range[2] - range[1] <= 1 THEN range[1] ELSE f[Half(table, tag, range)]]
               /\ Floor(table, tag) = f[<<1, n + 1>>]
  BY <1>2, FloorDef, Zenon
<1>4. ASSUME NEW l \in 1..n, NEW h \in 2..(n + 1)
      PROVE  /\ h - l <= 1 => f[<<l, h>>] = l
             /\ ~ (h - l <= 1) /\ i < M(l, h) => f[<<l, h>>] = f[<<l, M(l, h)>>]
             /\ ~ (h - l <= 1) /\ ~ (i < M(l, h)) => f[<<l, h>>] = f[<<M(l, h), h>>]
  <2>1. <<l, h>> \in Ranges(n) /\ <<l, h>>[1] = l /\ <<l, h>>[2] = h
    BY Halves
  <2>2. f[<<l, h>>] = IF h - l <= 1 THEN l ELSE f[Half(table, tag, <<l, h>>)]
    BY <1>3, <2>1
  <2> QED
    BY <1>1, <2>2
<1> DEFINE T == {k \in Nat : \A l \in 1..n, h \in 2..(n + 1) :
                               l <= i /\ i < h /\ h - l <= k => f[<<l, h>>] = i}
<1>5. 0 \in T
  OBVIOUS
<1>6. ASSUME NEW k \in Nat, k \in T PROVE k + 1 \in T
  <2> SUFFICES ASSUME NEW l \in 1..n, NEW h \in 2..(n + 1), l <= i, i < h, h - l <= k + 1
               PROVE  f[<<l, h>>] = i
    OBVIOUS
  <2>1. PICK m : m = M(l, h)
    OBVIOUS
  <2>2. \A a \in 1..n, b \in 2..(n + 1) : a <= i /\ i < b /\ b - a <= k => f[<<a, b>>] = i
    BY <1>6
  <2>3. CASE h - l <= 1
    <3>1. l = i
      BY <2>3
    <3> QED
      BY <1>4, <2>3, <3>1
  <2>4. CASE ~ (h - l <= 1)
    <3>1. m \in 1..n /\ m \in 2..(n + 1) /\ l < m /\ m < h
      BY <2>1, <2>4, Halves DEF M
    <3>2. m - l <= k /\ h - m <= k
      BY <3>1
    <3>3. CASE i < m
      <4>1. f[<<l, h>>] = f[<<l, m>>]
        BY <1>4, <2>1, <2>4, <3>3
      <4>2. f[<<l, m>>] = i
        BY <2>2, <3>1, <3>2, <3>3
      <4> QED
        BY <4>1, <4>2
    <3>4. CASE ~ (i < m)
      <4>1. f[<<l, h>>] = f[<<m, h>>]
        BY <1>4, <2>1, <2>4, <3>4
      <4>2. f[<<m, h>>] = i
        BY <2>2, <3>1, <3>2, <3>4
      <4> QED
        BY <4>1, <4>2
    <3> QED
      BY <3>3, <3>4
  <2> QED
    BY <2>3, <2>4
<1>7. n \in T
  <2> HIDE DEF T
  <2> QED
    BY <1>5, <1>6, NatSetInduction
<1> QED
  BY <1>3, <1>7

-----------------------------------------------------------------------------
(* The table of languages is in strcmp's order.                            *)

\* Every subtag has one place in the order.
LEMMA CollationOnce ==
  /\ DOMAIN Collation = 1..30
  /\ \A i, j \in 1..30 : Collation[i] = Collation[j] => i = j
BY DEF Collation

\* The rank of a subtag is its place.
LEMMA RankOf == ASSUME NEW k \in 1..30 PROVE Rank(Collation[k]) = k
BY CollationOnce DEF Rank

\* The ranks of the subtags of the table.
LEMMA Ranks ==
  /\ Rank("Arab") = 1
  /\ Rank("Cyrl") = 3
  /\ Rank("Guru") = 4
  /\ Rank("HK") = 5
  /\ Rank("Hans") = 6
  /\ Rank("Hant") = 7
  /\ Rank("Latn") = 8
  /\ Rank("TW") = 11
  /\ Rank("az") = 13
  /\ Rank("bs") = 14
  /\ Rank("dots") = 16
  /\ Rank("ga") = 19
  /\ Rank("kk") = 20
  /\ Rank("mn") = 21
  /\ Rank("ms") = 22
  /\ Rank("pa") = 23
  /\ Rank("sr") = 24
  /\ Rank("tg") = 25
  /\ Rank("tk") = 26
  /\ Rank("tt") = 27
  /\ Rank("uz") = 28
  /\ Rank("yue") = 29
  /\ Rank("zh") = 30
BY RankOf DEF Collation

Subtags == {Collation[k] : k \in 1..30}

\* A tag as a number, a missing subtag as none.
Key(t) == 10000 * Rank(t[1]) + 100 * Rank(t[2]) + (IF Len(t) = 3 THEN Rank(t[3]) ELSE 0)

Tags == {t \in Seq(Subtags) : Len(t) \in {2, 3}}

\* A prefix has the elements of what it begins.
LEMMA PrefixByElements ==
  ASSUME NEW S, NEW a \in Seq(S), NEW b \in Seq(S)
  PROVE  IsPrefix(a, b) <=> Len(a) <= Len(b) /\ \A i \in 1..Len(a) : a[i] = b[i]
<1>1. CASE ~ (Len(a) <= Len(b))
  BY <1>1 DEF IsPrefix
<1>2. CASE Len(a) <= Len(b)
  <2> DEFINE n == Len(a)
             x == SubSeq(a, 1, n)
             y == SubSeq(b, 1, n)
  <2>1. n \in Nat /\ \A i \in 1..n : i \in 1..Len(a) /\ i \in 1..Len(b)
    BY <1>2
  <2>2. \A i \in 1..n : a[i] \in S /\ b[i] \in S
    BY <2>1, ElementOfSeq
  <2>3. x \in Seq(S) /\ Len(x) = n /\ \A i \in 1..n : x[i] = a[i]
    BY <2>1, <2>2, SubSeqProperties
  <2>4. y \in Seq(S) /\ Len(y) = n /\ \A i \in 1..n : y[i] = b[i]
    BY <1>2, <2>1, <2>2, SubSeqProperties
  <2>5. IsPrefix(a, b) <=> x = y
    BY <1>2 DEF IsPrefix
  <2> HIDE DEF x, y, n
  <2>6. x = y <=> \A i \in 1..n : a[i] = b[i]
    BY <2>3, <2>4, SeqEqual
  <2> QED
    BY <1>2, <2>5, <2>6 DEF n
<1> QED
  BY <1>1, <1>2

\* strcmp on tags of two or three known subtags.
LEMMA BeforeByKey == ASSUME NEW a \in Tags, NEW b \in Tags PROVE Before(a, b) <=> Key(a) < Key(b)
<1>1. \A s \in Subtags : Rank(s) \in 1..30
  BY RankOf DEF Subtags
<1>2. \A s, t \in Subtags : Rank(s) = Rank(t) => s = t
  BY RankOf DEF Subtags
<1>3. /\ a[1] \in Subtags /\ a[2] \in Subtags /\ b[1] \in Subtags /\ b[2] \in Subtags
      /\ DOMAIN a = 1..Len(a) /\ DOMAIN b = 1..Len(b)
      /\ Len(a) = 3 => a[3] \in Subtags
      /\ Len(b) = 3 => b[3] \in Subtags
      /\ Len(a) \in {2, 3} /\ Len(b) \in {2, 3}
  BY DEF Tags
<1>4. DOMAIN a = (IF Len(a) = 2 THEN {1, 2} ELSE {1, 2, 3}) /\ DOMAIN b = (IF Len(b) = 2 THEN {1, 2} ELSE {1, 2, 3})
  <2>1. 1..2 = {1, 2} /\ 1..3 = {1, 2, 3}
    OBVIOUS
  <2> QED
    BY <1>3, <2>1
<1> DEFINE Differ(i) == Rank(a[i]) < Rank(b[i]) /\ \A j \in 1..(i - 1) : a[j] = b[j]
<1>5. /\ Differ(1) <=> Rank(a[1]) < Rank(b[1])
      /\ Differ(2) <=> a[1] = b[1] /\ Rank(a[2]) < Rank(b[2])
      /\ Differ(3) <=> a[1] = b[1] /\ a[2] = b[2] /\ Rank(a[3]) < Rank(b[3])
  OBVIOUS
<1>6. IsStrictPrefix(a, b) <=> Len(a) = 2 /\ Len(b) = 3 /\ a[1] = b[1] /\ a[2] = b[2]
  <2>1. IsPrefix(a, b) <=> Len(a) <= Len(b) /\ \A i \in 1..Len(a) : a[i] = b[i]
    BY PrefixByElements DEF Tags
  <2>2. Len(a) = Len(b) /\ (\A i \in 1..Len(a) : a[i] = b[i]) => a = b
    BY SeqEqual DEF Tags
  <2>3. Len(a) = 2 => ((\A i \in 1..Len(a) : a[i] = b[i]) <=> a[1] = b[1] /\ a[2] = b[2])
    BY <1>3, <1>4
  <2>4. ASSUME IsStrictPrefix(a, b) PROVE Len(a) = 2 /\ Len(b) = 3
    <3>1. IsPrefix(a, b) /\ a # b
      BY <2>4 DEF IsStrictPrefix
    <3>2. Len(a) <= Len(b)
      BY <2>1, <3>1
    <3>3. Len(a) # Len(b)
      BY <2>1, <2>2, <3>1
    <3> QED
      <4>1. PICK k \in {2, 3}, l \in {2, 3} : k = Len(a) /\ l = Len(b)
        BY <1>3
      <4>2. k <= l /\ k # l
        BY <3>2, <3>3, <4>1
      <4>3. k = 2 /\ l = 3
        BY <4>2
      <4> QED
        BY <4>1, <4>3
  <2>5. Len(a) = 2 /\ Len(b) = 3 => a # b
    OBVIOUS
  <2> QED
    BY <2>1, <2>3, <2>4, <2>5 DEF IsStrictPrefix
<1>7. Before(a, b) <=> IsStrictPrefix(a, b) \/ \E i \in DOMAIN a \cap DOMAIN b : Differ(i)
  BY DEF Before
<1> HIDE DEF Differ
<1>8. Before(a, b) <=> \/ IsStrictPrefix(a, b) \/ Differ(1) \/ Differ(2)
                       \/ Len(a) = 3 /\ Len(b) = 3 /\ Differ(3)
  BY <1>3, <1>4, <1>7
<1> DEFINE a3 == IF Len(a) = 3 THEN Rank(a[3]) ELSE 0
           b3 == IF Len(b) = 3 THEN Rank(b[3]) ELSE 0
<1>9. /\ Rank(a[1]) \in 1..30 /\ Rank(a[2]) \in 1..30 /\ a3 \in 0..30 /\ (a3 = 0 <=> Len(a) = 2)
      /\ Rank(b[1]) \in 1..30 /\ Rank(b[2]) \in 1..30 /\ b3 \in 0..30 /\ (b3 = 0 <=> Len(b) = 2)
  <2>1. Rank(a[1]) \in 1..30 /\ Rank(a[2]) \in 1..30 /\ Rank(b[1]) \in 1..30 /\ Rank(b[2]) \in 1..30
    BY <1>1, <1>3
  <2>2. a3 \in 0..30 /\ (a3 = 0 <=> Len(a) = 2)
    <3>1. CASE Len(a) = 2
      BY <3>1
    <3>2. CASE Len(a) = 3
      <4>1. a3 = Rank(a[3]) /\ Rank(a[3]) \in 1..30
        BY <1>1, <1>3, <3>2
      <4> QED
        BY <3>2, <4>1
    <3> QED
      BY <1>3, <3>1, <3>2
  <2>3. b3 \in 0..30 /\ (b3 = 0 <=> Len(b) = 2)
    <3>1. CASE Len(b) = 2
      BY <3>1
    <3>2. CASE Len(b) = 3
      <4>1. b3 = Rank(b[3]) /\ Rank(b[3]) \in 1..30
        BY <1>1, <1>3, <3>2
      <4> QED
        BY <3>2, <4>1
    <3> QED
      BY <1>3, <3>1, <3>2
  <2> QED
    BY <2>1, <2>2, <2>3
<1>10. (a[1] = b[1] <=> Rank(a[1]) = Rank(b[1])) /\ (a[2] = b[2] <=> Rank(a[2]) = Rank(b[2]))
  BY <1>2, <1>3
<1>11. Before(a, b) <=> \/ Rank(a[1]) < Rank(b[1])
                        \/ Rank(a[1]) = Rank(b[1]) /\ Rank(a[2]) < Rank(b[2])
                        \/ Rank(a[1]) = Rank(b[1]) /\ Rank(a[2]) = Rank(b[2]) /\ a3 < b3
  <2>1. (\/ Len(a) = 2 /\ Len(b) = 3
         \/ Len(a) = 3 /\ Len(b) = 3 /\ Rank(a[3]) < Rank(b[3])) <=> a3 < b3
    <3>1. (Len(a) = 3 => a3 = Rank(a[3])) /\ (Len(b) = 3 => b3 = Rank(b[3]))
      OBVIOUS
    <3> HIDE DEF a3, b3
    <3> QED
      BY <1>3, <1>9, <3>1
  <2> HIDE DEF a3, b3
  <2> QED
    BY <1>5, <1>6, <1>8, <1>10, <2>1
<1>12. Key(a) = 10000 * Rank(a[1]) + 100 * Rank(a[2]) + a3 /\ Key(b) = 10000 * Rank(b[1]) + 100 * Rank(b[2]) + b3
  BY DEF Key
<1> HIDE DEF a3, b3
<1>13. Key(a) < Key(b) <=> \/ Rank(a[1]) < Rank(b[1])
                           \/ Rank(a[1]) = Rank(b[1]) /\ Rank(a[2]) < Rank(b[2])
                           \/ Rank(a[1]) = Rank(b[1]) /\ Rank(a[2]) = Rank(b[2]) /\ a3 < b3
  <2>1. PICK x \in 1..30, y \in 1..30, z \in 0..30 : x = Rank(a[1]) /\ y = Rank(a[2]) /\ z = a3
    BY <1>9
  <2>2. PICK u \in 1..30, v \in 1..30, w \in 0..30 : u = Rank(b[1]) /\ v = Rank(b[2]) /\ w = b3
    BY <1>9
  <2>3. PICK p \in Nat, q \in Nat : p = 10000 * x + 100 * y + z /\ q = 10000 * u + 100 * v + w
    OBVIOUS
  <2>4. Key(a) = p /\ Key(b) = q
    BY <1>12, <2>1, <2>2, <2>3
  <2>5. p < q <=> \/ x < u
                  \/ x = u /\ y < v
                  \/ x = u /\ y = v /\ z < w
    BY <2>3
  <2> QED
    BY <2>1, <2>2, <2>4, <2>5
<1> QED
  BY <1>11, <1>13, Zenon

TagKeys ==
  <<130800, 140800, 191600, 200300, 210300, 220800, 230100, 230400, 240300,
    250300, 260300, 270300, 280800, 290600, 300600, 300700, 300705, 300711>>

\* The tags of the table as numbers.
LEMMA TableTags ==
  ASSUME NEW i \in 1..18
  PROVE  langtag_table[i].tag \in Tags /\ Key(langtag_table[i].tag) = TagKeys[i]
<1> DEFINE Tagged(tag) == langtag_table[i].tag = tag /\ tag \in Tags /\ Key(tag) = TagKeys[i]
<1> SUFFICES \E tag : Tagged(tag)
  OBVIOUS
<1>0. {"Arab", "Cyrl", "Guru", "HK", "Hans", "Hant", "Latn", "TW", "az", "bs", "dots", "ga",
        "kk", "mn", "ms", "pa", "sr", "tg", "tk", "tt", "uz", "yue", "zh"} \subseteq Subtags
  BY CollationOnce DEF Subtags, Collation
<1>1. CASE i = 1
  <2> Tagged(<<"az", "Latn">>)
    BY <1>0, <1>1, Ranks DEF langtag_table, Entry, Key, TagKeys, Tags
  <2> QED
    OBVIOUS
<1>2. CASE i = 2
  <2> Tagged(<<"bs", "Latn">>)
    BY <1>0, <1>2, Ranks DEF langtag_table, Entry, Key, TagKeys, Tags
  <2> QED
    OBVIOUS
<1>3. CASE i = 3
  <2> Tagged(<<"ga", "dots">>)
    BY <1>0, <1>3, Ranks DEF langtag_table, Entry, Key, TagKeys, Tags
  <2> QED
    OBVIOUS
<1>4. CASE i = 4
  <2> Tagged(<<"kk", "Cyrl">>)
    BY <1>0, <1>4, Ranks DEF langtag_table, Entry, Key, TagKeys, Tags
  <2> QED
    OBVIOUS
<1>5. CASE i = 5
  <2> Tagged(<<"mn", "Cyrl">>)
    BY <1>0, <1>5, Ranks DEF langtag_table, Entry, Key, TagKeys, Tags
  <2> QED
    OBVIOUS
<1>6. CASE i = 6
  <2> Tagged(<<"ms", "Latn">>)
    BY <1>0, <1>6, Ranks DEF langtag_table, Entry, Key, TagKeys, Tags
  <2> QED
    OBVIOUS
<1>7. CASE i = 7
  <2> Tagged(<<"pa", "Arab">>)
    BY <1>0, <1>7, Ranks DEF langtag_table, Entry, Key, TagKeys, Tags
  <2> QED
    OBVIOUS
<1>8. CASE i = 8
  <2> Tagged(<<"pa", "Guru">>)
    BY <1>0, <1>8, Ranks DEF langtag_table, Entry, Key, TagKeys, Tags
  <2> QED
    OBVIOUS
<1>9. CASE i = 9
  <2> Tagged(<<"sr", "Cyrl">>)
    BY <1>0, <1>9, Ranks DEF langtag_table, Entry, Key, TagKeys, Tags
  <2> QED
    OBVIOUS
<1>10. CASE i = 10
  <2> Tagged(<<"tg", "Cyrl">>)
    BY <1>0, <1>10, Ranks DEF langtag_table, Entry, Key, TagKeys, Tags
  <2> QED
    OBVIOUS
<1>11. CASE i = 11
  <2> Tagged(<<"tk", "Cyrl">>)
    BY <1>0, <1>11, Ranks DEF langtag_table, Entry, Key, TagKeys, Tags
  <2> QED
    OBVIOUS
<1>12. CASE i = 12
  <2> Tagged(<<"tt", "Cyrl">>)
    BY <1>0, <1>12, Ranks DEF langtag_table, Entry, Key, TagKeys, Tags
  <2> QED
    OBVIOUS
<1>13. CASE i = 13
  <2> Tagged(<<"uz", "Latn">>)
    BY <1>0, <1>13, Ranks DEF langtag_table, Entry, Key, TagKeys, Tags
  <2> QED
    OBVIOUS
<1>14. CASE i = 14
  <2> Tagged(<<"yue", "Hans">>)
    BY <1>0, <1>14, Ranks DEF langtag_table, Entry, Key, TagKeys, Tags
  <2> QED
    OBVIOUS
<1>15. CASE i = 15
  <2> Tagged(<<"zh", "Hans">>)
    BY <1>0, <1>15, Ranks DEF langtag_table, Entry, Key, TagKeys, Tags
  <2> QED
    OBVIOUS
<1>16. CASE i = 16
  <2> Tagged(<<"zh", "Hant">>)
    BY <1>0, <1>16, Ranks DEF langtag_table, Entry, Key, TagKeys, Tags
  <2> QED
    OBVIOUS
<1>17. CASE i = 17
  <2> Tagged(<<"zh", "Hant", "HK">>)
    BY <1>0, <1>17, Ranks DEF langtag_table, Entry, Key, TagKeys, Tags
  <2> QED
    OBVIOUS
<1>18. CASE i = 18
  <2> Tagged(<<"zh", "Hant", "TW">>)
    BY <1>0, <1>18, Ranks DEF langtag_table, Entry, Key, TagKeys, Tags
  <2> QED
    OBVIOUS
<1>19. i \in {1, 2, 3, 4, 5, 6, 7, 8, 9, 10, 11, 12, 13, 14, 15, 16, 17, 18}
  OBVIOUS
<1> QED
  BY <1>1, <1>2, <1>3, <1>4, <1>5, <1>6, <1>7, <1>8, <1>9,
     <1>10, <1>11, <1>12, <1>13, <1>14, <1>15, <1>16, <1>17, <1>18, <1>19

\* The table is sorted, which its bisection relies on.
LEMMA TableSorted ==
  ASSUME NEW i \in 1..18, NEW m \in 1..18
  PROVE  Before(langtag_table[i].tag, langtag_table[m].tag) <=> i < m
<1>1. Before(langtag_table[i].tag, langtag_table[m].tag) <=> TagKeys[i] < TagKeys[m]
  BY TableTags, BeforeByKey
<1>2. TagKeys[i] < TagKeys[m] <=> i < m
  BY DEF TagKeys
<1> QED
  BY <1>1, <1>2

-----------------------------------------------------------------------------
(* The name that readers convert in the shared buffer.                     *)

\* The empty buffer, and what stands between the subtags of a name.
LEMMA NoName ==
  /\ Name(<<>>, "").subtags = <<>>
  /\ Name(<<>>, "").between = ""
  /\ \A s : Name(s, "-").between = "-"
  /\ Name(<<>>, "") = Name(Name(<<>>, "").subtags, Name(<<>>, "").between)
<1>1. /\ Name(<<>>, "").subtags = <<>>
      /\ Name(<<>>, "").between = ""
  BY DEF Name
<1>2. \A s : Name(s, "-").between = "-"
  BY DEF Name
<1> QED
  BY <1>1, <1>2

\* A name that was converted stays as it is.
LEMMA ConvertedOnce ==
  ASSUME NEW n, n.between # "-", n = Name(n.subtags, n.between)
  PROVE  Converted(n) = n
BY DEF Converted, Scripted

\* Converting twice is converting once.
LEMMA ConvertedForm ==
  ASSUME NEW subtags
  PROVE  Converted(Converted(Name(subtags, "-"))) = Converted(Name(subtags, "-"))
<1> DEFINE n == Converted(Name(subtags, "-"))
<1>1. n.between \in {"_", "@"} /\ n = Name(n.subtags, n.between)
  BY DEF Converted, Name
<1> HIDE DEF n
<1> QED
  BY <1>1, ConvertedOnce DEF n

\* The table's languages, but Cantonese, are converted to their names on Unix.
LEMMA ConvertedByTable ==
  ASSUME NEW i \in 1..18, langtag_table[i].tag[1] # "yue"
  PROVE  Converted(Name(langtag_table[i].tag, "-")) = Name(langtag_table[i].unix, "_")
<1> DEFINE tag == langtag_table[i].tag
<1>1. Len(langtag_table) = 18
  BY DEF langtag_table
<1>2. Floor(langtag_table, tag) = i
  <2>1. \A m \in 2..18 : Before(tag, langtag_table[m].tag) <=> i < m
    <3> SUFFICES ASSUME NEW m \in 2..18 PROVE Before(tag, langtag_table[m].tag) <=> i < m
      OBVIOUS
    <3>1. m \in 1..18
      OBVIOUS
    <3> QED
      BY <3>1, TableSorted
  <2>2. 18 \in Nat
    OBVIOUS
  <2> HIDE DEF tag
  <2> QED
    BY <1>1, <2>1, <2>2, FloorFinds
<1>3. IsPrefix(tag, tag)
  <2>1. tag \in Seq(Subtags)
    BY TableTags DEF Tags
  <2> HIDE DEF tag
  <2> QED
    BY <2>1, PrefixByElements
<1>4. Len(tag) \in {2, 3} /\ tag[2] \in {"Arab", "Cyrl", "Guru", "Hans", "Hant", "Latn", "Mong", "dots"}
  BY DEF langtag_table, Entry
<1>5. Scripted(Name(tag, "-")) /\ Name(tag, "-").subtags = tag
  BY <1>4 DEF Scripted, Name
<1> QED
  BY <1>2, <1>3, <1>5 DEF Converted

\* What the buffer holds: nothing yet, the system's name, which somebody is to convert, or
\* what it converts to.
NameInv ==
  /\ name \in {Name(<<>>, ""), Name(system, "-"), Converted(Name(system, "-"))}
  /\ name = Name(system, "-") =>
       \/ Converted(name) = name
       \/ system[1] \in Unified
       \/ \E r \in Readers : lookup[r].at = "convert"

\* Whoever converts the shared buffer, and however often, leaves one of the three names.
LEMMA NameStep == ASSUME LocaleInv, NameInv, [LocaleNext]_localeVars PROVE NameInv'
<1>0. \A r \in Readers : lookup[r] = Idle <=> lookup[r].at = "idle"
  BY DEF LocaleInv, LookupShape, Idle
<1>1. ASSUME UNCHANGED <<name, system>>, NEW r \in Readers, NEW to, lookup' = [lookup EXCEPT ![r] = to],
             lookup[r].at # "convert"
      PROVE  NameInv'
  <2>1. \A q \in Readers : lookup[q].at = "convert" => lookup'[q].at = "convert"
    BY <1>1 DEF LocaleInv, LookupShape
  <2> QED
    BY <1>1, <2>1 DEF NameInv
<1>2. ASSUME NEW r \in Readers, OpenLang(r) PROVE NameInv'
  BY <1>0, <1>1, <1>2 DEF OpenLang
<1>3. ASSUME NEW r \in Readers, ReadLang(r) PROVE NameInv'
  BY <1>1, <1>3 DEF ReadLang, Store
<1>4. ASSUME NEW r \in Readers, FormatDates(r) PROVE NameInv'
  BY <1>0, <1>1, <1>4 DEF FormatDates
<1>5. ASSUME NEW r \in Readers, FindName(r) PROVE NameInv'
  BY <1>1, <1>5 DEF FindName
<1>6. ASSUME NEW r \in Readers, CopyName(r) PROVE NameInv'
  <2>1. name' = Name(system, "-") /\ system' = system
    BY <1>6 DEF CopyName
  <2>2. system[1] \in Unified \/ lookup'[r].at = "convert"
    BY <1>6 DEF CopyName, LocaleInv, LookupShape, Idle
  <2> QED
    BY <2>1, <2>2 DEF NameInv
<1>7. ASSUME NEW r \in Readers, ConvertName(r) PROVE NameInv'
  <2>1. name' = Converted(name) /\ system' = system
    BY <1>7 DEF ConvertName
  <2>2. Converted(Name(<<>>, "")) = Name(<<>>, "")
    <3>1. "" # "-"
      OBVIOUS
    <3> QED
      BY <3>1, NoName, ConvertedOnce
  <2>3. Name(<<>>, "") # Name(system, "-")
    BY DEF Name
  <2>4. \/ name' = Name(<<>>, "")
        \/ name' = Converted(Name(system, "-"))
    BY <2>1, <2>2, ConvertedForm DEF NameInv
  <2> QED
    BY <2>1, <2>3, <2>4, ConvertedForm DEF NameInv
<1>8. ASSUME NEW r \in Readers, StoreSystem(r) PROVE NameInv'
  BY <1>1, <1>8 DEF StoreSystem, Store
<1>9. ASSUME UNCHANGED <<name, system>>,
             \A r \in Readers : lookup[r].at = "convert" => lookup'[r].at = "convert"
      PROVE  NameInv'
  BY <1>9 DEF NameInv
<1>10. ASSUME NEW n \in 0..(Languages - 1), Choose(n) PROVE NameInv'
  BY <1>9, <1>10 DEF Choose
<1>11. CASE WriteChoice
  BY <1>9, <1>11 DEF WriteChoice
<1>12. CASE RemoveChoice
  BY <1>9, <1>12 DEF RemoveChoice
<1>13. CASE preferred_language_code_clear
  <2>1. ASSUME NEW r \in Readers, lookup[r].at = "convert" PROVE lookup'[r].at = "convert"
    <3>1. lookup[r] # Idle
      BY <2>1 DEF Idle
    <3>2. lookup[r] \in [at : {"read", "find", "copy", "convert", "store"}, asks : {"code", "dates"},
                         fresh : BOOLEAN, gone : Numbers]
      BY <3>1 DEF LocaleInv, LookupShape
    <3>3. lookup'[r] = [lookup[r] EXCEPT !.fresh = FALSE]
      BY <1>13, <3>1 DEF preferred_language_code_clear
    <3> QED
      BY <2>1, <3>2, <3>3
  <2> QED
    BY <1>9, <1>13, <2>1 DEF preferred_language_code_clear
<1>14. CASE UNCHANGED localeVars
  BY <1>9, <1>14 DEF localeVars
<1> QED
  BY <1>2, <1>3, <1>4, <1>5, <1>6, <1>7, <1>8, <1>10, <1>11, <1>12, <1>13, <1>14 DEF LocaleNext

\* With nobody converting, the buffer holds the name on Unix.
LEMMA Settled == ASSUME NameInv PROVE NameSettles
<1> SUFFICES ASSUME \A r \in Readers : lookup[r].at # "convert", NEW i \in DOMAIN langtag_table,
                    system = langtag_table[i].tag, name.subtags # <<>>, system[1] # "yue"
             PROVE  name = Name(langtag_table[i].unix, "_")
  BY DEF NameSettles
<1>1. i \in 1..18
  BY DEF langtag_table
<1>2. name # Name(<<>>, "")
  BY NoName
<1>3. Converted(Name(system, "-")) = Name(langtag_table[i].unix, "_")
  BY <1>1, ConvertedByTable
<1>4. system[1] \notin Unified
  BY <1>1 DEF Unified, langtag_table, Entry
<1> QED
  BY <1>2, <1>3, <1>4 DEF NameInv

\* Any number of threads that copy into and convert the one static buffer of
\* preferred_language at once leave what one alone would, for every language the table lists
\* but Cantonese, whose tag has three letters.
THEOREM NameSettlesHolds == LocaleSpec => []NameSettles
<1>1. LocaleInit => NameInv
  <2>1. Name(<<>>, "") # Name(system, "-")
    <3>1. "" # "-"
      OBVIOUS
    <3> QED
      BY <3>1, NoName
  <2> QED
    BY <2>1 DEF LocaleInit, NameInv
<1> QED
  BY <1>1, LocaleStarts, LocaleStep, NameStep, Settled, PTL DEF LocaleSpec

-----------------------------------------------------------------------------
(* The configuration directory is there before the socket is named in      *)
(* it.                                                                     *)

ConfigSteps == {"start", "make", "own", "socket", "elsewhere", "ready"}

Sockets == Names \cup {"unresolved", "fallback directory", "/var/tmp", "/private/var/tmp"}

\* The directories of the path are never lost, and HOME is one.
ConfigShape ==
  /\ place \in {"container", "plain"} /\ long \in BOOLEAN
  /\ user \in [Processes -> Users]
  /\ disk \in [Names -> {"none", "file"} \cup Users] /\ disk["home"] \in Users
  /\ step \in [Processes -> ConfigSteps]
  /\ depth \in [Processes -> 1..Len(Path)]
  /\ socketPath \in [Processes -> Sockets]
  /\ failures \in Nat

\* The place of the socket where nothing has failed.
Meeting == IF long THEN "/var/tmp" ELSE Target

Resolved ==
  \A p \in Processes :
    /\ step[p] # "elsewhere"
    /\ step[p] = "ready" => socketPath[p] = Meeting

\* Where root has never been, all of the path is the user's.
Alone ==
  alone => /\ \A p \in Processes : user[p] = "mobile"
           /\ \A n \in Names : disk[n] # "root"

\* What is above the directory a process is at is there; so is the last, once it is through.
Made ==
  \A p \in Processes :
    user[p] = "root" \/ alone =>
      /\ step[p] = "make" => \A i \in 1..(depth[p] - 1) : disk[Path[i]] # "none"
      /\ step[p] \in {"own", "socket", "ready"} => disk[Target] # "none"

ConfigInv ==
  /\ ConfigShape
  /\ Alone
  /\ failures = 0 => Resolved
  /\ failures = 0 /\ ~InTheWay => Made /\ (rootOwned => disk[Target] = "mobile")

\* The names on the path are distinct, and each is made in the one before it.
LEMMA PathNames ==
  ASSUME ConfigShape
  PROVE  /\ Len(Path) \in {2, 3} /\ Path[1] = "home" /\ Target = Path[Len(Path)]
         /\ \A i \in 1..Len(Path) : Path[i] \in Names
         /\ \A i, j \in 1..Len(Path) : Path[i] = Path[j] => i = j
BY DEF ConfigShape, Path, Target, Names

\* A failure is counted or did not happen.
LEMMA Failing ==
  ASSUME ConfigShape, NEW failed \in BOOLEAN, MayFail(failed)
  PROVE  failures' \in Nat /\ (failures' = 0 => failures = 0 /\ ~failed)
<1>1. failures \in Nat
  BY DEF ConfigShape
<1>2. CASE failed = TRUE
  BY <1>1, <1>2 DEF MayFail
<1>3. CASE failed = FALSE
  BY <1>1, <1>3 DEF MayFail
<1> QED
  BY <1>2, <1>3

\* Every step of any number of processes that make the directory keeps the invariant.
LEMMA ConfigInvariance == ConfigSpec => []ConfigInv
<1>1. ConfigInit => ConfigInv
  <2> SUFFICES ASSUME ConfigInit PROVE ConfigInv
    OBVIOUS
  <2>1. ConfigShape
    <3>1. Len(Path) \in Nat /\ 1 \in 1..Len(Path)
      BY DEF ConfigInit, Path
    <3>2. depth \in [Processes -> 1..Len(Path)]
      BY <3>1 DEF ConfigInit
    <3>3. step \in [Processes -> ConfigSteps] /\ socketPath \in [Processes -> Sockets]
      BY DEF ConfigInit, ConfigSteps, Sockets
    <3> QED
      BY <3>2, <3>3 DEF ConfigInit, ConfigShape
  <2>2. Alone
    BY DEF ConfigInit, Alone
  <2>3. /\ \A p \in Processes : step[p] = "start"
        /\ rootOwned = FALSE
    BY DEF ConfigInit
  <2> QED
    BY <2>1, <2>2, <2>3 DEF ConfigInv, Resolved, Made
<1>2. ConfigInv /\ [ConfigNext]_configVars => ConfigInv'
  <2> SUFFICES ASSUME ConfigInv, [ConfigNext]_configVars
               PROVE  ConfigInv'
    OBVIOUS
  <2> USE DEF ConfigInv
  <2>0. CASE UNCHANGED configVars
    <3>1. UNCHANGED <<place, long, mobileKnown, user, disk, step, depth, socketPath, rootOwned,
                      alone, failures>>
      BY <2>0 DEF configVars
    <3>2. Path' = Path /\ Target' = Target /\ Meeting' = Meeting /\ InTheWay' = InTheWay
      BY <3>1 DEF Path, Target, Meeting, InTheWay
    <3>3. ConfigShape'
      BY <3>1, <3>2 DEF ConfigShape
    <3>4. Alone' /\ Resolved' = Resolved /\ Made' = Made
      BY <3>1, <3>2 DEF Alone, Resolved, Made
    <3> QED
      BY <3>1, <3>2, <3>3, <3>4
  <2> SUFFICES ASSUME NEW p \in Processes,
                      Resolve(p) \/ MakeDir(p) \/ Own(p) \/ ChooseSocket(p) \/ Die(p)
               PROVE  ConfigInv'
    BY <2>0 DEF ConfigNext
  <2>1. /\ place' = place /\ long' = long /\ user' = user /\ mobileKnown' = mobileKnown
        /\ alone' = alone
        /\ Path' = Path /\ Target' = Target /\ Meeting' = Meeting
    <3>1. given' = given /\ alone' = alone
      <4>1. CASE Resolve(p)
        BY <4>1 DEF Resolve
      <4>2. CASE MakeDir(p)
        BY <4>2 DEF MakeDir
      <4>3. CASE Own(p)
        BY <4>3 DEF Own
      <4>4. CASE ChooseSocket(p)
        BY <4>4 DEF ChooseSocket
      <4>5. CASE Die(p)
        BY <4>5 DEF Die
      <4> QED
        BY <4>1, <4>2, <4>3, <4>4, <4>5
    <3>2. place' = place /\ long' = long /\ user' = user /\ mobileKnown' = mobileKnown /\ alone' = alone
      BY <3>1 DEF given
    <3> QED
      BY <3>2 DEF Path, Target, Meeting
  <2>2. Users = {"mobile", "root"} /\ Target \in Names /\ disk[Target] \in {"none", "file"} \cup Users
    BY PathNames DEF Users, ConfigShape
  <2>3. CASE Resolve(p) \/ Die(p)
    <3>1. /\ disk' = disk /\ rootOwned' = rootOwned /\ InTheWay' = InTheWay
          /\ failures' \in Nat /\ (failures' = 0 => failures = 0)
      <4>1. disk' = disk /\ rootOwned' = rootOwned
        BY <2>3 DEF Resolve, Die
      <4>2. failures' \in Nat /\ (failures' = 0 => failures = 0)
        <5>1. CASE Die(p)
          BY <5>1 DEF Die, ConfigShape
        <5>2. CASE Resolve(p)
          <6>1. PICK failed \in BOOLEAN : MayFail(failed)
            BY <5>2 DEF Resolve
          <6> QED
            BY <6>1, Failing
        <5> QED
          BY <2>3, <5>1, <5>2
      <4> QED
        BY <2>1, <4>1, <4>2 DEF InTheWay
    <3>2. /\ step' \in [Processes -> ConfigSteps]
          /\ \A q \in Processes \ {p} : step'[q] = step[q] /\ depth'[q] = depth[q]
                                        /\ socketPath'[q] = socketPath[q]
          /\ step'[p] \in {"start", "make", "elsewhere"}
          /\ step'[p] = "elsewhere" => failures' # 0
          /\ step'[p] = "make" => depth'[p] = 1
      <4>1. CASE Resolve(p)
        <5>1. PICK memory \in BOOLEAN :
                /\ MayFail(~memory)
                /\ step' = [step EXCEPT ![p] = IF memory THEN "make" ELSE "elsewhere"]
          BY <4>1 DEF Resolve
        <5>2. /\ step' \in [Processes -> ConfigSteps] /\ step'[p] \in {"make", "elsewhere"}
              /\ \A q \in Processes \ {p} : step'[q] = step[q]
          BY <5>1 DEF ConfigShape, ConfigSteps
        <5>3. step'[p] = "elsewhere" => failures' # 0
          <6>1. memory => step'[p] = "make"
            BY <5>1 DEF ConfigShape
          <6>2. ~memory => failures' # 0
            BY <5>1, Failing
          <6> QED
            BY <6>1, <6>2
        <5>4. depth'[p] = 1 /\ socketPath' = socketPath /\ \A q \in Processes \ {p} : depth'[q] = depth[q]
          BY <4>1 DEF Resolve, ConfigShape
        <5> QED
          BY <5>2, <5>3, <5>4
      <4>2. CASE Die(p)
        <5>1. /\ step' = [step EXCEPT ![p] = "start"] /\ depth' = depth
              /\ socketPath' = [socketPath EXCEPT ![p] = "unresolved"]
          BY <4>2 DEF Die
        <5> QED
          BY <5>1 DEF ConfigShape, ConfigSteps
      <4> QED
        BY <2>3, <4>1, <4>2
    <3>3. ConfigShape'
      <4>1. depth' \in [Processes -> 1..Len(Path)] /\ socketPath' \in [Processes -> Sockets]
        <5>1. 1 \in 1..Len(Path) /\ "unresolved" \in Sockets
          BY PathNames DEF Sockets
        <5>2. CASE Resolve(p)
          BY <5>1, <5>2 DEF Resolve, ConfigShape
        <5>3. CASE Die(p)
          BY <5>1, <5>3 DEF Die, ConfigShape
        <5> QED
          BY <2>3, <5>2, <5>3
      <4> QED
        BY <2>1, <3>1, <3>2, <4>1 DEF ConfigShape
    <3>4. Alone'
      BY <2>1, <3>1 DEF Alone
    <3>5. failures' = 0 => Resolved'
      BY <2>1, <3>1, <3>2 DEF Resolved
    <3>6. failures' = 0 /\ ~InTheWay' => Made' /\ (rootOwned' => disk'[Target] = "mobile")
      BY <2>1, <3>1, <3>2 DEF Made
    <3> QED
      BY <2>1, <3>3, <3>4, <3>5, <3>6
  <2>4. CASE MakeDir(p)
    <3> DEFINE i == depth[p]
    <3>1. PICK fault \in BOOLEAN :
            LET there == disk[Path[i]] # "none" /\ ~fault
                made == disk[Path[i]] = "none" /\ ~fault /\ Writable(p, i)
            IN  /\ MayFail(fault)
                /\ disk' = IF made THEN [disk EXCEPT ![Path[i]] = user[p]] ELSE disk
                /\ step' = [step EXCEPT ![p] = IF GoesOn(i, there, made) THEN "make" ELSE "own"]
                /\ depth' = [depth EXCEPT ![p] = IF GoesOn(i, there, made) THEN i + 1 ELSE i]
      BY <2>4 DEF MakeDir
    <3>2. /\ i \in 1..Len(Path) /\ Path[i] \in Names /\ user[p] \in Users /\ Len(Path) \in Nat
          /\ step[p] = "make" /\ socketPath' = socketPath /\ rootOwned' = rootOwned
      BY <2>4, PathNames DEF MakeDir, ConfigShape
    <3>3. failures' \in Nat /\ (failures' = 0 => failures = 0 /\ fault = FALSE)
      BY <3>1 DEF MayFail, ConfigShape
    <3>4. /\ disk' \in [Names -> {"none", "file"} \cup Users]
          /\ \A n \in Names : disk[n] # "none" => disk'[n] = disk[n]
          /\ \A n \in Names : disk'[n] = "file" => disk[n] = "file"
          /\ \A n \in Names : disk'[n] # disk[n] => disk'[n] = user[p]
      BY <2>2, <3>1, <3>2 DEF ConfigShape
    <3>5. InTheWay' = InTheWay
      BY <2>1, <3>4, PathNames DEF InTheWay
    <3>6. ConfigShape'
      BY <2>1, <3>1, <3>2, <3>3, <3>4, <2>2 DEF ConfigShape, ConfigSteps, GoesOn
    <3>7. Alone'
      BY <2>1, <3>2, <3>4 DEF Alone
    <3>8. /\ \A q \in Processes \ {p} : step'[q] = step[q] /\ depth'[q] = depth[q]
          /\ step'[p] \in {"make", "own"}
      BY <3>1 DEF ConfigShape
    <3>9. failures' = 0 => Resolved'
      BY <2>1, <3>2, <3>3, <3>8 DEF Resolved
    <3>10. ASSUME failures' = 0, ~InTheWay'
           PROVE  Made' /\ (rootOwned' => disk'[Target] = "mobile")
      <4>1. failures = 0 /\ fault = FALSE /\ ~InTheWay /\ Made
        BY <3>3, <3>5, <3>10
      <4>2. rootOwned' => disk'[Target] = "mobile"
        BY <2>1, <2>2, <3>2, <3>4, <4>1
      <4>3. ASSUME user[p] = "root" \/ alone
            PROVE  disk'[Path[i]] # "none" /\ (i < Len(Path) => step'[p] = "make" /\ depth'[p] = i + 1)
                   /\ (i = Len(Path) => step'[p] = "own")
        <5>1. CASE disk[Path[i]] # "none"
          BY <3>1, <3>2, <3>4, <4>1, <5>1 DEF GoesOn, ConfigShape
        <5>2. CASE disk[Path[i]] = "none"
          <6>1. i # 1
            BY <5>2, PathNames DEF ConfigShape, Users
          <6>2. i - 1 \in 1..(i - 1) /\ i - 1 \in 1..Len(Path)
            BY <3>2, <6>1
          <6>3. disk[Path[i - 1]] # "none" /\ disk[Path[i - 1]] # "file" /\ Path[i - 1] \in Names
            BY <3>2, <4>1, <4>3, <6>2, PathNames DEF Made, InTheWay
          <6>4. Writable(p, i)
            BY <2>2, <3>2, <4>3, <6>3 DEF Writable, Alone, ConfigShape
          <6>5. disk' = [disk EXCEPT ![Path[i]] = user[p]]
            BY <3>1, <4>1, <5>2, <6>4
          <6> QED
            BY <2>2, <3>1, <3>2, <4>1, <5>2, <6>4, <6>5 DEF GoesOn, ConfigShape
        <5> QED
          BY <5>1, <5>2
      <4>4. ASSUME NEW q \in Processes, user[q] = "root" \/ alone
            PROVE  /\ step'[q] = "make" => \A j \in 1..(depth'[q] - 1) : disk'[Path[j]] # "none"
                   /\ step'[q] \in {"own", "socket", "ready"} => disk'[Target] # "none"
        <5>1. \A j \in 1..Len(Path) : disk[Path[j]] # "none" => disk'[Path[j]] # "none"
          BY <3>4, PathNames
        <5>2. CASE q = p
          <6>1. CASE i = Len(Path)
            BY <2>2, <3>2, <4>3, <4>4, <5>2, <6>1, PathNames
          <6>2. CASE i < Len(Path)
            <7>1. \A j \in 1..(i - 1) : disk'[Path[j]] # "none"
              BY <3>2, <4>1, <4>4, <5>1, <5>2 DEF Made
            <7> QED
              BY <3>2, <4>3, <4>4, <5>2, <6>2, <7>1
          <6> QED
            BY <3>2, <6>1, <6>2
        <5>3. CASE q # p
          <6>1. \A j \in 1..(depth[q] - 1) : j \in 1..Len(Path)
            BY DEF ConfigShape
          <6> QED
            BY <2>2, <3>4, <3>8, <4>1, <4>4, <5>1, <5>3, <6>1 DEF Made
        <5> QED
          BY <5>2, <5>3
      <4>5. Made'
        BY <2>1, <4>4 DEF Made
      <4> QED
        BY <4>2, <4>5
    <3> QED
      BY <2>1, <3>6, <3>7, <3>9, <3>10
  <2>5. CASE Own(p)
    <3> DEFINE gives == mobileKnown /\ user[p] = "root" /\ disk[Target] \in Users
    <3>1. /\ step[p] = "own" /\ step' = [step EXCEPT ![p] = "socket"]
          /\ disk' = IF gives THEN [disk EXCEPT ![Target] = "mobile"] ELSE disk
          /\ rootOwned' = (rootOwned \/ (mobileKnown /\ user[p] = "root"))
          /\ depth' = depth /\ socketPath' = socketPath /\ failures' = failures
      BY <2>5 DEF Own
    <3>2. /\ disk' \in [Names -> {"none", "file"} \cup Users]
          /\ \A n \in Names : disk'[n] = "none" <=> disk[n] = "none"
          /\ \A n \in Names : disk'[n] = "file" <=> disk[n] = "file"
          /\ \A n \in Names : disk'[n] = "root" => disk[n] = "root"
          /\ disk["home"] \in Users => disk'["home"] \in Users
          /\ disk[Target] = "mobile" => disk'[Target] = "mobile"
      BY <2>2, <3>1 DEF ConfigShape, Names
    <3>3. InTheWay' = InTheWay
      BY <2>1, <3>2, PathNames DEF InTheWay
    <3>4. ConfigShape'
      BY <2>1, <3>1, <3>2 DEF ConfigShape, ConfigSteps
    <3>5. Alone'
      BY <2>1, <3>2 DEF Alone
    <3>6. failures' = 0 => Resolved'
      BY <2>1, <3>1 DEF Resolved, ConfigShape
    <3>7. ASSUME failures' = 0, ~InTheWay'
          PROVE  Made' /\ (rootOwned' => disk'[Target] = "mobile")
      <4>1. failures = 0 /\ Made /\ ~InTheWay
        BY <3>1, <3>3, <3>7
      <4>2. \A j \in 1..Len(Path) : disk[Path[j]] # "none" => disk'[Path[j]] # "none"
        BY <3>2, PathNames
      <4>3. Made'
        <5>1. SUFFICES ASSUME NEW q \in Processes, user[q] = "root" \/ alone
              PROVE  /\ step'[q] = "make" => \A j \in 1..(depth[q] - 1) : disk'[Path[j]] # "none"
                     /\ step'[q] \in {"own", "socket", "ready"} => disk'[Target] # "none"
          BY <2>1, <3>1 DEF Made
        <5>2. \A j \in 1..(depth[q] - 1) : j \in 1..Len(Path)
          BY DEF ConfigShape
        <5>3. step'[q] = "make" => step[q] = "make"
          BY <3>1 DEF ConfigShape
        <5>4. step'[q] \in {"own", "socket", "ready"} => step[q] \in {"own", "socket", "ready"}
          BY <3>1 DEF ConfigShape
        <5> QED
          BY <2>2, <3>2, <4>1, <4>2, <5>1, <5>2, <5>3, <5>4 DEF Made
      <4>4. ASSUME rootOwned' PROVE disk'[Target] = "mobile"
        <5>1. CASE rootOwned
          BY <3>2, <4>1, <5>1, <3>7
        <5>2. CASE mobileKnown /\ user[p] = "root"
          <6>1. disk[Target] # "none"
            BY <3>1, <4>1, <5>2 DEF Made
          <6>2. disk[Target] # "file"
            BY <4>1, PathNames DEF InTheWay
          <6> QED
            BY <2>2, <3>1, <5>2, <6>1, <6>2 DEF ConfigShape
        <5> QED
          BY <3>1, <4>4, <5>1, <5>2
      <4> QED
        BY <4>3, <4>4
    <3> QED
      BY <2>1, <3>4, <3>5, <3>6, <3>7
  <2>6. CASE ChooseSocket(p)
    <3> DEFINE first == IF long /\ step[p] = "socket" THEN "/var/tmp"
                        ELSE IF step[p] = "socket" THEN Target ELSE "fallback directory"
    <3>0. PICK memory \in BOOLEAN :
            /\ MayFail(~memory)
            /\ socketPath' = [socketPath EXCEPT ![p] =
                 IF memory THEN first ELSE IF first = "/var/tmp" THEN "/private/var/tmp" ELSE "/var/tmp"]
      BY <2>6 DEF ChooseSocket
    <3>1. /\ disk' = disk /\ depth' = depth /\ rootOwned' = rootOwned /\ InTheWay' = InTheWay
          /\ step' = [step EXCEPT ![p] = "ready"] /\ step[p] \in {"socket", "elsewhere"}
          /\ failures' \in Nat /\ (failures' = 0 => failures = 0 /\ memory)
      <4>1. /\ disk' = disk /\ depth' = depth /\ rootOwned' = rootOwned
            /\ step' = [step EXCEPT ![p] = "ready"] /\ step[p] \in {"socket", "elsewhere"}
        BY <2>6 DEF ChooseSocket
      <4>2. failures' \in Nat /\ (failures' = 0 => failures = 0 /\ ~~memory)
        <5>1. (~memory) \in BOOLEAN /\ MayFail(~memory)
          BY <3>0
        <5> QED
          BY <5>1, Failing
      <4> QED
        BY <2>1, <4>1, <4>2 DEF InTheWay
    <3>2. /\ socketPath' \in [Processes -> Sockets]
          /\ \A q \in Processes \ {p} : socketPath'[q] = socketPath[q]
          /\ failures' = 0 /\ step[p] = "socket" => socketPath'[p] = Meeting
      <4>1. first \in Sockets
        BY <2>2 DEF Sockets
      <4>2. step[p] = "socket" => first = Meeting
        BY DEF Meeting
      <4> HIDE DEF first
      <4> QED
        BY <3>0, <3>1, <4>1, <4>2 DEF ConfigShape, Sockets
    <3>3. ConfigShape'
      BY <2>1, <3>1, <3>2 DEF ConfigShape, ConfigSteps
    <3>4. Alone'
      BY <2>1, <3>1 DEF Alone
    <3>5. failures' = 0 => Resolved'
      BY <2>1, <3>1, <3>2 DEF Resolved, ConfigShape
    <3>6. failures' = 0 /\ ~InTheWay' => Made' /\ (rootOwned' => disk'[Target] = "mobile")
      BY <2>1, <3>1 DEF Made, Resolved, ConfigShape
    <3> QED
      BY <2>1, <3>3, <3>4, <3>5, <3>6
  <2> QED
    BY <2>3, <2>4, <2>5, <2>6
<1> QED
  BY <1>1, <1>2, PTL DEF ConfigSpec

\* However many processes resolve the directory at once and die on the way, once all have
\* resolved it the app can write to it, provided that one runs as root or root never had a
\* part of the path, and all look for the socket at one place (common.c).
THEOREM DirReadyHolds == ConfigSpec => []DirReady
<1>1. ConfigInv => DirReady
  <2> SUFFICES ASSUME ConfigInv, Ready, failures = 0 PROVE DirReady
    BY DEF DirReady
  <2>1. \A p, q \in Processes : socketPath[p] = socketPath[q]
    BY DEF ConfigInv, Resolved, Ready
  <2>2. ASSUME ~InTheWay, rootOwned \/ alone PROVE disk[Target] = "mobile"
    <3>1. CASE rootOwned
      BY <2>2, <3>1 DEF ConfigInv
    <3>2. CASE alone
      <4>1. PICK p \in Processes : TRUE
        BY ConfigDirAssumption
      <4>2. disk[Target] # "none"
        BY <2>2, <3>2, <4>1 DEF ConfigInv, Made, Ready
      <4>3. disk[Target] # "file" /\ disk[Target] # "root" /\ Target \in Names
        BY <2>2, <3>2, PathNames DEF ConfigInv, Alone, InTheWay
      <4> QED
        BY <4>2, <4>3 DEF ConfigInv, ConfigShape, Users
    <3> QED
      BY <2>2, <3>1, <3>2
  <2> QED
    BY <2>1, <2>2 DEF DirReady
<1> QED
  BY <1>1, ConfigInvariance, PTL

-----------------------------------------------------------------------------
(* The temperatures of the cells are of one family.                        *)

\* The values a reading has are of one family, and whole once it is over.
OneFamily(r) ==
  \/ r.at = "idle"
  \/ r.at \in Families /\ r.values \in Seq({r.at}) /\ Len(r.values) < r.num
  \/ /\ r.at \in {"sensors", "screen"}
     /\ \/ r.values = <<>>
        \/ Len(r.values) = r.num /\ \E f \in Families : r.values \in Seq({f})

CellInv == cellCount \in Nat /\ reading.num \in Nat /\ OneFamily(reading)

\* One more cell is read, or the reading goes over to the other family, or is given up.
LEMMA ReadCellKeeps == ASSUME CellInv, ReadCell PROVE CellInv'
<1> DEFINE v == reading.values
           i == Len(v) + 1
           longer == Append(v, reading.at)
<1>1. /\ reading.at \in Families /\ v \in Seq({reading.at}) /\ Len(v) < reading.num
      /\ reading.num \in Nat /\ cellCount' \in Nat
  BY DEF ReadCell, CellInv, OneFamily, Families, hardware
<1>2. longer \in Seq({reading.at}) /\ Len(longer) = i /\ Len(v) \in Nat
  BY <1>1
<1>3. CASE i \in valid[reading.at] /\ i = reading.num
  <2>1. reading'.at = "sensors" /\ reading'.num = reading.num /\ reading'.values = longer
    BY <1>3 DEF ReadCell
  <2> QED
    BY <1>1, <1>2, <1>3, <2>1 DEF CellInv, OneFamily
<1>4. CASE i \in valid[reading.at] /\ i # reading.num
  <2>1. reading'.at = reading.at /\ reading'.num = reading.num /\ reading'.values = longer
    BY <1>4 DEF ReadCell
  <2>2. Len(longer) < reading.num
    BY <1>1, <1>2, <1>4
  <2> QED
    BY <1>1, <1>2, <2>1, <2>2 DEF CellInv, OneFamily
<1>5. CASE i \notin valid[reading.at]
  <2>1. CASE reading.at = "TB"
    <3>1. reading'.at = "TG" /\ reading'.num = reading.num /\ reading'.values = <<>>
      BY <1>5, <2>1 DEF ReadCell, NextFamily
    <3>2. reading.num > 0 /\ <<>> \in Seq({"TG"}) /\ Len(<<>>) = 0
      BY <1>1, <1>2
    <3> QED
      BY <1>1, <3>1, <3>2 DEF CellInv, OneFamily, Families
  <2>2. CASE reading.at # "TB"
    <3>1. reading'.at = "sensors" /\ reading'.num = 0 /\ reading'.values = <<>>
      BY <1>5, <2>2 DEF ReadCell, NoReading
    <3> QED
      BY <1>1, <3>1 DEF CellInv, OneFamily
  <2> QED
    BY <2>1, <2>2
<1> QED
  BY <1>3, <1>4, <1>5

\* A reading never mixes two families and never loses a cell.
LEMMA CellInvariance == CellSpec => []CellInv
<1>1. CellInit => CellInv
  <2> SUFFICES ASSUME CellInit PROVE CellInv
    OBVIOUS
  <2>1. cellCount \in 0..MaxCells /\ reading = NoReading
    BY DEF CellInit
  <2>2. reading.at = "idle" /\ reading.num = 0 /\ cellCount \in Nat
    BY <2>1, CellAssumption DEF NoReading
  <2> QED
    BY <2>2 DEF CellInv, OneFamily
<1>2. CellInv /\ [CellNext]_cellVars => CellInv'
  <2> SUFFICES ASSUME CellInv, [CellNext]_cellVars
               PROVE  CellInv'
    OBVIOUS
  <2>1. CASE Shift
    <3>1. cellCount' \in Nat /\ reading' = reading
      BY <2>1, CellAssumption DEF Shift, CellInv
    <3> QED
      BY <3>1 DEF CellInv
  <2>2. CASE CountCells
    <3>1. cellCount \in Nat /\ cellCount' = cellCount
      BY <2>2 DEF CountCells, CellInv, hardware
    <3>2. CASE cellCount = 0
      <4>1. reading'.at = "sensors" /\ reading'.num = 0 /\ reading'.values = <<>>
        BY <2>2, <3>2 DEF CountCells, NoReading
      <4> QED
        BY <3>1, <4>1 DEF CellInv, OneFamily
    <3>3. CASE cellCount # 0
      <4>1. reading'.at = "TB" /\ reading'.num = cellCount /\ reading'.values = <<>>
        BY <2>2, <3>3 DEF CountCells
      <4>2. <<>> \in Seq({"TB"}) /\ Len(<<>>) = 0
        OBVIOUS
      <4> QED
        BY <3>1, <3>3, <4>1, <4>2 DEF CellInv, OneFamily, Families
    <3> QED
      BY <3>2, <3>3
  <2>3. CASE ReadCell
    BY <2>3, ReadCellKeeps
  <2>4. CASE AverageSensors
    <3>1. /\ reading.at = "sensors" /\ reading'.at = "screen" /\ reading'.num = reading.num
          /\ reading'.values = reading.values /\ cellCount' = cellCount
      BY <2>4 DEF AverageSensors, hardware
    <3> QED
      BY <3>1 DEF CellInv, OneFamily, Families
  <2>5. CASE ShowTemperatures
    BY <2>5 DEF ShowTemperatures, CellInv, OneFamily, NoReading, hardware
  <2>6. CASE PrimaryScreenPanelId
    BY <2>6 DEF PrimaryScreenPanelId, CellInv, hardware
  <2>7. CASE UNCHANGED cellVars
    BY <2>7 DEF cellVars, hardware, CellInv
  <2> QED
    BY <2>1, <2>2, <2>3, <2>4, <2>5, <2>6, <2>7 DEF CellNext
<1> QED
  BY <1>1, <1>2, PTL DEF CellSpec

\* An average is of as many values as the battery said it has cells, all of one family of
\* keys, whatever went or came while they were read.
THEOREM CellsWholeHolds == CellSpec => []CellsWhole
<1>1. CellInv => CellsWhole
  <2> SUFFICES ASSUME CellInv, reading.at \in {"sensors", "screen"}, reading.values # <<>>
               PROVE  /\ Len(reading.values) = reading.num
                      /\ Cardinality({reading.values[i] : i \in DOMAIN reading.values}) = 1
    BY DEF CellsWhole
  <2> DEFINE v == reading.values
  <2>1. PICK f \in Families : v \in Seq({f}) /\ Len(v) = reading.num
    BY DEF CellInv, OneFamily, Families
  <2>2. {v[i] : i \in DOMAIN v} = {f}
    BY <2>1
  <2> QED
    BY <2>1, <2>2, FS_Singleton
<1> QED
  BY <1>1, CellInvariance, PTL

-----------------------------------------------------------------------------
(* The page ends with the latest values.                                   *)

\* The parts a reading has been through.
ReadBefore(at) == CASE at = "hid" -> {} [] at = "sensors" -> {"hid"} [] at = "known" -> {"hid", "sensors"}
                    [] OTHER -> Parts

Refreshing == {"level", "number", "rest"}

PageInv ==
  /\ values \in Nat /\ asked \in 0..values
  /\ open \in BOOLEAN /\ inFlight \in BOOLEAN /\ pending \in BOOLEAN
  /\ main \in {"idle", "draw", "list"} \cup Refreshing
  /\ queue \in [at : Parts \cup {"idle", "deliver"}, read : [Parts -> Nat]]
  /\ shown \in [Parts -> Nat]
  /\ ~open => main = "idle" /\ ~inFlight
  /\ pending => inFlight
  /\ inFlight <=> queue.at # "idle"
  /\ inFlight /\ ~pending => \A p \in ReadBefore(queue.at) : queue.read[p] >= asked
  /\ open /\ ~inFlight /\ main \notin Refreshing => \A p \in Parts : shown[p] >= asked

\* What has been read, asked for and shown are never out of order.
LEMMA PageInvariance == PageSpec => []PageInv
<1>1. PageInit => PageInv
  <2> SUFFICES ASSUME PageInit PROVE PageInv
    OBVIOUS
  <2>1. /\ values = 1 /\ asked = 0 /\ open = FALSE /\ inFlight = FALSE /\ pending = FALSE
        /\ main = "idle" /\ queue = [at |-> "idle", read |-> Unread] /\ shown = Unread
    BY DEF PageInit
  <2>2. Unread \in [Parts -> Nat]
    BY DEF Unread
  <2>3. shown \in [Parts -> Nat] /\ queue \in [at : Parts \cup {"idle", "deliver"}, read : [Parts -> Nat]]
    BY <2>1, <2>2
  <2>4. queue.at = "idle" /\ asked \in 0..values /\ values \in Nat
    BY <2>1
  <2> QED
    BY <2>1, <2>3, <2>4 DEF PageInv
<1>2. PageInv /\ [PageNext]_pageVars => PageInv'
  <2> SUFFICES ASSUME PageInv, [PageNext]_pageVars
               PROVE  PageInv'
    OBVIOUS
  <2>1. CASE SensorsChange
    BY <2>1 DEF SensorsChange, PageInv, sensing, Parts
  <2>2. CASE SystemChanges
    BY <2>2 DEF SystemChanges, PageInv, sensing
  <2>3. CASE ReadPart
    BY <2>3 DEF ReadPart, PageInv, Parts, After, ReadBefore
  <2>4. CASE Deliver
    BY <2>4 DEF Deliver, PageInv, Parts, Unread, ReadBefore, Refreshing
  <2>5. CASE Open
    BY <2>5 DEF Open, PageInv, sensing, Refreshing
  <2>6. CASE UpdateTableView
    BY <2>6 DEF UpdateTableView, PageInv, sensing, Refreshing
  <2>7. CASE NotifLevel
    BY <2>7 DEF NotifLevel, PageInv, sensing, Refreshing
  <2>8. CASE NotifLevelString
    BY <2>8 DEF NotifLevelString, PageInv, sensing, Refreshing
  <2>9. CASE RestOfBasics
    BY <2>9 DEF RestOfBasics, ScheduleSensorRefresh, PageInv, Unread, Parts, ReadBefore, Refreshing
  <2>10. CASE AskLaunchd
    BY <2>10 DEF AskLaunchd, PageInv, sensing, Refreshing
  <2>11. CASE CountProcesses
    BY <2>11 DEF CountProcesses, PageInv, sensing, Refreshing
  <2>12. CASE ListProcesses
    BY <2>12 DEF ListProcesses, PageInv, sensing, Refreshing
  <2>13. CASE Close
    BY <2>13 DEF Close, PageInv, Unread, Parts, Refreshing
  <2>14. CASE UNCHANGED pageVars
    BY <2>14 DEF pageVars, sensing, PageInv
  <2> QED
    BY <2>1, <2>2, <2>3, <2>4, <2>5, <2>6, <2>7, <2>8, <2>9, <2>10, <2>11, <2>12, <2>13, <2>14
       DEF PageNext
<1> QED
  BY <1>1, <1>2, PTL DEF PageSpec

\* A refresh that was asked for while another was in flight is not lost: at rest every part of
\* the page is from values no older than those there were when one was last asked for.
THEOREM LatestServedHolds == PageSpec => []LatestServed
<1>1. PageInv => LatestServed
  BY DEF PageInv, LatestServed, Refreshing
<1> QED
  BY <1>1, PageInvariance, PTL

-----------------------------------------------------------------------------
(* The history statistics: sums, insertion into a sequence, and the cuts   *)
(* of a pair at the instants where a value meets an edge.                  *)

\* The least of a set of numbers, and the least and greatest of a few.
LEMMA MinOf ==
    ASSUME NEW T, T \subseteq Nat, T # {}
    PROVE  Min(T) \in T /\ \A j \in T : Min(T) <= j
<1>1. \E i \in T : \A j \in T : i <= j
  BY LeastOf
<1> QED
  BY <1>1 DEF Min

\* The less of two numbers.
LEMMA MinOfTwo ==
    ASSUME NEW a \in Int, NEW b \in Int
    PROVE  /\ Min({a, b}) \in Int /\ Min({a, b}) <= a /\ Min({a, b}) <= b
           /\ Min({a, b}) = a \/ Min({a, b}) = b
<1>1. \E x \in {a, b} : \A y \in {a, b} : x <= y
  OBVIOUS
<1> QED
  BY <1>1 DEF Min

\* The greatest of three numbers.
LEMMA MaxOfThree ==
    ASSUME NEW a \in Int, NEW b \in Int, NEW c \in Int
    PROVE  LET m == Max({a, b, c}) IN
           /\ m \in Int /\ m >= a /\ m >= b /\ m >= c
           /\ m = a \/ m = b \/ m = c
<1>1. \E x \in {a, b, c} : \A y \in {a, b, c} : x >= y
  OBVIOUS
<1> QED
  BY <1>1 DEF Max

\* InsertAt puts a value before the k-th and moves nothing else.
LEMMA InsertedAt ==
    ASSUME NEW S, NEW list \in Seq(S), NEW v \in S, NEW k \in 1 .. Len(list) + 1
    PROVE  LET new == InsertAt(list, k, v)
               n == Len(list)
           IN  /\ n \in Nat /\ new \in Seq(S) /\ Len(new) = n + 1 /\ new[k] = v
               /\ \A j \in 1 .. k - 1 : new[j] = list[j]
               /\ \A j \in k + 1 .. n + 1 : new[j] = list[j - 1]
<1> DEFINE n == Len(list)
           new == InsertAt(list, k, v)
           before == SubSeq(list, 1, k - 1)
           after == SubSeq(list, k, n)
           front == before \o <<v>>
<1>1. n \in Nat /\ DOMAIN list = 1 .. n
  BY LenProperties
<1>2. k \in Nat /\ 1 <= k /\ k <= n + 1
  BY <1>1
<1>3. new = SubSeq(list, 1, k - 1) \o <<v>> \o SubSeq(list, k, n)
  BY DEF InsertAt
<1>4. /\ before \in Seq(S) /\ Len(before) = k - 1
      /\ \A j \in 1 .. k - 1 : before[j] = list[j]
  BY <1>1, <1>2, SubSeqProperties, ElementOfSeq
<1>5. /\ after \in Seq(S) /\ Len(after) = n - k + 1
      /\ \A j \in 1 .. n - k + 1 : after[j] = list[k + j - 1]
  BY <1>1, <1>2, SubSeqProperties, ElementOfSeq
<1> HIDE DEF before, after
<1>6. /\ front \in Seq(S) /\ Len(front) = k
      /\ \A j \in 1 .. k : front[j] = IF j <= k - 1 THEN list[j] ELSE v
  <2>1. <<v>> \in Seq(S) /\ Len(<<v>>) = 1 /\ <<v>>[1] = v
    OBVIOUS
  <2>2. /\ front \in Seq(S) /\ Len(front) = (k - 1) + 1
        /\ \A j \in 1 .. (k - 1) + 1 :
              front[j] = IF j <= k - 1 THEN before[j] ELSE <<v>>[j - (k - 1)]
    BY <1>4, <2>1, ConcatProperties
  <2> QED
    BY <1>2, <1>4, <2>1, <2>2
<1> HIDE DEF front
<1>7. /\ new \in Seq(S) /\ Len(new) = k + (n - k + 1)
      /\ \A j \in 1 .. k + (n - k + 1) : new[j] = IF j <= k THEN front[j] ELSE after[j - k]
  <2>1. new = front \o after
    BY <1>3 DEF front, before, after
  <2> HIDE DEF new
  <2>2. /\ new \in Seq(S) /\ Len(new) = Len(front) + Len(after)
        /\ \A j \in 1 .. Len(front) + Len(after) :
              new[j] = IF j <= Len(front) THEN front[j] ELSE after[j - Len(front)]
    BY <1>5, <1>6, <2>1, ConcatProperties
  <2>3. Len(front) = k /\ Len(after) = n - k + 1
    BY <1>5, <1>6
  <2> HIDE DEF n
  <2> QED
    BY <2>2, <2>3
<1> HIDE DEF new
<1>8. Len(new) = n + 1 /\ new[k] = v /\ \A j \in 1 .. k - 1 : new[j] = list[j]
  BY <1>1, <1>2, <1>6, <1>7
<1>9. \A j \in k + 1 .. n + 1 : new[j] = list[j - 1]
  <2> SUFFICES ASSUME NEW j \in k + 1 .. n + 1 PROVE new[j] = list[j - 1]
    OBVIOUS
  <2>1. j - k \in 1 .. n - k + 1 /\ k + (j - k) - 1 = j - 1 /\ ~ (j <= k)
        /\ j \in 1 .. k + (n - k + 1)
    BY <1>1, <1>2
  <2> QED
    BY <1>5, <1>7, <2>1
<1> QED
  BY <1>1, <1>7, <1>8, <1>9 DEF new

\* The sums f[0] to f[n] of the numbers d[1] to d[n].
Sums(f, d, n) == f = [k \in 0 .. n |-> IF k = 0 THEN 0 ELSE f[k - 1] + d[k]]

\* There is such a list of sums, whatever the numbers.
LEMMA SumsExist ==
    ASSUME NEW d, NEW n \in Nat
    PROVE  \E f : Sums(f, d, n)
<1> DEFINE T == {m \in Nat : \E f : Sums(f, d, m)}
<1>1. 0 \in T
  <2> DEFINE f == [k \in 0 .. 0 |-> 0]
  <2>1. f = [k \in 0 .. 0 |-> IF k = 0 THEN 0 ELSE f[k - 1] + d[k]]
    OBVIOUS
  <2> HIDE DEF f
  <2>2. Sums(f, d, 0)
    BY <2>1 DEF Sums
  <2> QED
    BY <2>2
<1>2. ASSUME NEW m \in Nat, m \in T PROVE m + 1 \in T
  <2>1. PICK f : Sums(f, d, m)
    BY <1>2
  <2> DEFINE last == f[m] + d[m + 1]
             g == [k \in 0 .. m + 1 |-> IF k <= m THEN f[k] ELSE last]
  <2>2. \A k \in 0 .. m : f[k] = IF k = 0 THEN 0 ELSE f[k - 1] + d[k]
    BY <2>1 DEF Sums
  <2>3. ASSUME NEW k \in 0 .. m + 1
        PROVE  g[k] = IF k = 0 THEN 0 ELSE g[k - 1] + d[k]
    <3>1. CASE k = 0
      BY <2>2, <3>1
    <3>2. CASE k # 0 /\ k <= m
      <4>1. k - 1 \in 0 .. m + 1 /\ k - 1 <= m /\ k \in 0 .. m
        BY <3>2
      <4>2. g[k] = f[k] /\ g[k - 1] = f[k - 1]
        BY <3>2, <4>1
      <4> HIDE DEF g
      <4> QED
        BY <2>2, <3>2, <4>1, <4>2
    <3>3. CASE k = m + 1
      <4>1. g[k] = last /\ k - 1 = m /\ g[m] = f[m] /\ k # 0
        BY <3>3
      <4> HIDE DEF g
      <4> QED
        BY <3>3, <4>1
    <3> QED
      BY <3>1, <3>2, <3>3
  <2>4. g = [k \in 0 .. m + 1 |-> g[k]]
    OBVIOUS
  <2> HIDE DEF g
  <2>5. Sums(g, d, m + 1)
    BY <2>3, <2>4 DEF Sums
  <2> QED
    BY <2>5
<1> HIDE DEF T
<1>3. n \in T
  BY <1>1, <1>2, NatSetInduction
<1> QED
  BY <1>3 DEF T

\* SumTo is what its recursion says.
LEMMA SumDef ==
    ASSUME NEW d, NEW n \in Nat
    PROVE  \E f : /\ SumTo(d, n) = f[n] /\ f[0] = 0
                  /\ \A k \in 1 .. n : f[k] = f[k - 1] + d[k]
<1> DEFINE f == CHOOSE f : f = [k \in 0 .. n |-> IF k = 0 THEN 0 ELSE f[k - 1] + d[k]]
<1>1. SumTo(d, n) = f[n]
  BY Zenon DEF SumTo
<1>2. \E g : g = [k \in 0 .. n |-> IF k = 0 THEN 0 ELSE g[k - 1] + d[k]]
  <2>1. PICK g : Sums(g, d, n)
    BY SumsExist
  <2> QED
    BY <2>1, Zenon DEF Sums
<1>3. Sums(f, d, n)
  BY <1>2, Zenon DEF Sums
<1> HIDE DEF f
<1>4. \A k \in 0 .. n : f[k] = IF k = 0 THEN 0 ELSE f[k - 1] + d[k]
  BY <1>3 DEF Sums
<1> QED
  BY <1>1, <1>4

\* A sequence of instants from a to b, each after the one before; the instants that it holds.
IsSplit(s, a, b) ==
  /\ s \in Seq(Int) /\ Len(s) >= 2 /\ s[1] = a /\ s[Len(s)] = b
  /\ \A i, j \in 1 .. Len(s) : i < j => s[i] < s[j]

CutsAt(s, x) == \E i \in 1 .. Len(s) : s[i] = x

\* Inserting a split keeps the order and the ends and every split before.
LEMMA SplitInserted ==
    ASSUME NEW s, NEW a \in Int, NEW b \in Int, IsSplit(s, a, b), NEW at \in Int
    PROVE  LET new == InsertSplit(s, at) IN
           /\ IsSplit(new, a, b)
           /\ \A x : CutsAt(s, x) => CutsAt(new, x)
           /\ a < at /\ at < b => CutsAt(new, at)
<1> DEFINE n == Len(s)
           T == {i \in DOMAIN s : s[i] >= at}
           k == Min(T)
           new == InsertSplit(s, at)
<1>1. /\ s \in Seq(Int) /\ n \in Nat /\ n >= 2 /\ s[1] = a /\ s[n] = b /\ DOMAIN s = 1 .. n
      /\ \A i \in 1 .. n : s[i] \in Int
  BY LenProperties, ElementOfSeq DEF IsSplit
<1>2. \A i, j \in 1 .. n : i < j => s[i] < s[j]
  BY DEF IsSplit
<1>3. new = IF at > s[1] /\ at < s[n] /\ s[k] # at THEN InsertAt(s, k, at) ELSE s
  BY DEF InsertSplit, Last
<1> HIDE DEF n, k, new
<1>4. CASE ~(a < at /\ at < b)
  BY <1>1, <1>3, <1>4 DEF new
<1>5. CASE a < at /\ at < b
  <2>1. n \in T /\ T \subseteq Nat /\ T # {}
    BY <1>1, <1>5
  <2>2. k \in T /\ \A j \in T : k <= j
    BY <2>1, MinOf DEF k
  <2>3. k \in 1 .. n /\ s[k] >= at /\ k # 1
    BY <1>1, <1>5, <2>2
  <2>4. \A j \in 1 .. k - 1 : s[j] < at
    BY <1>1, <2>2, <2>3
  <2> HIDE DEF T
  <2>5. CASE s[k] = at
    <3>1. new = s
      BY <1>3, <2>5
    <3>2. CutsAt(s, at)
      BY <1>1, <2>3, <2>5 DEF CutsAt, n
    <3>3. IsSplit(new, a, b) /\ CutsAt(new, at) /\ \A x : CutsAt(s, x) => CutsAt(new, x)
      BY <3>1, <3>2
    <3> QED
      BY <3>3 DEF new
  <2>6. CASE s[k] # at
    <3>1. new = InsertAt(s, k, at) /\ k \in 1 .. Len(s) + 1
      BY <1>1, <1>3, <1>5, <2>3, <2>6 DEF n
    <3>2. /\ new \in Seq(Int) /\ Len(new) = n + 1 /\ new[k] = at
          /\ \A j \in 1 .. k - 1 : new[j] = s[j]
          /\ \A j \in k + 1 .. n + 1 : new[j] = s[j - 1]
      <4>1. LET list == InsertAt(s, k, at) IN
            /\ list \in Seq(Int) /\ Len(list) = Len(s) + 1 /\ list[k] = at
            /\ \A j \in 1 .. k - 1 : list[j] = s[j]
            /\ \A j \in k + 1 .. Len(s) + 1 : list[j] = s[j - 1]
        <5>1. PICK Z : Z = Int
          OBVIOUS
        <5>2. s \in Seq(Z) /\ at \in Z /\ k \in 1 .. Len(s) + 1
          BY <1>1, <3>1, <5>1
        <5>3. LET list == InsertAt(s, k, at) IN
              /\ list \in Seq(Z) /\ Len(list) = Len(s) + 1 /\ list[k] = at
              /\ \A j \in 1 .. k - 1 : list[j] = s[j]
              /\ \A j \in k + 1 .. Len(s) + 1 : list[j] = s[j - 1]
          BY <5>2, InsertedAt
        <5> QED
          BY <5>1, <5>3
      <4> QED
        BY <3>1, <4>1 DEF n
    <3>3. ASSUME NEW i \in 1 .. n + 1, NEW j \in 1 .. n + 1, i < j PROVE new[i] < new[j]
      <4>1. CASE j <= k - 1
        <5>1. i \in 1 .. k - 1 /\ j \in 1 .. k - 1 /\ i \in 1 .. n /\ j \in 1 .. n
          BY <1>1, <2>3, <3>3, <4>1
        <5> QED
          BY <1>2, <3>2, <3>3, <5>1
      <4>2. CASE j = k
        <5>1. i \in 1 .. k - 1
          BY <1>1, <2>3, <3>3, <4>2
        <5> QED
          BY <2>4, <3>2, <4>2, <5>1
      <4>3. CASE j >= k + 1 /\ i <= k - 1
        <5>1. i \in 1 .. k - 1 /\ j \in k + 1 .. n + 1 /\ i \in 1 .. n /\ j - 1 \in 1 .. n /\ i < j - 1
          BY <1>1, <2>3, <3>3, <4>3
        <5> QED
          BY <1>2, <3>2, <5>1
      <4>4. CASE j >= k + 1 /\ i = k
        <5>1. j \in k + 1 .. n + 1 /\ j - 1 \in 1 .. n
          BY <1>1, <2>3, <3>3, <4>4
        <5>2. s[j - 1] >= s[k] /\ s[k] \in Int /\ s[j - 1] \in Int
          <6>1. CASE j - 1 = k
            BY <1>1, <2>3, <6>1
          <6>2. CASE k < j - 1
            BY <1>1, <1>2, <2>3, <5>1, <6>2
          <6> QED
            BY <1>1, <2>3, <4>4, <6>1, <6>2
        <5> QED
          BY <2>3, <2>6, <3>2, <4>4, <5>1, <5>2
      <4>5. CASE j >= k + 1 /\ i >= k + 1
        <5>1. i \in k + 1 .. n + 1 /\ j \in k + 1 .. n + 1 /\ i - 1 \in 1 .. n /\ j - 1 \in 1 .. n
              /\ i - 1 < j - 1
          BY <1>1, <2>3, <3>3, <4>5
        <5> QED
          BY <1>2, <3>2, <5>1
      <4> QED
        BY <2>3, <3>3, <4>1, <4>2, <4>3, <4>4, <4>5
    <3>4. new[1] = a /\ new[n + 1] = b
      <4>1. 1 \in 1 .. k - 1 /\ n + 1 \in k + 1 .. n + 1 /\ (n + 1) - 1 = n
        BY <1>1, <2>3
      <4> QED
        BY <1>1, <3>2, <4>1
    <3>5. IsSplit(new, a, b)
      BY <1>1, <3>2, <3>3, <3>4 DEF IsSplit
    <3>6. ASSUME NEW i \in 1 .. n PROVE CutsAt(new, s[i])
      <4>1. CASE i <= k - 1
        <5>1. i \in 1 .. k - 1 /\ i \in 1 .. n + 1
          BY <1>1, <2>3, <4>1
        <5> QED
          BY <3>2, <5>1 DEF CutsAt
      <4>2. CASE i >= k
        <5>1. i + 1 \in k + 1 .. n + 1 /\ i + 1 \in 1 .. n + 1 /\ (i + 1) - 1 = i
          BY <1>1, <2>3, <4>2
        <5> QED
          BY <3>2, <5>1 DEF CutsAt
      <4> QED
        BY <2>3, <4>1, <4>2
    <3>7. CutsAt(new, at)
      <4>1. k \in 1 .. n + 1
        BY <1>1, <2>3
      <4> QED
        BY <3>2, <4>1 DEF CutsAt
    <3>8. \A x : CutsAt(s, x) => CutsAt(new, x)
      BY <3>6 DEF CutsAt, n
    <3> QED
      BY <3>5, <3>7, <3>8 DEF new
  <2> QED
    BY <2>5, <2>6
<1> QED
  BY <1>4, <1>5

\* The sequences of n functions on S.
StepsOn(S, n) == [1 .. n -> [S -> S]]

\* Whatever n steps do to a value, there is a function that lists what each of them leaves.
LEMMA StepsExist ==
    ASSUME NEW S, NEW x \in S, NEW n \in Nat, NEW move \in StepsOn(S, n)
    PROVE  \E f \in [0 .. n -> S] : f[0] = x /\ \A k \in 1 .. n : f[k] = move[k][f[k - 1]]
<1> DEFINE P(m) == m <= n => \E f \in [0 .. m -> S] : f[0] = x /\ \A k \in 1 .. m : f[k] = move[k][f[k - 1]]
           T == {m \in Nat : P(m)}
<1>1. 0 \in T
  <2> DEFINE f == [k \in 0 .. 0 |-> x]
  <2>1. f \in [0 .. 0 -> S] /\ f[0] = x /\ \A k \in 1 .. 0 : f[k] = move[k][f[k - 1]]
    OBVIOUS
  <2> HIDE DEF f
  <2> QED
    BY <2>1
<1>2. ASSUME NEW m \in Nat, m \in T PROVE m + 1 \in T
  <2> SUFFICES ASSUME m + 1 <= n PROVE P(m + 1)
    OBVIOUS
  <2>1. PICK f \in [0 .. m -> S] : f[0] = x /\ \A k \in 1 .. m : f[k] = move[k][f[k - 1]]
    BY <1>2
  <2> DEFINE last == move[m + 1][f[m]]
             g == [k \in 0 .. m + 1 |-> IF k <= m THEN f[k] ELSE last]
  <2>2. last \in S
    <3>1. m + 1 \in 1 .. n /\ m \in 0 .. m
      OBVIOUS
    <3>2. move[m + 1] \in [S -> S] /\ f[m] \in S
      BY <3>1 DEF StepsOn
    <3> QED
      BY <3>2
  <2>3. \A k \in 0 .. m + 1 : g[k] = IF k <= m THEN f[k] ELSE last
    OBVIOUS
  <2>4. g \in [0 .. m + 1 -> S]
    <3> HIDE DEF last
    <3> QED
      BY <2>2
  <2>5. last = move[m + 1][f[m]]
    OBVIOUS
  <2> HIDE DEF g, last
  <2>6. ASSUME NEW k \in 1 .. m + 1 PROVE g[k] = move[k][g[k - 1]]
    <3>1. k - 1 \in 0 .. m + 1 /\ k - 1 <= m /\ k \in 0 .. m + 1
      OBVIOUS
    <3>2. g[k - 1] = f[k - 1]
      BY <2>3, <3>1
    <3>3. CASE k <= m
      BY <2>1, <2>3, <3>1, <3>2, <3>3
    <3>4. CASE k = m + 1
      <4>1. k - 1 = m /\ ~(k <= m)
        BY <3>4
      <4> QED
        BY <2>3, <2>5, <3>1, <3>2, <3>4, <4>1
    <3> QED
      BY <3>3, <3>4
  <2>7. g[0] = x
    BY <2>1, <2>3
  <2> QED
    BY <2>4, <2>6, <2>7
<1> HIDE DEF T
<1>3. n \in T
  BY <1>1, <1>2, NatSetInduction
<1> QED
  BY <1>3 DEF T

\* An instant is a whole number.
LEMMA InstantType ==
    ASSUME NEW e \in Int, NEW start \in Int, NEW value \in Int, NEW rise \in Int, rise # 0
    PROVE  Instant(e, start, value, rise) \in Int
<1>1. CASE rise > 0
  <2>1. e - value \in Int /\ rise \in Int /\ rise > 0
    BY <1>1
  <2>2. (e - value) \div rise \in Int
    BY <2>1
  <2> QED
    BY <1>1, <2>2 DEF Instant
<1>2. CASE rise < 0
  <2>1. value - e \in Int /\ -rise \in Int /\ -rise > 0
    BY <1>2
  <2>2. (value - e) \div (-rise) \in Int
    BY <2>1
  <2> QED
    BY <1>2, <2>2 DEF Instant
<1> QED
  BY <1>1, <1>2

\* Cutting at the edges keeps the order, the ends and the cuts before, and cuts at every edge
\* that the value meets in between.
LEMMA SplitsAtEdges ==
    ASSUME NEW a \in Int, NEW b \in Int, NEW s, IsSplit(s, a, b), NEW edges \in Seq(Int),
           NEW start \in Int, NEW value \in Int, NEW rise \in Int
    PROVE  LET new == SplitAt(s, edges, start, value, rise) IN
           /\ IsSplit(new, a, b)
           /\ \A x : CutsAt(s, x) => CutsAt(new, x)
           /\ rise # 0 => \A k \in 1 .. Len(edges) :
                            LET at == Instant(edges[k], start, value, rise)
                            IN  a < at /\ at < b => CutsAt(new, at)
<1> DEFINE n == Len(edges)
           new == SplitAt(s, edges, start, value, rise)
           MeetAt(k) == Instant(edges[k], start, value, rise)
           S == {t \in Seq(Int) : IsSplit(t, a, b)}
           move == [k \in 1 .. n |-> [t \in S |-> InsertSplit(t, MeetAt(k))]]
           f == CHOOSE f : f = [k \in 0 .. n |-> IF k = 0 THEN s ELSE InsertSplit(f[k - 1], MeetAt(k))]
<1>1. n \in Nat /\ \A k \in 1 .. n : edges[k] \in Int
  BY LenProperties, ElementOfSeq
<1>2. CASE rise = 0
  <2>1. new = s
    BY <1>2 DEF SplitAt
  <2> QED
    BY <1>2, <2>1
<1>3. CASE rise # 0
  <2>1. new = f[n]
    BY <1>3, Zenon DEF SplitAt
  <2>2. \A k \in 1 .. n : MeetAt(k) \in Int
    BY <1>1, <1>3, InstantType
  <2>3. s \in S
    BY DEF IsSplit
  <2>4. ASSUME NEW k \in 1 .. n, NEW t \in S PROVE InsertSplit(t, MeetAt(k)) \in S
    <3>1. MeetAt(k) \in Int
      BY <2>2
    <3> HIDE DEF MeetAt
    <3>2. IsSplit(InsertSplit(t, MeetAt(k)), a, b)
      BY <3>1, SplitInserted
    <3> QED
      BY <3>2 DEF IsSplit
  <2>5. \A k \in 1 .. n : \A t \in S : move[k][t] = InsertSplit(t, MeetAt(k))
    OBVIOUS
  <2>6. move \in StepsOn(S, n)
    BY <2>4 DEF StepsOn
  <2> HIDE DEF n, S, move, new, MeetAt
  <2>7. PICK g \in [0 .. n -> S] : g[0] = s /\ \A k \in 1 .. n : g[k] = move[k][g[k - 1]]
    <3>1. n \in Nat
      BY <1>1
    <3> QED
      BY <2>3, <2>6, <3>1, StepsExist, SMTT(60)
  <2>8. ASSUME NEW k \in 0 .. n PROVE g[k] = IF k = 0 THEN s ELSE InsertSplit(g[k - 1], MeetAt(k))
    <3>1. CASE k # 0
      <4>1. k \in 1 .. n /\ k - 1 \in 0 .. n
        BY <1>1, <3>1
      <4>2. g[k - 1] \in S
        BY <4>1
      <4> QED
        BY <2>5, <2>7, <3>1, <4>1, <4>2
    <3> QED
      BY <2>7, <3>1
  <2>9. g = [k \in 0 .. n |-> IF k = 0 THEN s ELSE InsertSplit(g[k - 1], MeetAt(k))]
    BY <2>8
  <2>10. f = [k \in 0 .. n |-> IF k = 0 THEN s ELSE InsertSplit(f[k - 1], MeetAt(k))]
    BY <2>9, Zenon
  <2> HIDE DEF f
  <2>11. f[0] = s /\ \A k \in 1 .. n : f[k] = InsertSplit(f[k - 1], MeetAt(k))
    BY <1>1, <2>10
  <2> DEFINE Right(k) == /\ IsSplit(f[k], a, b)
                         /\ \A x : CutsAt(s, x) => CutsAt(f[k], x)
                         /\ \A j \in 1 .. k : a < MeetAt(j) /\ MeetAt(j) < b => CutsAt(f[k], MeetAt(j))
             T == {k \in Nat : k <= n => Right(k)}
  <2>12. 0 \in T
    BY <2>11
  <2>13. ASSUME NEW k \in Nat, k \in T PROVE k + 1 \in T
    <3> SUFFICES ASSUME k + 1 <= n PROVE Right(k + 1)
      OBVIOUS
    <3>1. Right(k) /\ k + 1 \in 1 .. n /\ (k + 1) - 1 = k
      BY <1>1, <2>13
    <3>2. f[k + 1] = InsertSplit(f[k], MeetAt(k + 1)) /\ MeetAt(k + 1) \in Int
      BY <2>2, <2>11, <3>1
    <3>3. /\ IsSplit(f[k + 1], a, b)
          /\ \A x : CutsAt(f[k], x) => CutsAt(f[k + 1], x)
          /\ a < MeetAt(k + 1) /\ MeetAt(k + 1) < b => CutsAt(f[k + 1], MeetAt(k + 1))
      <4> DEFINE t == f[k]
                 at == MeetAt(k + 1)
      <4>1. IsSplit(t, a, b) /\ at \in Int
        BY <3>1, <3>2
      <4>2. f[k + 1] = InsertSplit(t, at)
        BY <3>2
      <4> HIDE DEF t, at
      <4>3. /\ IsSplit(InsertSplit(t, at), a, b)
            /\ \A x : CutsAt(t, x) => CutsAt(InsertSplit(t, at), x)
            /\ a < at /\ at < b => CutsAt(InsertSplit(t, at), at)
        BY <4>1, SplitInserted
      <4>4. /\ IsSplit(f[k + 1], a, b)
            /\ \A x : CutsAt(t, x) => CutsAt(f[k + 1], x)
            /\ a < at /\ at < b => CutsAt(f[k + 1], at)
        BY <4>2, <4>3
      <4> QED
        BY <4>4 DEF t, at
    <3>4. \A j \in 1 .. k + 1 : j \in 1 .. k \/ j = k + 1
      OBVIOUS
    <3> QED
      BY <3>1, <3>3, <3>4
  <2> HIDE DEF T
  <2>14. n \in T
    BY <1>1, <2>12, <2>13, NatSetInduction
  <2>15. Right(n)
    BY <1>1, <2>14 DEF T
  <2>16. /\ IsSplit(new, a, b)
         /\ \A x : CutsAt(s, x) => CutsAt(new, x)
         /\ \A j \in 1 .. n : a < MeetAt(j) /\ MeetAt(j) < b => CutsAt(new, MeetAt(j))
    BY <2>1, <2>15
  <2> QED
    BY <2>16 DEF new, n, MeetAt
<1> QED
  BY <1>2, <1>3

-----------------------------------------------------------------------------
(* A value that changes evenly stays, between two cuts, in one bin.        *)

\* The product of two numbers is a number, and positive when both are.
LEMMA ProductType ==
    ASSUME NEW x \in Int, NEW y \in Int
    PROVE  x * y \in Int
OBVIOUS

\* The product of two positive numbers is positive.
LEMMA ProductSign ==
    ASSUME NEW x \in Int, NEW y \in Int, x > 0, y > 0
    PROVE  x * y > 0
<1>1. x * y \in Int /\ x >= 1 /\ y >= 1
  OBVIOUS
<1>2. (x - 1) * (y - 1) >= 0
  OBVIOUS
<1>3. (x - 1) * (y - 1) = x * y - x - y + 1
  OBVIOUS
<1> QED
  BY <1>1, <1>2, <1>3

\* A multiple divides without a remainder, and a number without a remainder is a multiple.
LEMMA DivideMultiple ==
    ASSUME NEW r \in Int, r > 0, NEW m \in Int
    PROVE  (r * m) \div r = m
OBVIOUS

\* A number that divides without a remainder is that multiple.
LEMMA MultipleOf ==
    ASSUME NEW r \in Int, r > 0, NEW d \in Int, d % r = 0
    PROVE  d \div r \in Int /\ d = r * (d \div r)
OBVIOUS

\* A value that moves by rise every second, and is value at from; that it is at e at a whole
\* second; that at is that second.
Along(value, rise, from, x) == value + rise * (x - from)
MeetsWhole(e, value, rise) == (e - value) % (IF rise > 0 THEN rise ELSE -rise) = 0
MeetsAtOnly(e, value, rise, from, at) == \A x \in Int : Along(value, rise, from, x) - e = rise * (x - at)

\* A whole value is at an edge at one instant, the one computed from any later value of it, and
\* moves evenly around it.
LEMMA InstantMeets ==
    ASSUME NEW e \in Int, NEW from \in Int, NEW value \in Int, NEW rise \in Int, rise # 0,
           MeetsWhole(e, value, rise), NEW start \in Int
    PROVE  \E at \in Int : /\ at = Instant(e, start, Along(value, rise, from, start), rise)
                          /\ MeetsAtOnly(e, value, rise, from, at)
<1> DEFINE R == IF rise > 0 THEN rise ELSE -rise
           d == e - value
           q == d \div R
           m == IF rise > 0 THEN q ELSE -q
           at == from + m
           v == value + rise * (start - from)
<1>1. R \in Int /\ R > 0 /\ d \in Int /\ d % R = 0
  BY DEF MeetsWhole
<1> HIDE DEF R, d
<1>2. q \in Int /\ d = R * q
  BY <1>1, MultipleOf
<1> HIDE DEF q
<1>3. d = rise * m /\ m \in Int
  <2>1. CASE rise > 0
    BY <1>2, <2>1 DEF R
  <2>2. CASE ~(rise > 0)
    <3>1. R = -rise /\ m = -q
      BY <2>2 DEF R
    <3>2. (-rise) * q = rise * (-q)
      BY <1>2
    <3> HIDE DEF m
    <3> QED
      BY <1>2, <3>1, <3>2
  <2> QED
    BY <2>1, <2>2
<1> HIDE DEF m
<1>4. \A x \in Int : value + rise * (x - from) - e = rise * (x - at)
  <2> SUFFICES ASSUME NEW x \in Int PROVE value + rise * (x - from) - e = rise * (x - at)
    OBVIOUS
  <2>1. rise * (x - at) = rise * (x - from) - rise * m
    BY <1>3
  <2>2. e - value = rise * m
    BY <1>3 DEF d
  <2>3. rise * (x - from) \in Int
    OBVIOUS
  <2> QED
    BY <1>3, <2>1, <2>2, <2>3
<1>5. at \in Int
  BY <1>3
<1> HIDE DEF at
<1>6. v \in Int /\ v - e = rise * (start - at)
  BY <1>4
<1> HIDE DEF v
<1>7. at = Instant(e, start, v, rise)
  <2>1. CASE rise > 0
    <3>1. e - v = rise * (at - start)
      BY <1>5, <1>6
    <3>2. (rise * (at - start)) \div rise = at - start
      BY <1>5, <2>1, DivideMultiple
    <3>3. Instant(e, start, v, rise) = start + (e - v) \div rise
      BY <2>1 DEF Instant
    <3>4. Instant(e, start, v, rise) = start + (at - start)
      BY <3>1, <3>2, <3>3
    <3> QED
      BY <1>5, <3>4
  <2>2. CASE ~(rise > 0)
    <3>1. v - e = (-rise) * (at - start) /\ -rise \in Int /\ -rise > 0
      BY <1>5, <1>6, <2>2
    <3> DEFINE o == -rise
    <3>2. o \in Int /\ o > 0 /\ v - e = o * (at - start)
      BY <3>1
    <3>3. Instant(e, start, v, rise) = start + (v - e) \div o
      BY <2>2 DEF Instant
    <3> HIDE DEF o
    <3>4. (o * (at - start)) \div o = at - start
      BY <1>5, <3>2, DivideMultiple
    <3>5. Instant(e, start, v, rise) = start + (at - start)
      BY <3>2, <3>3, <3>4
    <3> QED
      BY <1>5, <3>5
  <2> QED
    BY <2>1, <2>2
<1> QED
  <2>1. MeetsAtOnly(e, value, rise, from, at)
    BY <1>4 DEF MeetsAtOnly, Along
  <2>2. at = Instant(e, start, Along(value, rise, from, start), rise)
    BY <1>7, Zenon DEF v, Along
  <2> QED
    BY <1>5, <2>1, <2>2

\* Between two instants of which neither passes the one where it is at the edge, a value is on
\* the same side of the edge in the middle of each second as in the middle of them.
LEMMA SameSide ==
    ASSUME NEW rise \in Int, NEW at \in Int, NEW a \in Int, NEW b \in Int, a < b,
           at <= a \/ at >= b, NEW t \in Int, a <= t, t < b
    PROVE  0 <= rise * (a - at) + rise * (b - at) <=> 0 <= rise * (t - at) + rise * (t + 1 - at)
<1> DEFINE x == (a - at) + (b - at)
           y == (t - at) + (t + 1 - at)
<1>1. x \in Int /\ y \in Int
  OBVIOUS
<1>2. /\ rise * (a - at) + rise * (b - at) = rise * x
      /\ rise * (t - at) + rise * (t + 1 - at) = rise * y
  OBVIOUS
<1>3. (x > 0 /\ y > 0) \/ (x < 0 /\ y < 0)
  OBVIOUS
<1> HIDE DEF x, y
<1>4. 0 <= rise * x <=> 0 <= rise * y
  <2>1. CASE rise = 0
    BY <1>1, <2>1
  <2>2. CASE rise > 0 /\ x > 0 /\ y > 0
    <3>1. rise * x > 0 /\ rise * y > 0
      BY <1>1, <2>2, ProductSign
    <3> QED
      BY <1>1, <3>1
  <2>3. CASE rise > 0 /\ x < 0 /\ y < 0
    <3>1. rise * (-x) > 0 /\ rise * (-y) > 0
      BY <1>1, <2>3, ProductSign
    <3>2. rise * x < 0 /\ rise * y < 0
      BY <1>1, <3>1
    <3> QED
      BY <1>1, <3>2
  <2>4. CASE rise < 0 /\ x > 0 /\ y > 0
    <3>1. (-rise) * x > 0 /\ (-rise) * y > 0
      BY <1>1, <2>4, ProductSign
    <3>2. rise * x < 0 /\ rise * y < 0
      BY <1>1, <3>1
    <3> QED
      BY <1>1, <3>2
  <2>5. CASE rise < 0 /\ x < 0 /\ y < 0
    <3>1. (-rise) * (-x) > 0 /\ (-rise) * (-y) > 0
      BY <1>1, <2>5, ProductSign
    <3>2. rise * x > 0 /\ rise * y > 0
      BY <1>1, <3>1
    <3> QED
      BY <1>1, <3>2
  <2> QED
    BY <1>3, <2>1, <2>2, <2>3, <2>4, <2>5
<1> QED
  BY <1>2, <1>4

\* A piece of a cut that is made wherever the value meets the edge in between lies on one side.
LEMMA PieceOnSide ==
    ASSUME NEW e \in Int, NEW from \in Int, NEW value \in Int, NEW rise \in Int,
           rise # 0 => MeetsWhole(e, value, rise),
           NEW start \in Int, NEW end \in Int, NEW s, IsSplit(s, start, end),
           rise # 0 => LET at == Instant(e, start, Along(value, rise, from, start), rise)
                       IN  start < at /\ at < end => CutsAt(s, at),
           NEW i \in 1 .. Len(s) - 1, NEW t \in s[i] .. s[i + 1] - 1
    PROVE  2 * e <= Along(value, rise, from, s[i]) + Along(value, rise, from, s[i + 1])
             <=> 2 * e <= Along(value, rise, from, t) + Along(value, rise, from, t + 1)
<1> DEFINE n == Len(s)
           a == s[i]
           b == s[i + 1]
<1>1. /\ n \in Nat /\ n >= 2 /\ i \in 1 .. n /\ i + 1 \in 1 .. n /\ s[1] = start /\ s[n] = end
      /\ \A k \in 1 .. n : s[k] \in Int
      /\ \A k, l \in 1 .. n : k < l => s[k] < s[l]
  <2>1. s \in Seq(Int) /\ n >= 2 /\ s[1] = start /\ s[n] = end
    BY DEF IsSplit
  <2>2. \A k, l \in 1 .. n : k < l => s[k] < s[l]
    BY DEF IsSplit
  <2>3. n \in Nat /\ \A k \in 1 .. n : s[k] \in Int
    BY <2>1, LenProperties, ElementOfSeq
  <2>4. i \in 1 .. n /\ i + 1 \in 1 .. n
    BY <2>1, <2>3
  <2> QED
    BY <2>1, <2>2, <2>3, <2>4
<1>2. a \in Int /\ b \in Int /\ a < b
  BY <1>1
<1>3. a <= t /\ t < b /\ t \in Int
  BY <1>2
<1>4. start <= a /\ b <= end
  <2>1. i = 1 \/ s[1] < s[i]
    BY <1>1
  <2>2. i + 1 = n \/ s[i + 1] < s[n]
    BY <1>1
  <2>3. start \in Int /\ end \in Int /\ s[i] \in Int /\ s[i + 1] \in Int
    BY <1>1
  <2>4. s[1] = start /\ s[n] = end
    BY <1>1
  <2>5. start <= s[i]
    BY <2>1, <2>3, <2>4
  <2>6. s[i + 1] <= end
    BY <2>2, <2>3, <2>4
  <2> QED
    BY <2>5, <2>6
<1>5. ASSUME NEW x \in Int, CutsAt(s, x) PROVE x <= a \/ x >= b
  <2>1. PICK k \in 1 .. n : s[k] = x
    BY <1>5 DEF CutsAt
  <2>2. k <= i \/ k >= i + 1
    OBVIOUS
  <2>3. CASE k <= i
    BY <1>1, <2>1, <2>3
  <2>4. CASE k >= i + 1
    BY <1>1, <2>1, <2>4
  <2> QED
    BY <2>2, <2>3, <2>4
<1> HIDE DEF a, b, n
<1> DEFINE V(x) == Along(value, rise, from, x)
<1>6. V(a) \in Int /\ V(b) \in Int /\ V(t) \in Int /\ V(t + 1) \in Int
  BY <1>2, <1>3 DEF Along
<1>7. CASE rise = 0
  <2>1. \A x \in Int : V(x) = value
    BY <1>7 DEF Along
  <2>2. t + 1 \in Int
    BY <1>3
  <2> HIDE DEF V
  <2>3. V(a) = value /\ V(b) = value /\ V(t) = value /\ V(t + 1) = value
    BY <1>2, <1>3, <2>1, <2>2
  <2> QED
    BY <2>3 DEF a, b, V
<1>8. CASE rise # 0
  <2>1. PICK at \in Int : /\ at = Instant(e, start, Along(value, rise, from, start), rise)
                         /\ MeetsAtOnly(e, value, rise, from, at)
    BY <1>8, InstantMeets
  <2>2. at <= a \/ at >= b
    <3>1. CASE start < at /\ at < end
      BY <1>5, <1>8, <2>1, <3>1
    <3>2. CASE ~(start < at /\ at < end)
      BY <1>2, <1>4, <3>2
    <3> QED
      BY <3>1, <3>2
  <2>3. 0 <= rise * (a - at) + rise * (b - at) <=> 0 <= rise * (t - at) + rise * (t + 1 - at)
    BY <1>2, <1>3, <2>2, SameSide
  <2>4. \A x \in Int : V(x) - e = rise * (x - at)
    BY <2>1 DEF MeetsAtOnly
  <2> HIDE DEF V
  <2>5. PICK u \in Int : u = t + 1
    BY <1>3
  <2>6. /\ V(a) - e = rise * (a - at) /\ V(b) - e = rise * (b - at)
        /\ V(t) - e = rise * (t - at) /\ V(u) - e = rise * (u - at)
    BY <1>2, <1>3, <2>4
  <2>7. 0 <= (V(a) - e) + (V(b) - e) <=> 0 <= (V(t) - e) + (V(t + 1) - e)
    BY <2>3, <2>5, <2>6
  <2>8. 2 * e <= V(a) + V(b) <=> 2 * e <= V(t) + V(t + 1)
    <3> DEFINE va == V(a)
               vb == V(b)
               vc == V(t)
               vd == V(t + 1)
    <3>1. va \in Int /\ vb \in Int /\ vc \in Int /\ vd \in Int
      BY <1>6 DEF V
    <3>2. 0 <= (va - e) + (vb - e) <=> 0 <= (vc - e) + (vd - e)
      BY <2>7
    <3> HIDE DEF va, vb, vc, vd
    <3>3. 2 * e <= va + vb <=> 2 * e <= vc + vd
      BY <3>1, <3>2
    <3> QED
      BY <3>3 DEF va, vb, vc, vd
  <2> QED
    BY <2>8 DEF V, a, b
<1> QED
  BY <1>7, <1>8

\* The split is cut wherever the value meets one of the edges in between.
CutAtEdges(s, edges, from, value, rise, start, end) ==
  rise # 0 => \A k \in 1 .. Len(edges) :
                LET at == Instant(edges[k], start, Along(value, rise, from, start), rise)
                IN  start < at /\ at < end => CutsAt(s, at)

\* The edges that a doubled value has reached.
EdgesBelow(edges, v) == {e \in Range(edges) : 2 * e <= v}

\* Such a piece lies on one side of every edge.
LEMMA PieceInBin ==
    ASSUME NEW edges \in Seq(Int), NEW from \in Int, NEW value \in Int, NEW rise \in Int,
           Whole(edges, value, rise), NEW start \in Int, NEW end \in Int,
           NEW s, IsSplit(s, start, end), CutAtEdges(s, edges, from, value, rise, start, end),
           NEW i \in 1 .. Len(s) - 1, NEW t \in s[i] .. s[i + 1] - 1
    PROVE  EdgesBelow(edges, Along(value, rise, from, s[i]) + Along(value, rise, from, s[i + 1]))
             = EdgesBelow(edges, Along(value, rise, from, t) + Along(value, rise, from, t + 1))
<1> DEFINE x == Along(value, rise, from, s[i]) + Along(value, rise, from, s[i + 1])
           y == Along(value, rise, from, t) + Along(value, rise, from, t + 1)
<1>1. ASSUME NEW e \in Range(edges) PROVE 2 * e <= x <=> 2 * e <= y
  <2>1. PICK k \in 1 .. Len(edges) : e = edges[k]
    <3>1. DOMAIN edges = 1 .. Len(edges)
      BY LenProperties
    <3> QED
      BY <3>1 DEF Range
  <2>2. e \in Int
    BY <2>1, ElementOfSeq
  <2>3. rise # 0 => MeetsWhole(e, value, rise)
    BY DEF Whole, MeetsWhole
  <2>4. rise # 0 => LET at == Instant(e, start, Along(value, rise, from, start), rise)
                    IN  start < at /\ at < end => CutsAt(s, at)
    BY <2>1 DEF CutAtEdges
  <2> QED
    BY <2>2, <2>3, <2>4, PieceOnSide
<1> HIDE DEF x, y
<1>2. EdgesBelow(edges, x) = EdgesBelow(edges, y)
  BY <1>1 DEF EdgesBelow
<1> QED
  BY <1>2 DEF x, y

\* The edges are whole numbers.
LEMMA EdgesType == SOCEdges \in Seq(Int) /\ TemperatureEdges \in Seq(Int)
BY DEF SOCEdges, TemperatureEdges

\* What is assumed of a pair.
LEMMA PairType ==
    ASSUME NEW p \in AllPairs
    PROVE  /\ p.from \in Int /\ p.seconds \in Nat /\ End(p) \in Int
           /\ p.soc \in Int /\ p.socRise \in Int /\ Whole(SOCEdges, p.soc, p.socRise)
           /\ p.temperature \in Int /\ p.temperatureRise \in Int
           /\ Whole(TemperatureEdges, p.temperature, p.temperatureRise)
BY StatisticsAssumption DEF End

\* The cuts that AccumulateDwell makes.
SplitsOf(p, start, end, joint) ==
  LET bySOC == SplitAt(<<start, end>>, SOCEdges, start, SOCAt(p, start), p.socRise)
  IN  IF joint THEN SplitAt(bySOC, TemperatureEdges, start, TemperatureAt(p, start), p.temperatureRise)
      ELSE bySOC

\* They are made at every edge in between.
LEMMA SplitsCut ==
    ASSUME NEW p \in AllPairs, NEW start \in Int, NEW end \in Int, start < end, NEW joint \in BOOLEAN
    PROVE  LET s == SplitsOf(p, start, end, joint) IN
           /\ IsSplit(s, start, end)
           /\ CutAtEdges(s, SOCEdges, p.from, p.soc, p.socRise, start, end)
           /\ joint => CutAtEdges(s, TemperatureEdges, p.from, p.temperature, p.temperatureRise, start, end)
<1> DEFINE first == <<start, end>>
           v == SOCAt(p, start)
           w == TemperatureAt(p, start)
           bySOC == SplitAt(first, SOCEdges, start, v, p.socRise)
           s == SplitsOf(p, start, end, joint)
<1>1. IsSplit(first, start, end)
  BY DEF IsSplit
<1>2. /\ p.from \in Int /\ p.soc \in Int /\ p.socRise \in Int
      /\ p.temperature \in Int /\ p.temperatureRise \in Int
  BY PairType
<1>3. /\ v \in Int /\ v = Along(p.soc, p.socRise, p.from, start)
      /\ w \in Int /\ w = Along(p.temperature, p.temperatureRise, p.from, start)
  BY <1>2 DEF SOCAt, TemperatureAt, Along
<1> HIDE DEF first, v, w
<1>4. /\ IsSplit(bySOC, start, end)
      /\ p.socRise # 0 => \A k \in 1 .. Len(SOCEdges) :
                            LET at == Instant(SOCEdges[k], start, v, p.socRise)
                            IN  start < at /\ at < end => CutsAt(bySOC, at)
  <2>1. IsSplit(first, start, end) /\ SOCEdges \in Seq(Int) /\ v \in Int /\ p.socRise \in Int
    BY <1>1, <1>2, <1>3, EdgesType
  <2> QED
    BY <2>1, SplitsAtEdges, SMTT(60)
<1> HIDE DEF bySOC
<1>5. CutAtEdges(bySOC, SOCEdges, p.from, p.soc, p.socRise, start, end)
  BY <1>3, <1>4 DEF CutAtEdges
<1>6. CASE ~joint
  <2>1. s = bySOC
    BY <1>6 DEF SplitsOf, bySOC, first, v
  <2> QED
    BY <1>4, <1>5, <1>6, <2>1
<1>7. CASE joint
  <2>1. s = SplitAt(bySOC, TemperatureEdges, start, w, p.temperatureRise)
    BY <1>7 DEF SplitsOf, bySOC, first, v, w
  <2> HIDE DEF s
  <2>2. /\ IsSplit(s, start, end)
        /\ \A x : CutsAt(bySOC, x) => CutsAt(s, x)
        /\ p.temperatureRise # 0 => \A k \in 1 .. Len(TemperatureEdges) :
                            LET at == Instant(TemperatureEdges[k], start, w, p.temperatureRise)
                            IN  start < at /\ at < end => CutsAt(s, at)
    <3>1. IsSplit(bySOC, start, end) /\ TemperatureEdges \in Seq(Int) /\ w \in Int
          /\ p.temperatureRise \in Int
      BY <1>2, <1>3, <1>4, EdgesType
    <3> QED
      BY <2>1, <3>1, SplitsAtEdges, SMTT(60)
  <2>3. CutAtEdges(s, SOCEdges, p.from, p.soc, p.socRise, start, end)
    BY <1>5, <2>2 DEF CutAtEdges
  <2>4. CutAtEdges(s, TemperatureEdges, p.from, p.temperature, p.temperatureRise, start, end)
    BY <1>3, <2>2 DEF CutAtEdges
  <2> QED
    BY <2>2, <2>3, <2>4 DEF s
<1> QED
  BY <1>6, <1>7

\* So every second of a piece is in the bins of the piece.
LEMMA PieceBins ==
    ASSUME NEW p \in AllPairs, NEW start \in Int, NEW end \in Int, start < end, NEW joint \in BOOLEAN,
           NEW band, NEW column,
           NEW i \in 1 .. Len(SplitsOf(p, start, end, joint)) - 1,
           NEW t \in SplitsOf(p, start, end, joint)[i] .. SplitsOf(p, start, end, joint)[i + 1] - 1
    PROVE  InBin(p, SplitsOf(p, start, end, joint)[i], SplitsOf(p, start, end, joint)[i + 1], band, column, joint)
             <=> InBin(p, t, t + 1, band, column, joint)
<1> DEFINE s == SplitsOf(p, start, end, joint)
           a == s[i]
           b == s[i + 1]
<1>1. /\ IsSplit(s, start, end)
      /\ CutAtEdges(s, SOCEdges, p.from, p.soc, p.socRise, start, end)
      /\ joint => CutAtEdges(s, TemperatureEdges, p.from, p.temperature, p.temperatureRise, start, end)
  BY SplitsCut
<1> HIDE DEF s
<1>2. /\ p.from \in Int /\ p.soc \in Int /\ p.socRise \in Int /\ Whole(SOCEdges, p.soc, p.socRise)
      /\ p.temperature \in Int /\ p.temperatureRise \in Int
      /\ Whole(TemperatureEdges, p.temperature, p.temperatureRise)
  BY PairType
<1>3. i \in 1 .. Len(s) - 1 /\ t \in s[i] .. s[i + 1] - 1
  BY DEF s
<1>4. Column(p, a, b) = Column(p, t, t + 1)
  <2>1. EdgesBelow(SOCEdges, Along(p.soc, p.socRise, p.from, s[i]) + Along(p.soc, p.socRise, p.from, s[i + 1]))
          = EdgesBelow(SOCEdges, Along(p.soc, p.socRise, p.from, t) + Along(p.soc, p.socRise, p.from, t + 1))
    BY <1>1, <1>2, <1>3, EdgesType, PieceInBin
  <2>2. \A x : SOCAt(p, x) = Along(p.soc, p.socRise, p.from, x)
    BY DEF SOCAt, Along
  <2>3. \A v : SOCBin(v) = Cardinality(EdgesBelow(SOCEdges, v))
    BY DEF SOCBin, EdgesBelow
  <2> QED
    BY <2>1, <2>2, <2>3 DEF Column
<1>5. joint => RowOf(p, a, b) = RowOf(p, t, t + 1)
  <2> SUFFICES ASSUME joint PROVE RowOf(p, a, b) = RowOf(p, t, t + 1)
    OBVIOUS
  <2>1. EdgesBelow(TemperatureEdges, Along(p.temperature, p.temperatureRise, p.from, s[i])
                                       + Along(p.temperature, p.temperatureRise, p.from, s[i + 1]))
          = EdgesBelow(TemperatureEdges, Along(p.temperature, p.temperatureRise, p.from, t)
                                           + Along(p.temperature, p.temperatureRise, p.from, t + 1))
    BY <1>1, <1>2, <1>3, EdgesType, PieceInBin
  <2>2. \A x : TemperatureAt(p, x) = Along(p.temperature, p.temperatureRise, p.from, x)
    BY DEF TemperatureAt, Along
  <2>3. \A v : TemperatureBin(v) = Cardinality(EdgesBelow(TemperatureEdges, v))
    BY DEF TemperatureBin, EdgesBelow
  <2> QED
    BY <2>1, <2>2, <2>3 DEF RowOf
<1>6. InBin(p, a, b, band, column, joint) <=> InBin(p, t, t + 1, band, column, joint)
  BY <1>4, <1>5 DEF InBin
<1> QED
  BY <1>6 DEF s

-----------------------------------------------------------------------------
(* What is spent in a bin is a number of seconds.                          *)

\* An integer interval of a length, and two sets that share nothing.
LEMMA CountSeconds ==
    ASSUME NEW a \in Int, NEW b \in Int, a <= b
    PROVE  IsFiniteSet(a .. b - 1) /\ Cardinality(a .. b - 1) = b - a
<1>1. b - 1 \in Int
  OBVIOUS
<1>2. IsFiniteSet(a .. b - 1) /\ Cardinality(a .. b - 1) = IF a > b - 1 THEN 0 ELSE (b - 1) - a + 1
  BY <1>1, FS_Interval
<1> QED
  BY <1>2

\* Two finite sets that share nothing count together what each counts.
LEMMA CountDisjoint ==
    ASSUME NEW S, IsFiniteSet(S), NEW T, IsFiniteSet(T), S \cap T = {}
    PROVE  /\ IsFiniteSet(S \cup T)
           /\ Cardinality(S) \in Nat /\ Cardinality(T) \in Nat
           /\ Cardinality(S \cup T) = Cardinality(S) + Cardinality(T)
<1>1. Cardinality({}) = 0
  BY FS_EmptySet
<1>2. Cardinality(S) \in Nat /\ Cardinality(T) \in Nat
  BY FS_CardinalityType
<1>3. /\ IsFiniteSet(S \cup T)
      /\ Cardinality(S \cup T) = Cardinality(S) + Cardinality(T) - Cardinality(S \cap T)
  BY FS_Union
<1>4. Cardinality(S \cap T) = 0
  BY <1>1
<1> QED
  BY <1>2, <1>3, <1>4

\* Each piece lies in the set and counts its length, or lies outside and counts nothing.
PiecesIn(s, d, T) ==
  \A i \in 1 .. Len(s) - 1 :
    \/ d[i] = s[i + 1] - s[i] /\ (s[i] .. s[i + 1] - 1) \subseteq T
    \/ d[i] = 0 /\ (s[i] .. s[i + 1] - 1) \cap T = {}

\* The lengths of the pieces whose seconds are in a set add up to the number of seconds in it.
LEMMA PiecesCounted ==
    ASSUME NEW a \in Int, NEW b \in Int, NEW s, IsSplit(s, a, b), NEW d, NEW T,
           PiecesIn(s, d, T)
    PROVE  SumTo(d, Len(s) - 1) = Cardinality((a .. b - 1) \cap T)
<1> DEFINE n == Len(s) - 1
           P(k) == (a .. s[k + 1] - 1) \cap T
           Piece(k) == s[k] .. s[k + 1] - 1
<1>1. /\ n \in Nat /\ n >= 1 /\ s[1] = a /\ s[n + 1] = b
      /\ \A k \in 1 .. n + 1 : s[k] \in Int
      /\ \A k, l \in 1 .. n + 1 : k < l => s[k] < s[l]
  <2>1. s \in Seq(Int) /\ Len(s) >= 2 /\ s[1] = a /\ s[Len(s)] = b
    BY DEF IsSplit
  <2>2. \A k, l \in 1 .. Len(s) : k < l => s[k] < s[l]
    BY DEF IsSplit
  <2>3. Len(s) \in Nat /\ \A k \in 1 .. Len(s) : s[k] \in Int
    BY <2>1, LenProperties, ElementOfSeq
  <2>4. n + 1 = Len(s)
    BY <2>3
  <2> QED
    BY <2>1, <2>2, <2>3, <2>4
<1>2. \A i \in 1 .. n : \/ d[i] = s[i + 1] - s[i] /\ Piece(i) \subseteq T
                        \/ d[i] = 0 /\ Piece(i) \cap T = {}
  BY DEF PiecesIn
<1> HIDE DEF n
<1>3. PICK f : /\ SumTo(d, n) = f[n] /\ f[0] = 0
               /\ \A k \in 1 .. n : f[k] = f[k - 1] + d[k]
  BY <1>1, SumDef
<1> DEFINE U == {k \in Nat : k <= n => IsFiniteSet(P(k)) /\ f[k] = Cardinality(P(k))}
<1>4. 0 \in U
  <2>1. P(0) = {}
    BY <1>1
  <2> QED
    BY <1>3, <2>1, FS_EmptySet
<1>5. ASSUME NEW k \in Nat, k \in U PROVE k + 1 \in U
  <2> SUFFICES ASSUME k + 1 <= n
               PROVE  IsFiniteSet(P(k + 1)) /\ f[k + 1] = Cardinality(P(k + 1))
    OBVIOUS
  <2> DEFINE l == k + 1
  <2>1. l \in 1 .. n /\ l - 1 = k /\ k + 1 = l /\ l \in 1 .. n + 1 /\ l + 1 \in 1 .. n + 1 /\ l \in Nat
    BY <1>1
  <2>2. IsFiniteSet(P(k)) /\ f[k] = Cardinality(P(k))
    BY <1>1, <1>5
  <2>3. a <= s[l] /\ s[l] < s[l + 1] /\ s[l] \in Int /\ s[l + 1] \in Int
    <3>1. s[l] \in Int /\ s[l + 1] \in Int /\ s[l] < s[l + 1]
      BY <1>1, <2>1
    <3>2. l = 1 \/ 1 < l
      BY <2>1
    <3>3. 1 \in 1 .. n + 1
      BY <1>1
    <3>4. a <= s[l]
      BY <1>1, <2>1, <3>1, <3>2, <3>3
    <3> QED
      BY <3>1, <3>4
  <2> HIDE DEF l
  <2>4. f[l] = f[k] + d[l]
    BY <1>3, <2>1
  <2>5. P(k) = (a .. s[l] - 1) \cap T /\ P(l) = (a .. s[l + 1] - 1) \cap T
    BY <2>1
  <2>6. CASE d[l] = 0 /\ Piece(l) \cap T = {}
    <3>1. P(l) = P(k)
      BY <2>3, <2>5, <2>6
    <3>2. f[k] \in Nat
      BY <2>2, FS_CardinalityType
    <3> HIDE DEF P
    <3> QED
      BY <2>2, <2>4, <2>6, <3>1, <3>2 DEF l
  <2>7. CASE d[l] = s[l + 1] - s[l] /\ Piece(l) \subseteq T
    <3>1. P(l) = P(k) \cup Piece(l) /\ P(k) \cap Piece(l) = {}
      BY <2>3, <2>5, <2>7
    <3>2. IsFiniteSet(Piece(l)) /\ Cardinality(Piece(l)) = s[l + 1] - s[l]
      BY <2>3, CountSeconds
    <3> HIDE DEF P, Piece
    <3>3. IsFiniteSet(P(l)) /\ Cardinality(P(l)) = Cardinality(P(k)) + Cardinality(Piece(l))
      BY <2>2, <3>1, <3>2, CountDisjoint
    <3> QED
      BY <2>2, <2>4, <2>7, <3>2, <3>3 DEF l
  <2> QED
    BY <1>2, <2>1, <2>6, <2>7
<1> HIDE DEF U
<1>6. n \in U
  BY <1>1, <1>4, <1>5, NatSetInduction
<1>7. f[n] = Cardinality(P(n))
  <2>1. n \in Nat /\ n <= n
    BY <1>1
  <2> HIDE DEF P
  <2> QED
    BY <1>6, <2>1 DEF U
<1>8. SumTo(d, n) = Cardinality((a .. b - 1) \cap T)
  <2>1. s[n + 1] = b
    BY <1>1
  <2>2. P(n) = (a .. b - 1) \cap T
    BY <2>1
  <2> HIDE DEF P
  <2> QED
    BY <1>3, <1>7, <2>2
<1> QED
  BY <1>8 DEF n

\* What is spent in a bin between two instants is the number of seconds in it.
LEMMA SpentCounted ==
    ASSUME NEW p \in AllPairs, NEW start \in Int, NEW end \in Int, start < end, NEW joint \in BOOLEAN,
           NEW band, NEW column
    PROVE  Spent(p, SplitsOf(p, start, end, joint), band, column, joint)
             = Cardinality({t \in start .. end - 1 : InBin(p, t, t + 1, band, column, joint)})
<1> DEFINE s == SplitsOf(p, start, end, joint)
           d == [i \in 1 .. (Len(s) - 1) |->
                   IF InBin(p, s[i], s[i + 1], band, column, joint) THEN s[i + 1] - s[i] ELSE 0]
           T == {t \in Int : InBin(p, t, t + 1, band, column, joint)}
<1>1. IsSplit(s, start, end)
  BY SplitsCut
<1>2. \A i \in 1 .. Len(s) - 1 : \A t \in s[i] .. s[i + 1] - 1 :
         InBin(p, s[i], s[i + 1], band, column, joint) <=> InBin(p, t, t + 1, band, column, joint)
  BY PieceBins
<1>3. Spent(p, s, band, column, joint) = SumTo(d, Len(s) - 1)
  BY DEF Spent
<1> HIDE DEF s
<1>4. \A i \in 1 .. Len(s) - 1 :
         d[i] = IF InBin(p, s[i], s[i + 1], band, column, joint) THEN s[i + 1] - s[i] ELSE 0
  OBVIOUS
<1> HIDE DEF d
<1>5. ASSUME NEW i \in 1 .. Len(s) - 1
      PROVE  \/ d[i] = s[i + 1] - s[i] /\ (s[i] .. s[i + 1] - 1) \subseteq T
             \/ d[i] = 0 /\ (s[i] .. s[i + 1] - 1) \cap T = {}
  <2>1. \A t \in s[i] .. s[i + 1] - 1 :
          InBin(p, s[i], s[i + 1], band, column, joint) <=> t \in T
    BY <1>2
  <2> HIDE DEF T
  <2>2. CASE InBin(p, s[i], s[i + 1], band, column, joint)
    BY <1>4, <2>1, <2>2
  <2>3. CASE ~ InBin(p, s[i], s[i + 1], band, column, joint)
    BY <1>4, <2>1, <2>3
  <2> QED
    BY <2>2, <2>3
<1> HIDE DEF T
<1>6. SumTo(d, Len(s) - 1) = Cardinality((start .. end - 1) \cap T)
  <2>1. PiecesIn(s, d, T)
    BY <1>5 DEF PiecesIn
  <2> QED
    BY <1>1, <2>1, PiecesCounted
<1>7. (start .. end - 1) \cap T = {t \in start .. end - 1 : InBin(p, t, t + 1, band, column, joint)}
  BY DEF T
<1> QED
  BY <1>3, <1>6, <1>7 DEF s

-----------------------------------------------------------------------------
(* The dwell report: the inductive invariant.  The pairs sliced so far     *)
(* answer for the seconds that are counted, and for none after coveredEnd. *)

\* Of the pairs s and the window w: the pair that answers for a second; the seconds of the
\* window that the first k pairs answer for, all and those of a bin.
OwnerIn(s, t, joint) ==
  LET spanning == {i \in DOMAIN s : Spans(s[i], t, joint)}
  IN  IF spanning = {} THEN 0 ELSE Min(spanning)
SecondsOf(w) == w.start .. (w.end - 1)
OwnedIn(s, w, joint, k) == {t \in SecondsOf(w) : OwnerIn(s, t, joint) \in 1 .. k}
BinIn(s, w, band, column, joint, k) ==
  {t \in OwnedIn(s, w, joint, k) : InBin(s[OwnerIn(s, t, joint)], t, t + 1, band, column, joint)}

\* Every second of the window that one of the first k pairs spans lies before e, which lies no
\* later than the end of one of those pairs.
CoveredIn(s, w, joint, k, e) ==
  /\ e \in Int
  /\ \A i \in 1 .. k, t \in SecondsOf(w) : Spans(s[i], t, joint) => t < e
  /\ \/ e = w.start
     \/ \E i \in 1 .. k : Eligible(s[i], joint) /\ e <= End(s[i])

\* The totals of the report are numbers of seconds.
DwellType == [soc : [0 .. 4 -> Nat], joint : [0 .. 3 -> [0 .. 4 -> Nat]], socCovered : Nat, jointCovered : Nat]

\* What is counted in d are the seconds of the first k pairs, and in the second pass of the
\* first l.
CountedIn(d, s, w, k, l) ==
  /\ d \in DwellType
  /\ \A c \in 0 .. 4 : d.soc[c] = Cardinality(BinIn(s, w, 0, c, FALSE, k))
  /\ \A r \in 0 .. 3, c \in 0 .. 4 : d.joint[r][c] = Cardinality(BinIn(s, w, r, c, TRUE, l))
  /\ d.socCovered = Cardinality(OwnedIn(s, w, FALSE, k))
  /\ d.jointCovered = Cardinality(OwnedIn(s, w, TRUE, l))

\* How many pairs this pass has sliced.
Sliced == Len(intervals) - Len(todo)

\* The pairs to slice are the last ones of the window's; what is counted is what the others answer
\* for, in the first pass in the bins of charge and in the second in the joint ones too.
DwellInv ==
  /\ window \in Windows /\ pass \in {0, 1}
  /\ intervals \in Seq(AllPairs) /\ InOrder(intervals)
  /\ todo \in Seq(AllPairs) /\ Sliced \in Nat
  /\ \A i \in 1 .. Len(todo) : todo[i] = intervals[Sliced + i]
  /\ CoveredIn(intervals, window, pass = 1, Sliced, coveredEnd)
  /\ CountedIn(dwell, intervals, window, IF pass = 1 THEN Len(intervals) ELSE Sliced,
               IF pass = 1 THEN Sliced ELSE 0)

-----------------------------------------------------------------------------
(* One pair more: the seconds it answers for are those it adds.            *)

\* A window has a first and a last instant.
LEMMA WindowType ==
    ASSUME NEW w \in Windows
    PROVE  w.start \in Int /\ w.end \in Int
BY StatisticsAssumption

\* The owner of a second is the first of the pairs that span it.
LEMMA OwnerFirst ==
    ASSUME NEW s \in Seq(AllPairs), NEW t, NEW joint
    PROVE  LET o == OwnerIn(s, t, joint) IN
           /\ o \in 0 .. Len(s)
           /\ o # 0 => Spans(s[o], t, joint)
           /\ \A j \in 1 .. Len(s) : Spans(s[j], t, joint) => o # 0 /\ o <= j
<1> DEFINE T == {i \in DOMAIN s : Spans(s[i], t, joint)}
           o == OwnerIn(s, t, joint)
<1>1. DOMAIN s = 1 .. Len(s) /\ Len(s) \in Nat
  BY LenProperties
<1>2. o = IF T = {} THEN 0 ELSE Min(T)
  BY DEF OwnerIn
<1>3. T \subseteq Nat
  BY <1>1
<1>4. \A j : j \in T <=> j \in 1 .. Len(s) /\ Spans(s[j], t, joint)
  BY <1>1
<1> HIDE DEF T, o
<1>5. CASE T = {}
  BY <1>1, <1>2, <1>4, <1>5 DEF o
<1>6. CASE T # {}
  <2>1. o \in T /\ \A j \in T : o <= j
    BY <1>2, <1>3, <1>6, MinOf
  <2> QED
    BY <1>1, <1>4, <2>1 DEF o
<1> QED
  BY <1>5, <1>6

\* The seconds that the next pair answers for are those it adds to what is covered.
LEMMA NextOwned ==
    ASSUME NEW s \in Seq(AllPairs), InOrder(s), NEW w \in Windows, NEW joint \in BOOLEAN,
           NEW k \in Nat, k < Len(s), NEW e, CoveredIn(s, w, joint, k, e),
           NEW start, NEW end, start = Max({s[k + 1].from, w.start, e}),
           end = Min({End(s[k + 1]), w.end})
    PROVE  LET adds == Eligible(s[k + 1], joint) /\ start < end
               new == {t \in SecondsOf(w) : OwnerIn(s, t, joint) = k + 1}
           IN  /\ start \in Int /\ end \in Int
               /\ adds => new = start .. end - 1 /\ CoveredIn(s, w, joint, k + 1, end)
               /\ ~adds => new = {} /\ CoveredIn(s, w, joint, k + 1, e)
<1> DEFINE m == k + 1
           p == s[m]
           new == {t \in SecondsOf(w) : OwnerIn(s, t, joint) = m}
<1>1. /\ Len(s) \in Nat /\ DOMAIN s = 1 .. Len(s) /\ m \in 1 .. Len(s) /\ m \in Nat
      /\ \A i \in 1 .. Len(s) : s[i] \in AllPairs
  BY LenProperties, ElementOfSeq
<1>2. \A i \in 1 .. Len(s) : s[i].from \in Int /\ End(s[i]) \in Int
  BY <1>1, PairType
<1>3. w.start \in Int /\ w.end \in Int /\ e \in Int
  BY WindowType DEF CoveredIn
<1> HIDE DEF m
<1>4. /\ start \in Int /\ start >= p.from /\ start >= w.start /\ start >= e
      /\ start = p.from \/ start = w.start \/ start = e
  BY <1>1, <1>2, <1>3, MaxOfThree DEF m
<1>5. /\ end \in Int /\ end <= End(p) /\ end <= w.end
      /\ end = End(p) \/ end = w.end
  BY <1>1, <1>2, <1>3, MinOfTwo DEF m
<1>6. \A t : t \in SecondsOf(w) <=> t \in Int /\ w.start <= t /\ t < w.end
  BY <1>3 DEF SecondsOf
<1>7. \A i \in 1 .. Len(s) : i < m => s[i].from <= p.from
  <2> SUFFICES ASSUME NEW i \in 1 .. Len(s), i < m PROVE s[i].from <= p.from
    OBVIOUS
  <2>1. i \in DOMAIN s /\ m \in DOMAIN s
    BY <1>1
  <2>2. s[i].from < s[m].from \/ (s[i].from = s[m].from /\ End(s[i]) >= End(s[m]))
    BY <2>1 DEF InOrder
  <2>3. s[i].from \in Int /\ s[m].from \in Int
    BY <1>1, <1>2
  <2> QED
    BY <2>2, <2>3
<1>8. /\ \A i \in 1 .. k, t \in SecondsOf(w) : Spans(s[i], t, joint) => t < e
      /\ e = w.start \/ \E i \in 1 .. k : Eligible(s[i], joint) /\ e <= End(s[i])
  BY DEF CoveredIn
<1> HIDE DEF p
<1>9. ASSUME NEW t \in SecondsOf(w), OwnerIn(s, t, joint) = m
      PROVE  Eligible(p, joint) /\ start <= t /\ t < end
  <2>1. Spans(p, t, joint) /\ \A j \in 1 .. Len(s) : Spans(s[j], t, joint) => m <= j
    BY <1>1, <1>9, OwnerFirst DEF p
  <2>2. Eligible(p, joint) /\ p.from <= t /\ t < End(p) /\ t \in Int /\ w.start <= t /\ t < w.end
    BY <1>6, <2>1 DEF Spans
  <2>3. e <= t
    <3>1. CASE e = w.start
      BY <2>2, <3>1
    <3>2. CASE e # w.start
      <4>1. PICK i \in 1 .. k : Eligible(s[i], joint) /\ e <= End(s[i])
        BY <1>8, <3>2
      <4>2. i \in 1 .. Len(s) /\ i < m
        BY <1>1 DEF m
      <4>3. s[i].from <= t /\ s[i].from \in Int /\ p.from \in Int /\ End(s[i]) \in Int
        BY <1>1, <1>2, <1>7, <2>2, <4>2 DEF p
      <4>4. ~(t < e)
        <5> SUFFICES ASSUME t < e PROVE FALSE
          OBVIOUS
        <5>1. t < End(s[i])
          BY <1>3, <2>2, <4>1, <4>3
        <5>2. Spans(s[i], t, joint)
          BY <4>1, <4>3, <5>1 DEF Spans
        <5>3. m <= i
          BY <2>1, <4>2, <5>2
        <5> QED
          BY <1>1, <4>2, <5>3
      <4> QED
        BY <1>3, <2>2, <4>4
    <3> QED
      BY <3>1, <3>2
  <2> QED
    BY <1>4, <1>5, <2>2, <2>3
<1>10. ASSUME NEW t \in SecondsOf(w), Spans(p, t, joint), e <= t
       PROVE  OwnerIn(s, t, joint) = m
  <2> DEFINE o == OwnerIn(s, t, joint)
  <2>1. o \in 0 .. Len(s) /\ Spans(s[m], t, joint)
    BY <1>10, OwnerFirst DEF p
  <2>2. o # 0 /\ o <= m /\ Spans(s[o], t, joint)
    BY <1>1, <2>1, OwnerFirst
  <2> HIDE DEF o
  <2>3. ~(o < m)
    <3> SUFFICES ASSUME o < m PROVE FALSE
      OBVIOUS
    <3>1. o \in 1 .. k
      BY <2>1, <2>2 DEF m
    <3>2. t < e
      BY <1>8, <2>2, <3>1
    <3> QED
      BY <1>3, <1>6, <1>10, <3>2
  <2> QED
    BY <1>1, <2>1, <2>2, <2>3 DEF o
<1>11. CASE Eligible(p, joint) /\ start < end
  <2>1. ASSUME NEW t \in start .. end - 1 PROVE t \in new
    <3>1. t \in Int /\ start <= t /\ t < end
      BY <1>4, <1>5
    <3>2. p.from \in Int /\ End(p) \in Int
      BY <1>1, <1>2 DEF p
    <3>3. t \in SecondsOf(w) /\ p.from <= t /\ t < End(p) /\ e <= t
      BY <1>3, <1>4, <1>5, <1>6, <3>1, <3>2
    <3> QED
      BY <1>10, <1>11, <3>3 DEF Spans
  <2>2. ASSUME NEW t \in new PROVE t \in start .. end - 1
    <3>1. start <= t /\ t < end /\ t \in Int
      BY <1>6, <1>9
    <3> QED
      BY <1>4, <1>5, <3>1
  <2>3. ASSUME NEW i \in 1 .. m, NEW t \in SecondsOf(w), Spans(s[i], t, joint) PROVE t < end
    <3>1. t \in Int /\ t < w.end
      BY <1>6
    <3>2. CASE i = m
      <4>1. t < End(p) /\ End(p) \in Int
        BY <1>1, <1>2, <2>3, <3>2 DEF p, Spans
      <4> QED
        BY <1>3, <1>5, <3>1, <4>1
    <3>3. CASE i # m
      <4>1. i \in 1 .. k
        BY <3>3 DEF m
      <4>2. t < e
        BY <1>8, <2>3, <4>1
      <4> QED
        BY <1>3, <1>4, <1>5, <1>11, <3>1, <4>2
    <3> QED
      BY <3>2, <3>3
  <2>4. m \in 1 .. m /\ Eligible(s[m], joint) /\ end <= End(s[m])
    BY <1>1, <1>5, <1>11 DEF p
  <2>5. CoveredIn(s, w, joint, m, end)
    BY <1>5, <2>3, <2>4 DEF CoveredIn
  <2>6. new = start .. end - 1
    BY <2>1, <2>2
  <2> QED
    <3> HIDE DEF new
    <3>1. start \in Int /\ end \in Int
      BY <1>4, <1>5
    <3> QED
      BY <1>11, <2>5, <2>6, <3>1 DEF m, p, new
<1>12. CASE ~(Eligible(p, joint) /\ start < end)
  <2>1. new = {}
    <3>1. ASSUME NEW t \in SecondsOf(w), OwnerIn(s, t, joint) = m PROVE FALSE
      <4>1. Eligible(p, joint) /\ start <= t /\ t < end
        BY <1>9, <3>1
      <4>2. t \in Int
        BY <1>6
      <4> QED
        BY <1>4, <1>5, <1>12, <4>1, <4>2
    <3> QED
      BY <3>1
  <2>2. ASSUME NEW i \in 1 .. m, NEW t \in SecondsOf(w), Spans(s[i], t, joint) PROVE t < e
    <3>1. CASE i = m
      <4>1. Spans(p, t, joint) /\ t \in Int
        BY <1>6, <2>2, <3>1 DEF p
      <4>2. ~(e <= t)
        <5> SUFFICES ASSUME e <= t PROVE FALSE
          OBVIOUS
        <5>1. t \in new
          BY <1>10, <4>1
        <5> QED
          BY <2>1, <5>1
      <4> QED
        BY <1>3, <4>1, <4>2
    <3>2. CASE i # m
      <4>1. i \in 1 .. k
        BY <3>2 DEF m
      <4> QED
        BY <1>8, <2>2, <4>1
    <3> QED
      BY <3>1, <3>2
  <2>3. e = w.start \/ \E i \in 1 .. m : Eligible(s[i], joint) /\ e <= End(s[i])
    <3>1. \A i \in 1 .. k : i \in 1 .. m
      BY DEF m
    <3> QED
      BY <1>8, <3>1
  <2>4. CoveredIn(s, w, joint, m, e)
    BY <1>3, <2>2, <2>3 DEF CoveredIn
  <2> QED
    <3> HIDE DEF new
    <3>1. start \in Int /\ end \in Int
      BY <1>4, <1>5
    <3> QED
      BY <1>12, <2>1, <2>4, <3>1 DEF m, p, new
<1> QED
  BY <1>11, <1>12

\* The seconds that any pairs answer for, and those of a bin, can be counted.
LEMMA OwnedFinite ==
    ASSUME NEW s, NEW w \in Windows, NEW joint, NEW k, NEW band, NEW column
    PROVE  /\ IsFiniteSet(SecondsOf(w))
           /\ IsFiniteSet(OwnedIn(s, w, joint, k)) /\ Cardinality(OwnedIn(s, w, joint, k)) \in Nat
           /\ IsFiniteSet(BinIn(s, w, band, column, joint, k))
           /\ Cardinality(BinIn(s, w, band, column, joint, k)) \in Nat
<1>1. w.start \in Int /\ w.end - 1 \in Int
  BY WindowType
<1>2. IsFiniteSet(SecondsOf(w))
  BY <1>1, FS_Interval DEF SecondsOf
<1>3. OwnedIn(s, w, joint, k) \in SUBSET SecondsOf(w)
  BY DEF OwnedIn
<1>4. BinIn(s, w, band, column, joint, k) \in SUBSET SecondsOf(w)
  BY <1>3 DEF BinIn
<1>5. IsFiniteSet(OwnedIn(s, w, joint, k)) /\ IsFiniteSet(BinIn(s, w, band, column, joint, k))
  BY <1>2, <1>3, <1>4, FS_Subset
<1> QED
  BY <1>2, <1>5, FS_CardinalityType

\* The first k + 1 pairs answer for what the first k do and for what the next one does.
NewIn(s, w, joint, k) == {t \in SecondsOf(w) : OwnerIn(s, t, joint) = k + 1}

\* They divide what the first k + 1 pairs answer for, in all and in each bin.
LEMMA OwnedNext ==
    ASSUME NEW s, NEW w \in Windows, NEW joint, NEW k \in Nat, NEW band, NEW column,
           NEW p, p = s[k + 1]
    PROVE  LET new == NewIn(s, w, joint, k)
               part == {t \in new : InBin(p, t, t + 1, band, column, joint)}
           IN  /\ Cardinality(OwnedIn(s, w, joint, k + 1)) = Cardinality(OwnedIn(s, w, joint, k)) + Cardinality(new)
               /\ Cardinality(BinIn(s, w, band, column, joint, k + 1))
                    = Cardinality(BinIn(s, w, band, column, joint, k)) + Cardinality(part)
<1> DEFINE new == NewIn(s, w, joint, k)
           part == {t \in new : InBin(p, t, t + 1, band, column, joint)}
           O(m) == OwnedIn(s, w, joint, m)
           B(m) == BinIn(s, w, band, column, joint, m)
<1>1. \A o : o \in 1 .. k + 1 <=> o \in 1 .. k \/ o = k + 1
  OBVIOUS
<1>2. ~ (k + 1 \in 1 .. k)
  OBVIOUS
<1>3. O(k + 1) = O(k) \cup new /\ O(k) \cap new = {}
  BY <1>1, <1>2 DEF OwnedIn, NewIn
<1>4. \A t \in new : OwnerIn(s, t, joint) = k + 1
  BY DEF NewIn
<1>5. B(k + 1) = B(k) \cup part /\ B(k) \cap part = {}
  <2>1. \A m : B(m) = {t \in O(m) : InBin(s[OwnerIn(s, t, joint)], t, t + 1, band, column, joint)}
    BY DEF BinIn
  <2>2. \A t \in new : InBin(s[OwnerIn(s, t, joint)], t, t + 1, band, column, joint)
                         <=> InBin(p, t, t + 1, band, column, joint)
    BY <1>4
  <2> HIDE DEF B, O, new
  <2> QED
    BY <1>3, <2>1, <2>2
<1>6. IsFiniteSet(SecondsOf(w)) /\ IsFiniteSet(O(k)) /\ IsFiniteSet(B(k))
  BY OwnedFinite
<1>7. IsFiniteSet(new) /\ IsFiniteSet(part)
  <2>1. new \in SUBSET SecondsOf(w) /\ part \in SUBSET SecondsOf(w)
    BY DEF NewIn
  <2> HIDE DEF new, part
  <2> QED
    BY <1>6, <2>1, FS_Subset
<1> HIDE DEF new, part, O, B
<1>8. Cardinality(O(k + 1)) = Cardinality(O(k)) + Cardinality(new)
  BY <1>3, <1>6, <1>7, CountDisjoint
<1>9. Cardinality(B(k + 1)) = Cardinality(B(k)) + Cardinality(part)
  BY <1>5, <1>6, <1>7, CountDisjoint
<1> QED
  BY <1>8, <1>9 DEF new, part, O, B

\* No pair answers for nothing.
LEMMA OwnedNone ==
    ASSUME NEW s, NEW w, NEW joint, NEW band, NEW column
    PROVE  /\ OwnedIn(s, w, joint, 0) = {} /\ BinIn(s, w, band, column, joint, 0) = {}
           /\ Cardinality({}) = 0
<1>1. OwnedIn(s, w, joint, 0) = {}
  BY DEF OwnedIn
<1> QED
  BY <1>1, FS_EmptySet DEF BinIn

\* The seconds of a pair, and new totals that hold them and the old ones.
PartOf(p, start, end, band, column, joint) == {t \in start .. end - 1 : InBin(p, t, t + 1, band, column, joint)}

Adds(new, d, p, start, end, joint) ==
  /\ new \in DwellType
  /\ joint => /\ new.soc = d.soc /\ new.socCovered = d.socCovered
              /\ new.jointCovered = d.jointCovered + (end - start)
              /\ \A r \in 0 .. 3, c \in 0 .. 4 :
                    new.joint[r][c] = d.joint[r][c] + Cardinality(PartOf(p, start, end, r, c, TRUE))
  /\ ~joint => /\ new.joint = d.joint /\ new.jointCovered = d.jointCovered
               /\ new.socCovered = d.socCovered + (end - start)
               /\ \A c \in 0 .. 4 : new.soc[c] = d.soc[c] + Cardinality(PartOf(p, start, end, 0, c, FALSE))

\* What the slice of a pair adds.
LEMMA AddedDwell ==
    ASSUME NEW d \in DwellType, NEW p \in AllPairs, NEW start \in Int, NEW end \in Int, start < end,
           NEW joint \in BOOLEAN
    PROVE  Adds(AccumulateDwell(d, p, start, end, joint), d, p, start, end, joint)
<1> DEFINE new == AccumulateDwell(d, p, start, end, joint)
           Part(r, c) == PartOf(p, start, end, r, c, joint)
           In(r, c) == Cardinality(Part(r, c))
           s == SplitsOf(p, start, end, joint)
           bySOC == SplitAt(<<start, end>>, SOCEdges, start, SOCAt(p, start), p.socRise)
           byBoth == SplitAt(bySOC, TemperatureEdges, start, TemperatureAt(p, start), p.temperatureRise)
           splits == IF joint THEN byBoth ELSE bySOC
<1>1. \A r, c : In(r, c) \in Nat
  <2> SUFFICES ASSUME NEW r, NEW c PROVE In(r, c) \in Nat
    OBVIOUS
  <2>1. IsFiniteSet(start .. end - 1) /\ Part(r, c) \in SUBSET (start .. end - 1)
    BY CountSeconds DEF PartOf
  <2> HIDE DEF Part
  <2> QED
    BY <2>1, FS_Subset, FS_CardinalityType
<1>2. \A r, c : Spent(p, s, r, c, joint) = In(r, c)
  BY SpentCounted DEF PartOf
<1>3. s = splits
  BY DEF SplitsOf
<1>4. new = IF joint
            THEN [d EXCEPT !.joint = [r \in 0..3 |-> [c \in 0..4 |->
                                        d.joint[r][c] + Spent(p, splits, r, c, TRUE)]],
                          !.jointCovered = d.jointCovered + (end - start)]
            ELSE [d EXCEPT !.soc = [c \in 0..4 |-> d.soc[c] + Spent(p, splits, 0, c, FALSE)],
                          !.socCovered = d.socCovered + (end - start)]
  BY Zenon DEF AccumulateDwell
<1>5. end - start \in Nat
  OBVIOUS
<1> DEFINE n == end - start
<1> HIDE DEF new, In, s, splits, n
<1>6. CASE joint
  <2> DEFINE band(r) == [c \in 0 .. 4 |-> d.joint[r][c] + In(r, c)]
             J == [r \in 0 .. 3 |-> band(r)]
  <2>1. \A r, c : Spent(p, splits, r, c, TRUE) = In(r, c)
    BY <1>2, <1>3, <1>6
  <2>2. new = [d EXCEPT !.joint = J, !.jointCovered = d.jointCovered + n]
    BY <1>4, <1>6, <2>1 DEF n
  <2>3. ASSUME NEW r \in 0 .. 3, NEW c \in 0 .. 4 PROVE d.joint[r][c] + In(r, c) \in Nat
    BY <1>1 DEF DwellType
  <2>4. \A r \in 0 .. 3 : band(r) \in [0 .. 4 -> Nat]
    BY <2>3
  <2>5. \A r \in 0 .. 3, c \in 0 .. 4 : band(r)[c] = d.joint[r][c] + In(r, c)
    OBVIOUS
  <2> HIDE DEF band
  <2>6. J \in [0 .. 3 -> [0 .. 4 -> Nat]] /\ \A r \in 0 .. 3 : J[r] = band(r)
    BY <2>4
  <2> HIDE DEF J
  <2>7. n \in Nat
    BY <1>5 DEF n
  <2>8. /\ new \in DwellType /\ new.soc = d.soc /\ new.socCovered = d.socCovered
        /\ new.jointCovered = d.jointCovered + n /\ new.joint = J
    <3>1. /\ d.joint \in [0 .. 3 -> [0 .. 4 -> Nat]] /\ d.soc \in [0 .. 4 -> Nat]
          /\ d.socCovered \in Nat /\ d.jointCovered \in Nat
          /\ d = [soc |-> d.soc, joint |-> d.joint, socCovered |-> d.socCovered, jointCovered |-> d.jointCovered]
      BY DEF DwellType
    <3>2. new = [soc |-> d.soc, joint |-> J, socCovered |-> d.socCovered, jointCovered |-> d.jointCovered + n]
      BY <2>2, <3>1
    <3> QED
      BY <2>6, <2>7, <3>1, <3>2 DEF DwellType
  <2>9. \A r \in 0 .. 3, c \in 0 .. 4 : new.joint[r][c] = d.joint[r][c] + In(r, c)
    BY <2>5, <2>6, <2>8
  <2> QED
    <3>1. \A r, c : In(r, c) = Cardinality(PartOf(p, start, end, r, c, TRUE))
      BY <1>6 DEF In
    <3>2. Adds(new, d, p, start, end, joint)
      BY <1>6, <2>8, <2>9, <3>1 DEF Adds, n
    <3> QED
      BY <3>2 DEF new
<1>7. CASE ~joint
  <2> DEFINE J == [c \in 0 .. 4 |-> d.soc[c] + In(0, c)]
  <2>1. \A r, c : Spent(p, splits, r, c, FALSE) = In(r, c)
    BY <1>2, <1>3, <1>7
  <2>2. new = [d EXCEPT !.soc = J, !.socCovered = d.socCovered + n]
    BY <1>4, <1>7, <2>1 DEF n
  <2>3. ASSUME NEW c \in 0 .. 4 PROVE d.soc[c] + In(0, c) \in Nat
    BY <1>1 DEF DwellType
  <2>4. J \in [0 .. 4 -> Nat] /\ \A c \in 0 .. 4 : J[c] = d.soc[c] + In(0, c)
    BY <2>3
  <2> HIDE DEF J
  <2>5. n \in Nat
    BY <1>5 DEF n
  <2>6. /\ new \in DwellType /\ new.joint = d.joint /\ new.jointCovered = d.jointCovered
        /\ new.socCovered = d.socCovered + n /\ new.soc = J
    <3>1. /\ d.joint \in [0 .. 3 -> [0 .. 4 -> Nat]] /\ d.soc \in [0 .. 4 -> Nat]
          /\ d.socCovered \in Nat /\ d.jointCovered \in Nat
          /\ d = [soc |-> d.soc, joint |-> d.joint, socCovered |-> d.socCovered, jointCovered |-> d.jointCovered]
      BY DEF DwellType
    <3>2. new = [soc |-> J, joint |-> d.joint, socCovered |-> d.socCovered + n, jointCovered |-> d.jointCovered]
      BY <2>2, <3>1
    <3> QED
      BY <2>4, <2>5, <3>1, <3>2 DEF DwellType
  <2>7. \A c \in 0 .. 4 : new.soc[c] = d.soc[c] + In(0, c)
    BY <2>4, <2>6
  <2> QED
    <3>1. \A r, c : In(r, c) = Cardinality(PartOf(p, start, end, r, c, FALSE))
      BY <1>7 DEF In
    <3>2. Adds(new, d, p, start, end, joint)
      BY <1>7, <2>6, <2>7, <3>1 DEF Adds, n
    <3> QED
      BY <3>2 DEF new
<1> QED
  BY <1>6, <1>7

\* One slice of a pass keeps the count: counted are other pairs and k of this pass.
CountedSo(d, s, w, joint, k, other) ==
  IF joint THEN CountedIn(d, s, w, other, k) ELSE CountedIn(d, s, w, k, other)

\* With one pair more the totals count what one pair more answers for, and coveredEnd is after it.
LEMMA SliceCounted ==
    ASSUME NEW s \in Seq(AllPairs), InOrder(s), NEW w \in Windows, NEW joint \in BOOLEAN,
           NEW k \in Nat, k < Len(s), NEW e, CoveredIn(s, w, joint, k, e),
           NEW p, p = s[k + 1], NEW start, NEW end, start = Max({p.from, w.start, e}),
           end = Min({End(p), w.end}), NEW d, NEW other, CountedSo(d, s, w, joint, k, other),
           NEW adds, adds <=> Eligible(p, joint) /\ start < end,
           NEW new, new = IF adds THEN AccumulateDwell(d, p, start, end, joint) ELSE d,
           NEW last, last = IF adds THEN end ELSE e
    PROVE  CoveredIn(s, w, joint, k + 1, last) /\ CountedSo(new, s, w, joint, k + 1, other)
<1> DEFINE fresh == NewIn(s, w, joint, k)
           Part(r, c) == {t \in fresh : InBin(p, t, t + 1, r, c, joint)}
           O(m) == Cardinality(OwnedIn(s, w, joint, m))
           B(r, c, m) == Cardinality(BinIn(s, w, r, c, joint, m))
           l == k + 1
<1>1. /\ start \in Int /\ end \in Int
      /\ adds => fresh = start .. end - 1 /\ CoveredIn(s, w, joint, k + 1, end)
      /\ ~adds => fresh = {} /\ CoveredIn(s, w, joint, k + 1, e)
  BY NextOwned DEF NewIn
<1>2. p \in AllPairs
  BY ElementOfSeq
<1>3. ASSUME NEW r, NEW c
      PROVE  /\ O(l) = O(k) + Cardinality(fresh) /\ B(r, c, l) = B(r, c, k) + Cardinality(Part(r, c))
             /\ O(k) \in Nat /\ B(r, c, k) \in Nat
  <2>1. O(l) = O(k) + Cardinality(fresh) /\ B(r, c, l) = B(r, c, k) + Cardinality(Part(r, c))
    <3>1. /\ Cardinality(OwnedIn(s, w, joint, k + 1))
                = Cardinality(OwnedIn(s, w, joint, k)) + Cardinality(NewIn(s, w, joint, k))
          /\ Cardinality(BinIn(s, w, r, c, joint, k + 1))
                = Cardinality(BinIn(s, w, r, c, joint, k))
                    + Cardinality({t \in NewIn(s, w, joint, k) : InBin(p, t, t + 1, r, c, joint)})
      BY OwnedNext, SMTT(60)
    <3> QED
      BY <3>1
  <2>2. O(k) \in Nat /\ B(r, c, k) \in Nat
    BY OwnedFinite
  <2> QED
    BY <2>1, <2>2
<1>4. d \in DwellType
  BY DEF CountedSo, CountedIn
<1>5. l = k + 1
  OBVIOUS
<1> HIDE DEF O, B, fresh, l
<1>6. CASE ~adds
  <2>1. Cardinality(fresh) = 0 /\ \A r, c : Cardinality(Part(r, c)) = 0
    <3>1. fresh = {} /\ \A r, c : Part(r, c) = {}
      BY <1>1, <1>6
    <3> HIDE DEF Part
    <3> QED
      BY <3>1, FS_EmptySet
  <2> HIDE DEF Part
  <2>2. \A r, c : O(l) = O(k) /\ B(r, c, l) = B(r, c, k)
    BY <1>3, <2>1
  <2>3. CountedSo(d, s, w, joint, l, other)
    <3>1. CASE joint
      <4>1. CountedIn(d, s, w, other, k)
        BY <3>1 DEF CountedSo
      <4>2. CountedIn(d, s, w, other, l)
        BY <2>2, <3>1, <4>1 DEF CountedIn, O, B
      <4> QED
        BY <3>1, <4>2 DEF CountedSo
    <3>2. CASE ~joint
      <4>1. CountedIn(d, s, w, k, other)
        BY <3>2 DEF CountedSo
      <4>2. CountedIn(d, s, w, l, other)
        BY <2>2, <3>2, <4>1 DEF CountedIn, O, B
      <4> QED
        BY <3>2, <4>2 DEF CountedSo
    <3> QED
      BY <3>1, <3>2
  <2> QED
    BY <1>1, <1>5, <1>6, <2>3
<1>7. CASE adds
  <2> DEFINE In(r, c) == Cardinality(PartOf(p, start, end, r, c, joint))
  <2>1. fresh = start .. end - 1 /\ start < end
    BY <1>1, <1>7
  <2>2. Cardinality(fresh) = end - start
    BY <1>1, <2>1, CountSeconds
  <2>3. \A r, c : Cardinality(Part(r, c)) = In(r, c)
    BY <2>1 DEF PartOf
  <2>4. Adds(new, d, p, start, end, joint)
    BY <1>1, <1>2, <1>4, <1>7, <2>1, AddedDwell
  <2> HIDE DEF Part, In
  <2>5. \A r, c : O(l) = O(k) + (end - start) /\ B(r, c, l) = B(r, c, k) + In(r, c)
    BY <1>3, <2>2, <2>3
  <2>6. CountedSo(new, s, w, joint, l, other)
    <3>1. CASE joint
      <4>1. CountedIn(d, s, w, other, k)
        BY <3>1 DEF CountedSo
      <4>2. /\ Cardinality(OwnedIn(s, w, TRUE, l)) = Cardinality(OwnedIn(s, w, TRUE, k)) + (end - start)
            /\ \A r, c : Cardinality(BinIn(s, w, r, c, TRUE, l))
                           = Cardinality(BinIn(s, w, r, c, TRUE, k)) + Cardinality(PartOf(p, start, end, r, c, TRUE))
        BY <2>5, <3>1 DEF O, B, In
      <4>3. /\ new \in DwellType
            /\ new.soc = d.soc /\ new.socCovered = d.socCovered
            /\ new.jointCovered = d.jointCovered + (end - start)
            /\ \A r \in 0 .. 3, c \in 0 .. 4 :
                  new.joint[r][c] = d.joint[r][c] + Cardinality(PartOf(p, start, end, r, c, TRUE))
        BY <2>4, <3>1 DEF Adds
      <4>4. /\ \A r \in 0 .. 3, c \in 0 .. 4 : d.joint[r][c] = Cardinality(BinIn(s, w, r, c, TRUE, k))
            /\ d.jointCovered = Cardinality(OwnedIn(s, w, TRUE, k))
            /\ \A c \in 0 .. 4 : d.soc[c] = Cardinality(BinIn(s, w, 0, c, FALSE, other))
            /\ d.socCovered = Cardinality(OwnedIn(s, w, FALSE, other))
        BY <4>1 DEF CountedIn
      <4>5. ASSUME NEW r \in 0 .. 3, NEW c \in 0 .. 4 PROVE new.joint[r][c] = Cardinality(BinIn(s, w, r, c, TRUE, l))
        <5>1. Cardinality(BinIn(s, w, r, c, TRUE, l))
                = Cardinality(BinIn(s, w, r, c, TRUE, k)) + Cardinality(PartOf(p, start, end, r, c, TRUE))
          BY <4>2
        <5>2. new.joint[r][c] = d.joint[r][c] + Cardinality(PartOf(p, start, end, r, c, TRUE))
          BY <4>3
        <5>3. d.joint[r][c] = Cardinality(BinIn(s, w, r, c, TRUE, k))
          BY <4>4
        <5> QED
          BY <5>1, <5>2, <5>3
      <4>6. new.jointCovered = Cardinality(OwnedIn(s, w, TRUE, l))
        BY <4>2, <4>3, <4>4
      <4>7. CountedIn(new, s, w, other, l)
        BY <4>3, <4>4, <4>5, <4>6 DEF CountedIn
      <4> QED
        BY <3>1, <4>7 DEF CountedSo
    <3>2. CASE ~joint
      <4>1. CountedIn(d, s, w, k, other)
        BY <3>2 DEF CountedSo
      <4>2. /\ Cardinality(OwnedIn(s, w, FALSE, l)) = Cardinality(OwnedIn(s, w, FALSE, k)) + (end - start)
            /\ \A r, c : Cardinality(BinIn(s, w, r, c, FALSE, l))
                           = Cardinality(BinIn(s, w, r, c, FALSE, k)) + Cardinality(PartOf(p, start, end, r, c, FALSE))
        BY <2>5, <3>2 DEF O, B, In
      <4>3. /\ new \in DwellType
            /\ new.joint = d.joint /\ new.jointCovered = d.jointCovered
            /\ new.socCovered = d.socCovered + (end - start)
            /\ \A c \in 0 .. 4 : new.soc[c] = d.soc[c] + Cardinality(PartOf(p, start, end, 0, c, FALSE))
        BY <2>4, <3>2 DEF Adds
      <4>4. /\ \A r \in 0 .. 3, c \in 0 .. 4 : d.joint[r][c] = Cardinality(BinIn(s, w, r, c, TRUE, other))
            /\ d.jointCovered = Cardinality(OwnedIn(s, w, TRUE, other))
            /\ \A c \in 0 .. 4 : d.soc[c] = Cardinality(BinIn(s, w, 0, c, FALSE, k))
            /\ d.socCovered = Cardinality(OwnedIn(s, w, FALSE, k))
        BY <4>1 DEF CountedIn
      <4>5. ASSUME NEW c \in 0 .. 4 PROVE new.soc[c] = Cardinality(BinIn(s, w, 0, c, FALSE, l))
        <5>1. Cardinality(BinIn(s, w, 0, c, FALSE, l))
                = Cardinality(BinIn(s, w, 0, c, FALSE, k)) + Cardinality(PartOf(p, start, end, 0, c, FALSE))
          BY <4>2
        <5>2. new.soc[c] = d.soc[c] + Cardinality(PartOf(p, start, end, 0, c, FALSE))
          BY <4>3
        <5>3. d.soc[c] = Cardinality(BinIn(s, w, 0, c, FALSE, k))
          BY <4>4
        <5> QED
          BY <5>1, <5>2, <5>3
      <4>6. new.socCovered = Cardinality(OwnedIn(s, w, FALSE, l))
        BY <4>2, <4>3, <4>4
      <4>7. CountedIn(new, s, w, l, other)
        BY <4>3, <4>4, <4>5, <4>6 DEF CountedIn
      <4> QED
        BY <3>2, <4>7 DEF CountedSo
    <3> QED
      BY <3>1, <3>2
  <2> QED
    BY <1>1, <1>5, <1>7, <2>6
<1> QED
  BY <1>6, <1>7

\* Before the first slice nothing is covered and nothing is counted.
LEMMA DwellInvInit == StatisticsInit => DwellInv
<1> SUFFICES ASSUME StatisticsInit PROVE DwellInv
  OBVIOUS
<1> USE DEF StatisticsInit
<1>1. intervals \in Seq(AllPairs) /\ InOrder(intervals)
  <2>1. CASE intervals \in {s \in Intervals : InOrder(s)}
    BY <2>1, StatisticsAssumption
  <2>2. CASE intervals = <<>>
    BY <2>2 DEF InOrder
  <2> QED
    BY <2>1, <2>2
<1>2. Sliced = 0 /\ todo \in Seq(AllPairs)
  BY <1>1, LenProperties DEF Sliced
<1>3. \A i \in 1 .. Len(todo) : todo[i] = intervals[Sliced + i]
  BY <1>1, <1>2, LenProperties
<1>4. CoveredIn(intervals, window, FALSE, 0, coveredEnd)
  BY WindowType DEF CoveredIn
<1>5. Nothing \in DwellType
  BY DEF Nothing, DwellType
<1>6. CountedIn(Nothing, intervals, window, 0, 0)
  BY <1>5, OwnedNone DEF CountedIn, Nothing
<1>7. pass = 0 /\ window \in Windows /\ dwell = Nothing
  OBVIOUS
<1>8. CoveredIn(intervals, window, pass = 1, Sliced, coveredEnd)
  <2>1. (pass = 1) = FALSE
    BY <1>7
  <2> QED
    BY <1>2, <1>4, <2>1
<1>9. CountedIn(dwell, intervals, window, IF pass = 1 THEN Len(intervals) ELSE Sliced,
                IF pass = 1 THEN Sliced ELSE 0)
  BY <1>2, <1>6, <1>7
<1>10. pass \in {0, 1} /\ Sliced \in Nat
  BY <1>2, <1>7
<1> QED
  BY <1>1, <1>2, <1>3, <1>7, <1>8, <1>9, <1>10, Zenon DEF DwellInv

\* A slice counts the seconds of the next pair (BASSlices, BAStatisticsDwell).
LEMMA DwellInvSlice == DwellInv /\ Slice => DwellInv'
<1> SUFFICES ASSUME DwellInv, Slice PROVE DwellInv'
  OBVIOUS
<1> DEFINE k == Sliced
           joint == pass = 1
           p == intervals[k + 1]
           start == Max({p.from, window.start, coveredEnd})
           end == Min({End(p), window.end})
           adds == Eligible(p, joint) /\ start < end
<1>1. /\ window \in Windows /\ pass \in {0, 1} /\ intervals \in Seq(AllPairs) /\ InOrder(intervals)
      /\ todo \in Seq(AllPairs) /\ k \in Nat
      /\ \A i \in 1 .. Len(todo) : todo[i] = intervals[k + i]
      /\ CoveredIn(intervals, window, joint, k, coveredEnd)
      /\ CountedIn(dwell, intervals, window, IF pass = 1 THEN Len(intervals) ELSE k, IF pass = 1 THEN k ELSE 0)
  BY DEF DwellInv
<1>2. todo # <<>> /\ Len(todo) \in Nat /\ Len(todo) >= 1 /\ Len(intervals) \in Nat
      /\ Len(todo) = Len(intervals) - k
  BY <1>1, LenProperties, EmptySeq DEF Slice, Sliced
<1>3. Head(todo) = p
  BY <1>1, <1>2
<1>4. /\ dwell' = IF adds THEN AccumulateDwell(dwell, p, start, end, joint) ELSE dwell
      /\ coveredEnd' = IF adds THEN end ELSE coveredEnd
      /\ todo' = Tail(todo) /\ window' = window /\ intervals' = intervals /\ pass' = pass
  <2> DEFINE q == Head(todo)
             a == Max({q.from, window.start, coveredEnd})
             b == Min({End(q), window.end})
  <2>1. /\ IF Eligible(q, pass = 1) /\ a < b
           THEN dwell' = AccumulateDwell(dwell, q, a, b, pass = 1) /\ coveredEnd' = b
           ELSE UNCHANGED <<dwell, coveredEnd>>
        /\ todo' = Tail(todo) /\ window' = window /\ intervals' = intervals /\ pass' = pass
    BY Zenon DEF Slice
  <2>2. q = p
    BY <1>3
  <2> HIDE DEF q, p
  <2> QED
    BY <2>1, <2>2
<1>5. /\ Tail(todo) \in Seq(AllPairs) /\ Len(Tail(todo)) = Len(todo) - 1
      /\ \A i \in 1 .. Len(Tail(todo)) : Tail(todo)[i] = todo[i + 1]
  BY <1>1, <1>2, HeadTailProperties
<1>6. Sliced' = k + 1
  BY <1>2, <1>4, <1>5 DEF Sliced
<1> HIDE DEF k
<1>7. \A i \in 1 .. Len(todo') : todo'[i] = intervals'[(k + 1) + i]
  <2> SUFFICES ASSUME NEW i \in 1 .. Len(Tail(todo)) PROVE Tail(todo)[i] = intervals[(k + 1) + i]
    BY <1>4
  <2>1. i + 1 \in 1 .. Len(todo) /\ k + (i + 1) = (k + 1) + i
    BY <1>1, <1>2, <1>5
  <2> QED
    BY <1>1, <1>5, <2>1
<1>8. k < Len(intervals) /\ joint \in BOOLEAN
  BY <1>1, <1>2
<1> DEFINE other == IF joint THEN Len(intervals) ELSE 0
<1>9. CountedSo(dwell, intervals, window, joint, k, other)
  BY <1>1 DEF CountedSo
<1>10. /\ p = intervals[k + 1] /\ start = Max({p.from, window.start, coveredEnd})
       /\ end = Min({End(p), window.end}) /\ (adds <=> Eligible(p, joint) /\ start < end)
  OBVIOUS
<1> HIDE DEF other, joint, start, end, adds, p
<1>11. PICK new, last : new = dwell' /\ last = coveredEnd'
  OBVIOUS
<1>12. /\ CoveredIn(intervals, window, joint, k + 1, coveredEnd')
       /\ CountedSo(dwell', intervals, window, joint, k + 1, other)
  <2>1. /\ new = IF adds THEN AccumulateDwell(dwell, p, start, end, joint) ELSE dwell
        /\ last = IF adds THEN end ELSE coveredEnd
    BY <1>4, <1>11
  <2>2. CoveredIn(intervals, window, joint, k + 1, last) /\ CountedSo(new, intervals, window, joint, k + 1, other)
    BY <1>1, <1>8, <1>9, <1>10, <2>1, SliceCounted
  <2> QED
    BY <1>11, <2>2
<1>13. CountedIn(dwell', intervals, window, IF pass = 1 THEN Len(intervals) ELSE k + 1,
                 IF pass = 1 THEN k + 1 ELSE 0)
  BY <1>12 DEF other, joint, CountedSo
<1>14. CoveredIn(intervals, window, pass = 1, k + 1, coveredEnd')
  BY <1>12 DEF joint
<1> QED
  BY <1>1, <1>4, <1>5, <1>6, <1>7, <1>13, <1>14 DEF DwellInv

\* Every step keeps the report exact for the pairs it has sliced.
LEMMA DwellInvNext == DwellInv /\ [StatisticsNext]_statisticsVars => DwellInv'
<1>1. DwellInv /\ Slice => DwellInv'
  BY DwellInvSlice
<1>2. ASSUME DwellInv, SecondPass PROVE DwellInv'
  <2>1. /\ window \in Windows /\ pass = 0 /\ intervals \in Seq(AllPairs) /\ InOrder(intervals)
        /\ Sliced = Len(intervals) /\ Len(intervals) \in Nat
        /\ CountedIn(dwell, intervals, window, Sliced, 0)
    BY <1>2, LenProperties DEF DwellInv, SecondPass, Sliced
  <2>2. /\ pass' = 1 /\ todo' = intervals /\ coveredEnd' = window.start
        /\ window' = window /\ intervals' = intervals /\ dwell' = dwell
    BY <1>2 DEF SecondPass
  <2>3. Sliced' = 0
    BY <2>1, <2>2 DEF Sliced
  <2>4. CoveredIn(intervals, window, TRUE, 0, window.start)
    BY <2>1, WindowType DEF CoveredIn
  <2>5. \A i \in 1 .. Len(intervals) : intervals[i] = intervals[0 + i]
    BY <2>1
  <2>6. CountedIn(dwell, intervals, window, Len(intervals), 0)
    BY <2>1
  <2> QED
    BY <2>1, <2>2, <2>3, <2>4, <2>5, <2>6 DEF DwellInv
<1>3. ASSUME DwellInv, UNCHANGED <<window, intervals, pass, todo, coveredEnd, dwell>> PROVE DwellInv'
  BY <1>3 DEF DwellInv, Sliced
<1>4. DwellInv /\ Compare => DwellInv'
  BY <1>3 DEF Compare
<1>5. DwellInv /\ UNCHANGED statisticsVars => DwellInv'
  BY <1>3 DEF statisticsVars
<1> QED
  BY <1>1, <1>2, <1>4, <1>5 DEF StatisticsNext

-----------------------------------------------------------------------------
(* The bins of charge divide what is covered.                              *)

\* There are five bins of charge.
LEMMA ColumnType ==
    ASSUME NEW v
    PROVE  SOCBin(v) \in 0 .. 4
<1> DEFINE R == Range(SOCEdges)
           T == {e \in R : 2 * e <= v}
<1>1. IsFiniteSet({}) /\ Cardinality({}) = 0
  BY FS_EmptySet
<1>2. IsFiniteSet({20}) /\ Cardinality({20}) <= 1
  <2>1. PICK x : x = 20
    OBVIOUS
  <2>2. IsFiniteSet({x}) /\ Cardinality({x}) = 1
    BY FS_Singleton
  <2> QED
    BY <2>1, <2>2
<1>3. PICK b, c, d : b = {20} \cup {40} /\ c = b \cup {60} /\ d = c \cup {80}
  OBVIOUS
<1>4. IsFiniteSet(b) /\ Cardinality(b) \in Nat /\ Cardinality(b) <= 2
  <2>1. Cardinality({20}) \in Nat
    BY <1>2, FS_CardinalityType
  <2>2. /\ IsFiniteSet({20} \cup {40})
        /\ Cardinality({20} \cup {40}) = IF 40 \in {20} THEN Cardinality({20}) ELSE Cardinality({20}) + 1
    BY <1>2, FS_AddElement
  <2> QED
    BY <1>2, <1>3, <2>1, <2>2
<1>5. IsFiniteSet(c) /\ Cardinality(c) \in Nat /\ Cardinality(c) <= 3
  <2>1. /\ IsFiniteSet(b \cup {60})
        /\ Cardinality(b \cup {60}) = IF 60 \in b THEN Cardinality(b) ELSE Cardinality(b) + 1
    BY <1>4, FS_AddElement
  <2> QED
    BY <1>3, <1>4, <2>1
<1>6. IsFiniteSet(d) /\ Cardinality(d) \in Nat /\ Cardinality(d) <= 4
  <2>1. /\ IsFiniteSet(c \cup {80})
        /\ Cardinality(c \cup {80}) = IF 80 \in c THEN Cardinality(c) ELSE Cardinality(c) + 1
    BY <1>5, FS_AddElement
  <2> QED
    BY <1>3, <1>5, <2>1
<1>7. R \subseteq d
  <2>1. DOMAIN SOCEdges = 1 .. 4
    BY DEF SOCEdges
  <2>2. \A i \in 1 .. 4 : SOCEdges[i] \in {20, 40, 60, 80}
    BY DEF SOCEdges
  <2> QED
    BY <1>3, <2>1, <2>2 DEF Range
<1>8. SOCBin(v) = Cardinality(T) /\ T \in SUBSET d
  BY <1>7 DEF SOCBin
<1> HIDE DEF T
<1>9. Cardinality(T) \in Nat /\ Cardinality(T) <= Cardinality(d)
  BY <1>6, <1>8, FS_Subset, FS_CardinalityType
<1> QED
  BY <1>6, <1>8, <1>9

\* The bins of charge divide the seconds that any pair answers for.
LEMMA BinsDivide ==
    ASSUME NEW s, NEW w \in Windows, NEW k
    PROVE  LET B(c) == Cardinality(BinIn(s, w, 0, c, FALSE, k))
           IN  Cardinality(OwnedIn(s, w, FALSE, k)) = B(0) + B(1) + B(2) + B(3) + B(4)
<1> DEFINE O == OwnedIn(s, w, FALSE, k)
           S(c) == BinIn(s, w, 0, c, FALSE, k)
           N(c) == Cardinality(S(c))
<1>1. \A c : IsFiniteSet(S(c)) /\ N(c) \in Nat
  BY OwnedFinite
<1>2. \A c : \A t : t \in S(c) <=> t \in O /\ Column(s[OwnerIn(s, t, FALSE)], t, t + 1) = c
  BY DEF BinIn, InBin
<1>3. \A t : Column(s[OwnerIn(s, t, FALSE)], t, t + 1) \in {0, 1, 2, 3, 4}
  <2>1. \A t : Column(s[OwnerIn(s, t, FALSE)], t, t + 1) \in 0 .. 4
    BY ColumnType DEF Column
  <2>2. 0 .. 4 = {0, 1, 2, 3, 4}
    OBVIOUS
  <2> QED
    BY <2>1, <2>2
<1> HIDE DEF O, S
<1>4. O = S(0) \cup S(1) \cup S(2) \cup S(3) \cup S(4)
  BY <1>2, <1>3
<1>5. /\ S(0) \cap S(1) = {} /\ (S(0) \cup S(1)) \cap S(2) = {}
      /\ (S(0) \cup S(1) \cup S(2)) \cap S(3) = {}
      /\ (S(0) \cup S(1) \cup S(2) \cup S(3)) \cap S(4) = {}
  <2>1. \A a, c : a # c => \A t : ~ (t \in S(a) /\ t \in S(c))
    BY <1>2
  <2>2. S(0) \cap S(1) = {} /\ S(0) \cap S(2) = {} /\ S(0) \cap S(3) = {} /\ S(0) \cap S(4) = {}
    BY <2>1
  <2>3. S(1) \cap S(2) = {} /\ S(1) \cap S(3) = {} /\ S(1) \cap S(4) = {}
    BY <2>1
  <2>4. S(2) \cap S(3) = {} /\ S(2) \cap S(4) = {} /\ S(3) \cap S(4) = {}
    BY <2>1
  <2> QED
    BY <2>2, <2>3, <2>4
<1>6. IsFiniteSet(S(0) \cup S(1)) /\ Cardinality(S(0) \cup S(1)) = N(0) + N(1)
  BY <1>1, <1>5, CountDisjoint
<1>7. /\ IsFiniteSet(S(0) \cup S(1) \cup S(2))
      /\ Cardinality(S(0) \cup S(1) \cup S(2)) = Cardinality(S(0) \cup S(1)) + N(2)
  BY <1>1, <1>5, <1>6, CountDisjoint
<1>8. /\ IsFiniteSet(S(0) \cup S(1) \cup S(2) \cup S(3))
      /\ Cardinality(S(0) \cup S(1) \cup S(2) \cup S(3)) = Cardinality(S(0) \cup S(1) \cup S(2)) + N(3)
  BY <1>1, <1>5, <1>7, CountDisjoint
<1>9. Cardinality(S(0) \cup S(1) \cup S(2) \cup S(3) \cup S(4))
        = Cardinality(S(0) \cup S(1) \cup S(2) \cup S(3)) + N(4)
  BY <1>1, <1>5, <1>8, CountDisjoint
<1>10. Cardinality(O) = N(0) + N(1) + N(2) + N(3) + N(4)
  BY <1>4, <1>6, <1>7, <1>8, <1>9
<1> QED
  BY <1>10 DEF O, S

\* The sum of five numbers.
LEMMA FiveAdded ==
    ASSUME NEW d, d[1] \in Int
    PROVE  SumTo(d, 5) = d[1] + d[2] + d[3] + d[4] + d[5]
<1>1. PICK f : /\ SumTo(d, 5) = f[5] /\ f[0] = 0
               /\ \A k \in 1 .. 5 : f[k] = f[k - 1] + d[k]
  BY SumDef
<1>2. f[1] = f[0] + d[1] /\ f[2] = f[1] + d[2] /\ f[3] = f[2] + d[3] /\ f[4] = f[3] + d[4] /\ f[5] = f[4] + d[5]
  BY <1>1
<1>3. f[1] = d[1]
  BY <1>1, <1>2
<1> QED
  BY <1>1, <1>2, <1>3

\* At the end of the second pass every pair has been counted in both, which is what the report says.
LEMMA DwellInvExact == DwellInv => DwellExact
<1> SUFFICES ASSUME DwellInv, pass = 1, todo = <<>>
             PROVE  /\ \A c \in 0..4 : dwell.soc[c] = SecondsIn(0, c, FALSE)
                    /\ \A r \in 0..3, c \in 0..4 : dwell.joint[r][c] = SecondsIn(r, c, TRUE)
                    /\ dwell.socCovered = SecondsOwned(FALSE) /\ dwell.jointCovered = SecondsOwned(TRUE)
                    /\ dwell.socCovered = SumTo([c \in 1..5 |-> dwell.soc[c - 1]], 5)
  BY DEF DwellExact
<1> DEFINE n == Len(intervals)
<1>1. /\ intervals \in Seq(AllPairs) /\ window \in Windows /\ n \in Nat
      /\ CountedIn(dwell, intervals, window, n, n)
  BY LenProperties DEF DwellInv, Sliced
<1>2. \A t, joint : Owner(t, joint) = OwnerIn(intervals, t, joint)
  BY DEF Owner, OwnerIn
<1>3. WindowSeconds = SecondsOf(window)
  BY DEF WindowSeconds, SecondsOf
<1>4. \A t, joint : OwnerIn(intervals, t, joint) \in 0 .. n
  BY <1>1, OwnerFirst
<1>5. \A t, joint : OwnerIn(intervals, t, joint) # 0 <=> OwnerIn(intervals, t, joint) \in 1 .. n
  BY <1>1, <1>4
<1> HIDE DEF n
<1>6. \A joint : SecondsOwned(joint) = Cardinality(OwnedIn(intervals, window, joint, n))
  <2> SUFFICES ASSUME NEW joint
               PROVE  SecondsOwned(joint) = Cardinality(OwnedIn(intervals, window, joint, n))
    OBVIOUS
  <2>1. {t \in WindowSeconds : Owner(t, joint) # 0} = OwnedIn(intervals, window, joint, n)
    BY <1>2, <1>3, <1>5 DEF OwnedIn
  <2> QED
    BY <2>1 DEF SecondsOwned
<1>7. \A r, c, joint : SecondsIn(r, c, joint) = Cardinality(BinIn(intervals, window, r, c, joint, n))
  <2> SUFFICES ASSUME NEW r, NEW c, NEW joint
               PROVE  SecondsIn(r, c, joint) = Cardinality(BinIn(intervals, window, r, c, joint, n))
    OBVIOUS
  <2>1. {t \in WindowSeconds : LET i == Owner(t, joint)
                               IN  i # 0 /\ InBin(intervals[i], t, t + 1, r, c, joint)}
          = BinIn(intervals, window, r, c, joint, n)
    BY <1>2, <1>3, <1>5 DEF OwnedIn, BinIn
  <2> QED
    BY <2>1 DEF SecondsIn
<1>8. /\ \A c \in 0 .. 4 : dwell.soc[c] = Cardinality(BinIn(intervals, window, 0, c, FALSE, n))
      /\ \A r \in 0 .. 3, c \in 0 .. 4 : dwell.joint[r][c] = Cardinality(BinIn(intervals, window, r, c, TRUE, n))
      /\ dwell.socCovered = Cardinality(OwnedIn(intervals, window, FALSE, n))
      /\ dwell.jointCovered = Cardinality(OwnedIn(intervals, window, TRUE, n))
      /\ dwell \in DwellType
  BY <1>1 DEF CountedIn
<1>9. dwell.socCovered = SumTo([c \in 1..5 |-> dwell.soc[c - 1]], 5)
  <2> DEFINE d == [c \in 1..5 |-> dwell.soc[c - 1]]
  <2>1. /\ d[1] = dwell.soc[0] /\ d[2] = dwell.soc[1] /\ d[3] = dwell.soc[2]
        /\ d[4] = dwell.soc[3] /\ d[5] = dwell.soc[4]
    OBVIOUS
  <2>2. dwell.soc[0] \in Int
    BY <1>8 DEF DwellType
  <2> HIDE DEF d
  <2>3. SumTo(d, 5) = dwell.soc[0] + dwell.soc[1] + dwell.soc[2] + dwell.soc[3] + dwell.soc[4]
    BY <2>1, <2>2, FiveAdded
  <2> DEFINE B(c) == Cardinality(BinIn(intervals, window, 0, c, FALSE, n))
  <2>4. Cardinality(OwnedIn(intervals, window, FALSE, n)) = B(0) + B(1) + B(2) + B(3) + B(4)
    BY <1>1, BinsDivide
  <2> HIDE DEF B
  <2>5. dwell.soc[0] = B(0) /\ dwell.soc[1] = B(1) /\ dwell.soc[2] = B(2) /\ dwell.soc[3] = B(3) /\ dwell.soc[4] = B(4)
    <3>1. \A c \in 0 .. 4 : dwell.soc[c] = B(c)
      BY <1>8 DEF B
    <3> QED
      BY <3>1
  <2> QED
    BY <1>8, <2>3, <2>4, <2>5 DEF d
<1> QED
  BY <1>6, <1>7, <1>8, <1>9

-----------------------------------------------------------------------------
(* The comparison: the samples are of sessions that follow one another,    *)
(* and each runs from 20 to 80 percent within its own.                     *)

\* The samples of the comparison.
Sample == [lower : Int, upper : Int, session : Seq(AllPairs)]

\* The pairs of a session take some time and follow one another.
Follows(s) ==
  /\ s # <<>> /\ s[1].from < End(Last(s))
  /\ \A i \in 1 .. (Len(s) - 1) : End(s[i]) = s[i + 1].from

\* A sample runs from an instant at 20 percent to a later one at 80 percent of its session.
SampleFits(m) ==
  /\ m \in Sample /\ Follows(m.session) /\ m.lower < m.upper
  /\ MeetsAt(m.session, m.lower, 20) /\ MeetsAt(m.session, m.upper, 80)

\* Every sample is within its session, and no session begins before an earlier one's end.
SamplesInv ==
  /\ candidates \in Seq(Seq(AllPairs)) /\ samples \in Seq(Sample)
  /\ \A i \in 1 .. Len(samples) :
       /\ SampleFits(samples[i])
       /\ \A j \in 1 .. i - 1 : End(Last(samples[j].session)) <= samples[i].session[1].from

\* A pair that rises through an edge is at the edge when it is said to be.
LEMMA CrossingMeets ==
    ASSUME NEW p \in AllPairs, NEW b \in {20, 80}, UpwardCrossing(p, b)
    PROVE  /\ Crossing(p, b) \in Int /\ p.from <= Crossing(p, b) /\ Crossing(p, b) <= End(p)
           /\ SOCAt(p, Crossing(p, b)) = b
<1> DEFINE r == p.socRise
           n == p.seconds
           v == p.soc
           q == (b - v) \div r
<1>1. /\ p.from \in Int /\ n \in Nat /\ v \in Int /\ r \in Int /\ Whole(SOCEdges, v, r) /\ b \in Int
      /\ End(p) = p.from + n
  BY PairType DEF End
<1>2. b \in Range(SOCEdges)
  <2>1. DOMAIN SOCEdges = 1 .. 4 /\ SOCEdges[1] = 20 /\ SOCEdges[4] = 80
    BY DEF SOCEdges
  <2> QED
    BY <2>1 DEF Range
<1>3. Crossing(p, b) = p.from + q
  BY DEF Crossing
<1>4. SOCAt(p, p.from) = v + r * (p.from - p.from) /\ SOCAt(p, End(p)) = v + r * (p.from + n - p.from)
  BY <1>1 DEF SOCAt
<1>14. \A t : SOCAt(p, t) = v + r * (t - p.from)
  BY DEF SOCAt
<1>5. r # 0 => (b - v) % (IF r > 0 THEN r ELSE -r) = 0
  BY <1>1, <1>2 DEF Whole
<1> HIDE DEF r, n, v, q
<1>6. SOCAt(p, p.from) = v /\ SOCAt(p, End(p)) = v + r * n
  <2>1. p.from - p.from = 0 /\ p.from + n - p.from = n
    BY <1>1
  <2> QED
    BY <1>1, <1>4, <2>1
<1>7. v <= b /\ b <= v + r * n /\ r * n > 0
  <2>1. v <= b /\ b <= v + r * n /\ v + r * n > v
    BY <1>6 DEF UpwardCrossing
  <2>2. r * n \in Int
    BY <1>1
  <2> QED
    BY <1>1, <2>1, <2>2
<1>8. r > 0
  <2>1. CASE r < 0 /\ n > 0
    <3>1. (-r) * n > 0
      BY <1>1, <2>1, ProductSign
    <3>2. (-r) * n = -(r * n) /\ r * n \in Int
      BY <1>1
    <3> QED
      BY <1>7, <3>1, <3>2
  <2>2. CASE r = 0
    BY <1>1, <1>7, <2>2
  <2>3. CASE n = 0
    BY <1>1, <1>7, <2>3
  <2> QED
    BY <1>1, <2>1, <2>2, <2>3
<1>9. (b - v) % r = 0 /\ b - v \in Int
  BY <1>1, <1>5, <1>8
<1>10. q \in Int /\ b - v = r * q
  BY <1>1, <1>8, <1>9, MultipleOf DEF q
<1>11. q >= 0
  <2> SUFFICES ASSUME q < 0 PROVE FALSE
    BY <1>10
  <2>1. r * (-q) > 0
    BY <1>1, <1>8, <1>10, ProductSign
  <2>2. r * (-q) = -(r * q) /\ r * q \in Int
    BY <1>1, <1>10
  <2> QED
    BY <1>1, <1>7, <1>10, <2>1, <2>2
<1>12. q <= n
  <2> SUFFICES ASSUME q > n PROVE FALSE
    BY <1>1, <1>10
  <2>1. r * (q - n) > 0
    BY <1>1, <1>8, <1>10, ProductSign
  <2>2. r * (q - n) = r * q - r * n /\ r * q \in Int /\ r * n \in Int
    BY <1>1, <1>10
  <2> QED
    BY <1>1, <1>7, <1>10, <2>1, <2>2
<1>13. SOCAt(p, p.from + q) = b
  <2>1. PICK t \in Int : t = p.from + q
    BY <1>1, <1>10
  <2>2. t - p.from = q
    BY <1>1, <1>10, <2>1
  <2>3. SOCAt(p, t) = v + r * q
    BY <1>14, <2>2
  <2>4. SOCAt(p, t) = b
    BY <1>1, <1>10, <2>3
  <2> QED
    BY <2>1, <2>4
<1> QED
  BY <1>1, <1>3, <1>10, <1>11, <1>12, <1>13

\* What has been found of a session: an instant at 20 percent, then a later one at 80.
FoundIn(s, g) ==
  /\ g \in Seq(Int) /\ Len(g) <= 2
  /\ Len(g) >= 1 => MeetsAt(s, g[1], 20)
  /\ Len(g) = 2 => MeetsAt(s, g[2], 80) /\ g[1] < g[2]

\* One pair more keeps what was found of a session, and may add an instant to it.
LEMMA CrossFinds ==
    ASSUME NEW s \in Seq(AllPairs), NEW g, FoundIn(s, g), NEW i \in 1 .. Len(s)
    PROVE  FoundIn(s, Cross(g, s[i]))
<1> DEFINE p == s[i]
           c20 == Crossing(p, 20)
           c80 == Crossing(p, 80)
           lower == IF g = <<>> /\ UpwardCrossing(p, 20) THEN <<c20>> ELSE g
           adds == Len(lower) = 1 /\ UpwardCrossing(p, 80) /\ c80 > lower[1]
<1>1. p \in AllPairs /\ DOMAIN s = 1 .. Len(s)
  BY ElementOfSeq, LenProperties
<1>2. Cross(g, p) = IF adds THEN Append(lower, c80) ELSE lower
  BY Zenon DEF Cross
<1>3. UpwardCrossing(p, 20) => c20 \in Int /\ MeetsAt(s, c20, 20)
  BY <1>1, CrossingMeets DEF MeetsAt
<1>4. UpwardCrossing(p, 80) => c80 \in Int /\ MeetsAt(s, c80, 80)
  BY <1>1, CrossingMeets DEF MeetsAt
<1> HIDE DEF c20, c80, p
<1>5. FoundIn(s, lower)
  <2>1. CASE g = <<>> /\ UpwardCrossing(p, 20)
    <3>1. lower = <<c20>>
      BY <2>1
    <3> HIDE DEF lower
    <3>2. lower \in Seq(Int) /\ Len(lower) = 1 /\ lower[1] = c20
      BY <1>3, <2>1, <3>1
    <3> QED
      BY <1>3, <2>1, <3>2 DEF FoundIn
  <2>2. CASE ~(g = <<>> /\ UpwardCrossing(p, 20))
    BY <2>2
  <2> QED
    BY <2>1, <2>2
<1>6. adds <=> Len(lower) = 1 /\ UpwardCrossing(p, 80) /\ c80 > lower[1]
  OBVIOUS
<1> HIDE DEF lower, adds
<1>7. CASE adds
  <2>1. lower \in Seq(Int) /\ Len(lower) = 1 /\ MeetsAt(s, lower[1], 20) /\ lower[1] \in Int
    <3>1. lower \in Seq(Int) /\ Len(lower) = 1 /\ MeetsAt(s, lower[1], 20)
      <4>1. Len(lower) = 1
        BY <1>6, <1>7
      <4>2. lower \in Seq(Int) /\ (Len(lower) >= 1 => MeetsAt(s, lower[1], 20))
        BY <1>5 DEF FoundIn
      <4> QED
        BY <4>1, <4>2
    <3>2. 1 \in 1 .. Len(lower)
      BY <3>1
    <3>3. lower[1] \in Int
      BY <3>1, <3>2, ElementOfSeq
    <3> QED
      BY <3>1, <3>3
  <2> DEFINE h == Append(lower, c80)
  <2>2. h \in Seq(Int) /\ Len(h) = 2 /\ h[1] = lower[1] /\ h[2] = c80
    <3>1. c80 \in Int
      BY <1>4, <1>6, <1>7
    <3>2. /\ h \in Seq(Int) /\ Len(h) = Len(lower) + 1
          /\ \A k \in 1 .. Len(lower) : h[k] = lower[k]
          /\ h[Len(lower) + 1] = c80
      <4>1. PICK Z : Z = Int
        OBVIOUS
      <4>2. lower \in Seq(Z) /\ c80 \in Z
        BY <2>1, <3>1, <4>1
      <4>3. /\ Append(lower, c80) \in Seq(Z) /\ Len(Append(lower, c80)) = Len(lower) + 1
            /\ \A k \in 1 .. Len(lower) : Append(lower, c80)[k] = lower[k]
            /\ Append(lower, c80)[Len(lower) + 1] = c80
        BY <4>2, AppendProperties
      <4> QED
        BY <4>1, <4>3
    <3> HIDE DEF h
    <3> QED
      BY <2>1, <3>2
  <2> HIDE DEF h
  <2>3. FoundIn(s, h)
    BY <1>4, <1>6, <1>7, <2>1, <2>2 DEF FoundIn
  <2> QED
    BY <1>2, <1>7, <2>3 DEF h, p
<1>8. CASE ~adds
  BY <1>2, <1>5, <1>8 DEF p
<1> QED
  BY <1>7, <1>8

\* A range of crossings is an instant at 20 percent and a later one at 80.
LEMMA RangeFound ==
    ASSUME NEW s \in Seq(AllPairs), CrossingRange(s) # <<>>
    PROVE  LET r == CrossingRange(s) IN
           /\ r[1] \in Int /\ r[2] \in Int /\ r[1] < r[2]
           /\ MeetsAt(s, r[1], 20) /\ MeetsAt(s, r[2], 80)
<1> DEFINE n == Len(s)
           S == {g \in Seq(Int) : FoundIn(s, g)}
           move == [k \in 1 .. n |-> [g \in S |-> Cross(g, s[k])]]
           f == CHOOSE f : f = [k \in 0 .. n |-> IF k = 0 THEN <<>> ELSE Cross(f[k - 1], s[k])]
<1>1. CrossingRange(s) = IF Len(f[n]) = 2 THEN f[n] ELSE <<>>
  BY Zenon DEF CrossingRange
<1>2. n \in Nat
  BY LenProperties
<1>3. <<>> \in S
  <2>1. <<>> \in Seq(Int) /\ Len(<<>>) = 0
    OBVIOUS
  <2> QED
    BY <2>1 DEF FoundIn
<1>4. \A k \in 1 .. n, g \in S : Cross(g, s[k]) \in S
  BY CrossFinds DEF FoundIn
<1>5. \A k \in 1 .. n : \A g \in S : move[k][g] = Cross(g, s[k])
  OBVIOUS
<1>6. move \in StepsOn(S, n)
  BY <1>4 DEF StepsOn
<1> HIDE DEF n, S, move
<1>7. PICK g \in [0 .. n -> S] : g[0] = <<>> /\ \A k \in 1 .. n : g[k] = move[k][g[k - 1]]
  BY <1>2, <1>3, <1>6, StepsExist
<1>8. ASSUME NEW k \in 0 .. n PROVE g[k] = IF k = 0 THEN <<>> ELSE Cross(g[k - 1], s[k])
  <2>1. CASE k # 0
    <3>1. k \in 1 .. n /\ k - 1 \in 0 .. n
      BY <1>2, <2>1
    <3>2. g[k - 1] \in S
      BY <3>1
    <3> QED
      BY <1>5, <1>7, <2>1, <3>1, <3>2
  <2> QED
    BY <1>7, <2>1
<1>9. g = [k \in 0 .. n |-> IF k = 0 THEN <<>> ELSE Cross(g[k - 1], s[k])]
  BY <1>8
<1>10. f = [k \in 0 .. n |-> IF k = 0 THEN <<>> ELSE Cross(f[k - 1], s[k])]
  BY <1>9, Zenon
<1> HIDE DEF f
<1>11. f[0] = <<>> /\ \A k \in 1 .. n : f[k] = Cross(f[k - 1], s[k])
  BY <1>2, <1>10
<1> DEFINE T == {k \in Nat : k <= n => f[k] \in S}
<1>12. 0 \in T
  BY <1>3, <1>11
<1>13. ASSUME NEW k \in Nat, k \in T PROVE k + 1 \in T
  <2> SUFFICES ASSUME k + 1 <= n PROVE f[k + 1] \in S
    OBVIOUS
  <2>1. k + 1 \in 1 .. n /\ (k + 1) - 1 = k /\ f[k] \in S
    BY <1>2, <1>13
  <2>2. f[k + 1] = Cross(f[k], s[k + 1])
    BY <1>11, <2>1
  <2> QED
    BY <1>4, <2>1, <2>2
<1> HIDE DEF T
<1>14. n \in T
  BY <1>2, <1>12, <1>13, NatSetInduction
<1>15. f[n] \in S
  BY <1>2, <1>14 DEF T
<1>16. FoundIn(s, f[n]) /\ f[n] \in Seq(Int)
  BY <1>15 DEF S
<1>17. Len(f[n]) = 2 /\ CrossingRange(s) = f[n]
  BY <1>1
<1>18. f[n][1] \in Int /\ f[n][2] \in Int
  BY <1>16, <1>17, ElementOfSeq
<1> QED
  BY <1>16, <1>17, <1>18 DEF FoundIn

\* The ends of a session.
LEMMA SessionEnds ==
    ASSUME NEW s \in Seq(AllPairs), Follows(s)
    PROVE  /\ Len(s) \in Nat /\ Len(s) >= 1 /\ Last(s) = s[Len(s)]
           /\ s[1].from \in Int /\ End(Last(s)) \in Int /\ s[1].from < End(Last(s))
           /\ \A i \in 1 .. Len(s) : s[i].from \in Int /\ End(s[i]) \in Int /\ s[i].from <= End(s[i])
<1>1. Len(s) \in Nat /\ s # <<>> /\ s[1].from < End(Last(s))
  BY LenProperties DEF Follows
<1>2. Len(s) >= 1 /\ Last(s) = s[Len(s)]
  BY <1>1, EmptySeq DEF Last
<1>3. ASSUME NEW i \in 1 .. Len(s) PROVE s[i].from \in Int /\ End(s[i]) \in Int /\ s[i].from <= End(s[i])
  <2>1. s[i] \in AllPairs
    BY ElementOfSeq
  <2>2. s[i].from \in Int /\ s[i].seconds \in Nat
    BY <2>1, PairType
  <2> QED
    BY <2>2 DEF End
<1> QED
  BY <1>1, <1>2, <1>3

\* The pairs of a session lie between its ends.
LEMMA SessionSpans ==
    ASSUME NEW s \in Seq(AllPairs), Follows(s), NEW i \in 1 .. Len(s)
    PROVE  s[1].from <= s[i].from /\ End(s[i]) <= End(Last(s))
<1> DEFINE n == Len(s)
<1>1. /\ n \in Nat /\ n >= 1 /\ Last(s) = s[n] /\ s[1].from \in Int
      /\ \A k \in 1 .. n : s[k].from \in Int /\ End(s[k]) \in Int /\ s[k].from <= End(s[k])
  BY SessionEnds
<1>2. \A k \in 1 .. n - 1 : End(s[k]) = s[k + 1].from
  BY DEF Follows
<1>3. i \in 1 .. n
  OBVIOUS
<1> HIDE DEF n
<1> DEFINE T == {k \in Nat : k + 1 <= n => s[1].from <= s[k + 1].from}
           U == {k \in Nat : k < n => End(s[n - k]) <= End(s[n])}
<1>4. 0 \in T
  BY <1>1
<1>5. ASSUME NEW k \in Nat, k \in T PROVE k + 1 \in T
  <2> SUFFICES ASSUME k + 1 + 1 <= n PROVE s[1].from <= s[k + 1 + 1].from
    OBVIOUS
  <2>1. PICK l \in 1 .. n : l = k + 1
    BY <1>1
  <2>2. l \in 1 .. n - 1 /\ l + 1 \in 1 .. n
    BY <1>1, <2>1
  <2>3. s[1].from <= s[l].from
    BY <1>1, <1>5, <2>1
  <2>4. End(s[l]) = s[l + 1].from /\ s[l].from <= End(s[l]) /\ s[l].from \in Int /\ s[l + 1].from \in Int
    BY <1>1, <1>2, <2>2
  <2> QED
    BY <1>1, <2>1, <2>3, <2>4
<1>6. 0 \in U
  BY <1>1
<1>7. ASSUME NEW k \in Nat, k \in U PROVE k + 1 \in U
  <2> SUFFICES ASSUME k + 1 < n PROVE End(s[n - (k + 1)]) <= End(s[n])
    OBVIOUS
  <2>1. PICK l \in 1 .. n - 1 : l = n - (k + 1)
    BY <1>1
  <2>2. l \in 1 .. n /\ l + 1 \in 1 .. n /\ n - k = l + 1 /\ n \in 1 .. n
    BY <1>1, <2>1
  <2>3. End(s[l + 1]) <= End(s[n])
    BY <1>7, <2>2
  <2>4. /\ End(s[l]) = s[l + 1].from /\ s[l + 1].from <= End(s[l + 1])
        /\ s[l + 1].from \in Int /\ End(s[l + 1]) \in Int /\ End(s[n]) \in Int
    BY <1>1, <1>2, <2>1, <2>2
  <2> QED
    BY <2>1, <2>3, <2>4
<1> HIDE DEF T, U
<1>8. (\A k \in Nat : k \in T) /\ (\A k \in Nat : k \in U)
  BY <1>4, <1>5, <1>6, <1>7, NatSetInduction
<1>9. s[1].from <= s[i].from
  <2>1. PICK k \in Nat : i = k + 1
    <3>1. i - 1 \in Nat /\ i = (i - 1) + 1
      BY <1>1, <1>3
    <3> QED
      BY <3>1
  <2>2. k \in T /\ k + 1 <= n
    BY <1>1, <1>3, <1>8, <2>1
  <2> QED
    BY <2>1, <2>2 DEF T
<1>10. End(s[i]) <= End(s[n])
  <2>1. PICK k \in Nat : i = n - k /\ k < n
    <3>1. n - i \in Nat /\ i = n - (n - i) /\ n - i < n
      BY <1>1, <1>3
    <3> QED
      BY <3>1
  <2>2. k \in U
    BY <1>8
  <2> QED
    BY <2>1, <2>2 DEF U
<1> QED
  BY <1>1, <1>9, <1>10

\* An instant at which a pair of the session is at an edge lies between its ends.
LEMMA MeetsInside ==
    ASSUME NEW s \in Seq(AllPairs), Follows(s), NEW t \in Int, NEW e, MeetsAt(s, t, e)
    PROVE  s[1].from <= t /\ t <= End(Last(s))
<1>1. PICK i \in 1 .. Len(s) : s[i].from <= t /\ t <= End(s[i])
  BY LenProperties DEF MeetsAt
<1>2. s[1].from <= s[i].from /\ End(s[i]) <= End(Last(s))
  BY SessionSpans
<1>3. s[1].from \in Int /\ End(Last(s)) \in Int /\ s[i].from \in Int /\ End(s[i]) \in Int
  BY SessionEnds
<1> QED
  BY <1>1, <1>2, <1>3

\* There is no sample at first.
LEMMA SamplesInvInit == StatisticsInit => SamplesInv
<1> SUFFICES ASSUME StatisticsInit PROVE SamplesInv
  OBVIOUS
<1>1. candidates \in Seq(Seq(AllPairs))
  <2>1. CASE candidates = <<>>
    BY <2>1
  <2>2. CASE candidates \in Candidates
    BY <2>2, StatisticsAssumption
  <2> QED
    BY <2>1, <2>2 DEF StatisticsInit
<1>2. samples = <<>> /\ samples \in Seq(Sample) /\ Len(samples) = 0
  BY DEF StatisticsInit
<1> QED
  BY <1>1, <1>2 DEF SamplesInv

\* A session that is added begins where or after the last one ended.
LEMMA SamplesInvCompare == SamplesInv /\ Compare => SamplesInv'
<1> SUFFICES ASSUME SamplesInv, Compare PROVE SamplesInv'
  OBVIOUS
<1> DEFINE s == Head(candidates)
           n == Len(samples)
           overlaps == samples # <<>> /\ s[1].from < End(Last(Last(samples).session))
           r == CrossingRange(s)
           m == [lower |-> r[1], upper |-> r[2], session |-> s]
           adds == Complete(s) /\ ~overlaps /\ r # <<>>
<1>1. /\ candidates \in Seq(Seq(AllPairs)) /\ candidates # <<>> /\ samples \in Seq(Sample)
      /\ \A i \in 1 .. n : /\ SampleFits(samples[i])
                           /\ \A j \in 1 .. i - 1 : End(Last(samples[j].session)) <= samples[i].session[1].from
  BY DEF SamplesInv, Compare
<1>2. s \in Seq(AllPairs) /\ Tail(candidates) \in Seq(Seq(AllPairs)) /\ n \in Nat
  BY <1>1, HeadTailProperties, LenProperties
<1>3. /\ samples' = IF adds THEN Append(samples, m) ELSE samples
      /\ candidates' = Tail(candidates)
  BY Zenon DEF Compare
<1>4. adds <=> Complete(s) /\ ~overlaps /\ r # <<>>
  OBVIOUS
<1>5. CASE ~adds
  <2>1. samples' = samples
    BY <1>3, <1>5
  <2> QED
    BY <1>1, <1>2, <1>3, <2>1 DEF SamplesInv
<1>6. CASE adds
  <2>1. Follows(s)
    BY <1>6 DEF Complete, Follows
  <2>2. r[1] \in Int /\ r[2] \in Int /\ r[1] < r[2] /\ MeetsAt(s, r[1], 20) /\ MeetsAt(s, r[2], 80)
    BY <1>2, <1>6, RangeFound
  <2>3. samples # <<>> => ~(s[1].from < End(Last(Last(samples).session)))
    BY <1>6
  <2>4. samples' = Append(samples, m)
    BY <1>3, <1>6
  <2> HIDE DEF s, r, adds
  <2>5. m \in Sample /\ SampleFits(m) /\ m.session = s
    BY <1>2, <2>1, <2>2 DEF Sample, SampleFits
  <2> HIDE DEF m
  <2>6. /\ Append(samples, m) \in Seq(Sample) /\ Len(Append(samples, m)) = n + 1
        /\ \A i \in 1 .. n : Append(samples, m)[i] = samples[i]
        /\ Append(samples, m)[n + 1] = m
    BY <1>1, <2>5, AppendProperties
  <2>7. ASSUME NEW j \in 1 .. n PROVE End(Last(samples[j].session)) <= s[1].from
    <3>1. \A i \in 1 .. n : samples[i].session \in Seq(AllPairs) /\ Follows(samples[i].session)
      BY <1>1 DEF SampleFits, Sample
    <3>2. \A i \in 1 .. n : /\ samples[i].session[1].from \in Int /\ End(Last(samples[i].session)) \in Int
                            /\ samples[i].session[1].from < End(Last(samples[i].session))
      BY <3>1, SessionEnds
    <3>3. s[1].from \in Int
      BY <1>2, <2>1, SessionEnds
    <3>4. n \in 1 .. n /\ samples # <<>> /\ Last(samples) = samples[n]
      BY <1>2 DEF Last
    <3>5. End(Last(samples[n].session)) <= s[1].from
      BY <2>3, <3>2, <3>3, <3>4
    <3>6. CASE j = n
      BY <3>5, <3>6
    <3>7. CASE j # n
      <4>1. j \in 1 .. n - 1
        BY <1>2, <3>7
      <4>2. End(Last(samples[j].session)) <= samples[n].session[1].from
        BY <1>1, <3>4, <4>1
      <4> QED
        BY <3>2, <3>3, <3>4, <3>5, <4>2
    <3> QED
      BY <3>6, <3>7
  <2> DEFINE new == Append(samples, m)
  <2>8. ASSUME NEW i \in 1 .. n + 1
        PROVE  /\ SampleFits(new[i])
               /\ \A j \in 1 .. i - 1 : End(Last(new[j].session)) <= new[i].session[1].from
    <3> HIDE DEF new
    <3>1. CASE i = n + 1
      <4>1. new[i] = m /\ \A j \in 1 .. i - 1 : j \in 1 .. n /\ new[j] = samples[j]
        BY <1>2, <2>6, <3>1 DEF new
      <4> QED
        BY <2>5, <2>7, <4>1
    <3>2. CASE i # n + 1
      <4>1. i \in 1 .. n
        BY <1>2, <3>2
      <4>2. new[i] = samples[i] /\ \A j \in 1 .. i - 1 : j \in 1 .. n /\ new[j] = samples[j]
        BY <1>2, <2>6, <4>1 DEF new
      <4> QED
        BY <1>1, <4>1, <4>2
    <3> QED
      BY <3>1, <3>2
  <2> HIDE DEF new
  <2>9. samples' = new /\ new \in Seq(Sample) /\ Len(new) = n + 1
    BY <2>4, <2>6 DEF new
  <2> QED
    BY <1>2, <1>3, <2>8, <2>9 DEF SamplesInv
<1> QED
  BY <1>5, <1>6

\* Every step keeps the samples apart.
LEMMA SamplesInvNext == SamplesInv /\ [StatisticsNext]_statisticsVars => SamplesInv'
<1>1. ASSUME SamplesInv, UNCHANGED <<candidates, samples>> PROVE SamplesInv'
  BY <1>1 DEF SamplesInv
<1>2. SamplesInv /\ Slice => SamplesInv'
  BY <1>1 DEF Slice
<1>3. SamplesInv /\ SecondPass => SamplesInv'
  BY <1>1 DEF SecondPass
<1>4. SamplesInv /\ Compare => SamplesInv'
  BY SamplesInvCompare
<1>5. SamplesInv /\ UNCHANGED statisticsVars => SamplesInv'
  BY <1>1 DEF statisticsVars
<1> QED
  BY <1>2, <1>3, <1>4, <1>5 DEF StatisticsNext

-----------------------------------------------------------------------------
(* The box plot of the samples' lengths.                                   *)

\* The values are in ascending order.
Sorted(w) == \A i, j \in 1 .. Len(w) : i < j => w[i] <= w[j]

\* A value inserted before the first greater one leaves a sorted sequence sorted.
LEMMA InsertSorted ==
    ASSUME NEW w \in Seq(Int), Sorted(w), NEW v \in Int
    PROVE  LET new == InsertValue(w, v)
           IN  new \in Seq(Int) /\ Len(new) = Len(w) + 1 /\ Sorted(new)
<1> DEFINE n == Len(w)
           T == {i \in DOMAIN w : w[i] > v}
           k == IF T = {} THEN n + 1 ELSE Min(T)
           new == InsertAt(w, k, v)
<1>1. /\ n \in Nat /\ DOMAIN w = 1 .. n /\ \A i \in 1 .. n : w[i] \in Int
      /\ \A i, j \in 1 .. n : i < j => w[i] <= w[j]
  BY LenProperties, ElementOfSeq DEF Sorted
<1>2. InsertValue(w, v) = new
  BY DEF InsertValue
<1>3. T \subseteq Nat /\ \A i : i \in T <=> i \in 1 .. n /\ w[i] > v
  BY <1>1
<1> HIDE DEF T, new
<1>4. k \in 1 .. n + 1 /\ \A i \in 1 .. k - 1 : w[i] <= v
  <2>1. CASE T = {}
    <3>1. k = n + 1
      BY <2>1
    <3>2. \A i \in 1 .. n : w[i] <= v
      BY <1>1, <1>3, <2>1
    <3> QED
      BY <1>1, <3>1, <3>2
  <2>2. CASE T # {}
    <3>1. k = Min(T)
      BY <2>2
    <3>2. k \in T /\ \A i \in T : k <= i
      BY <1>3, <2>2, <3>1, MinOf
    <3> HIDE DEF k
    <3>3. k \in 1 .. n
      BY <1>3, <3>2
    <3>4. ASSUME NEW i \in 1 .. k - 1 PROVE w[i] <= v
      <4>1. i \in 1 .. n /\ ~ (k <= i)
        BY <1>1, <3>3
      <4> QED
        BY <1>1, <1>3, <3>2, <4>1
    <3> QED
      BY <1>1, <3>3, <3>4
  <2> QED
    BY <2>1, <2>2
<1>5. k # n + 1 => w[k] > v
  <2> SUFFICES ASSUME k # n + 1 PROVE w[k] > v
    OBVIOUS
  <2>1. T # {} /\ k = Min(T)
    OBVIOUS
  <2>2. k \in T
    BY <1>3, <2>1, MinOf
  <2> QED
    BY <1>3, <2>2
<1> HIDE DEF k
<1>6. /\ new \in Seq(Int) /\ Len(new) = n + 1 /\ new[k] = v
      /\ \A j \in 1 .. k - 1 : new[j] = w[j]
      /\ \A j \in k + 1 .. n + 1 : new[j] = w[j - 1]
  <2>1. PICK Z : Z = Int
    OBVIOUS
  <2>2. w \in Seq(Z) /\ v \in Z /\ k \in 1 .. Len(w) + 1
    BY <1>4, <2>1
  <2>3. LET list == InsertAt(w, k, v) IN
        /\ list \in Seq(Z) /\ Len(list) = Len(w) + 1 /\ list[k] = v
        /\ \A j \in 1 .. k - 1 : list[j] = w[j]
        /\ \A j \in k + 1 .. Len(w) + 1 : list[j] = w[j - 1]
    BY <2>2, InsertedAt
  <2> QED
    BY <2>1, <2>3 DEF new
<1> HIDE DEF n
<1>7. ASSUME NEW i \in 1 .. n + 1, NEW j \in 1 .. n + 1, i < j PROVE new[i] <= new[j]
  <2>1. CASE j <= k - 1
    <3>1. i \in 1 .. k - 1 /\ j \in 1 .. k - 1 /\ i \in 1 .. n /\ j \in 1 .. n
      BY <1>1, <1>4, <1>7, <2>1
    <3> QED
      BY <1>1, <1>6, <1>7, <3>1
  <2>2. CASE j = k
    <3>1. i \in 1 .. k - 1
      BY <1>1, <1>4, <1>7, <2>2
    <3> QED
      BY <1>4, <1>6, <2>2, <3>1
  <2>3. CASE j >= k + 1
    <3>1. j \in k + 1 .. n + 1 /\ j - 1 \in 1 .. n /\ k \in 1 .. n
      BY <1>1, <1>4, <1>7, <2>3
    <3>2. new[j] = w[j - 1] /\ w[j - 1] \in Int /\ w[k] \in Int
      BY <1>1, <1>6, <3>1
    <3>3. w[k] <= w[j - 1]
      <4>1. CASE k = j - 1
        BY <3>2, <4>1
      <4>2. CASE k < j - 1
        BY <1>1, <3>1, <4>2
      <4> QED
        BY <3>1, <4>1, <4>2
    <3>4. v < w[k]
      BY <1>1, <1>5, <3>1
    <3>5. CASE i = k
      BY <1>6, <3>2, <3>3, <3>4, <3>5
    <3>6. CASE i <= k - 1
      <4>1. i \in 1 .. k - 1 /\ i \in 1 .. n
        BY <1>1, <1>4, <3>6
      <4>2. new[i] = w[i] /\ w[i] <= v /\ w[i] \in Int
        BY <1>1, <1>4, <1>6, <4>1
      <4> QED
        BY <3>2, <3>3, <3>4, <4>2
    <3>7. CASE i >= k + 1
      <4>1. i \in k + 1 .. n + 1 /\ i - 1 \in 1 .. n /\ i - 1 < j - 1
        BY <1>1, <1>4, <1>7, <3>7
      <4> QED
        BY <1>1, <1>6, <3>1, <3>2, <4>1
    <3> QED
      BY <1>4, <3>5, <3>6, <3>7
  <2> QED
    BY <1>4, <2>1, <2>2, <2>3
<1> QED
  BY <1>2, <1>6, <1>7 DEF n, Sorted

\* Inserting one value after the other sorts them.
LEMMA AscendingSorted ==
    ASSUME NEW lengths \in Seq(Int)
    PROVE  /\ Ascending(lengths) \in Seq(Int) /\ Len(Ascending(lengths)) = Len(lengths)
           /\ Sorted(Ascending(lengths))
<1> DEFINE n == Len(lengths)
           S == {w \in Seq(Int) : Sorted(w)}
           move == [k \in 1 .. n |-> [w \in S |-> InsertValue(w, lengths[k])]]
           f == CHOOSE f : f = [k \in 0 .. n |-> IF k = 0 THEN <<>> ELSE InsertValue(f[k - 1], lengths[k])]
<1>1. Ascending(lengths) = f[n]
  BY Zenon DEF Ascending
<1>2. n \in Nat /\ \A k \in 1 .. n : lengths[k] \in Int
  BY LenProperties, ElementOfSeq
<1>3. <<>> \in S /\ Len(<<>>) = 0
  BY DEF Sorted
<1>4. \A k \in 1 .. n, w \in S :
        InsertValue(w, lengths[k]) \in S /\ Len(InsertValue(w, lengths[k])) = Len(w) + 1
  BY <1>2, InsertSorted
<1>5. \A k \in 1 .. n : \A w \in S : move[k][w] = InsertValue(w, lengths[k])
  OBVIOUS
<1>6. move \in StepsOn(S, n)
  BY <1>4 DEF StepsOn
<1> HIDE DEF n, S, move
<1>7. PICK g \in [0 .. n -> S] : g[0] = <<>> /\ \A k \in 1 .. n : g[k] = move[k][g[k - 1]]
  BY <1>2, <1>3, <1>6, StepsExist
<1>8. ASSUME NEW k \in 0 .. n PROVE g[k] = IF k = 0 THEN <<>> ELSE InsertValue(g[k - 1], lengths[k])
  <2>1. CASE k # 0
    <3>1. k \in 1 .. n /\ k - 1 \in 0 .. n
      BY <1>2, <2>1
    <3>2. g[k - 1] \in S
      BY <3>1
    <3> QED
      BY <1>5, <1>7, <2>1, <3>1, <3>2
  <2> QED
    BY <1>7, <2>1
<1>9. g = [k \in 0 .. n |-> IF k = 0 THEN <<>> ELSE InsertValue(g[k - 1], lengths[k])]
  BY <1>8
<1>10. f = [k \in 0 .. n |-> IF k = 0 THEN <<>> ELSE InsertValue(f[k - 1], lengths[k])]
  BY <1>9, Zenon
<1> HIDE DEF f
<1>11. f[0] = <<>> /\ \A k \in 1 .. n : f[k] = InsertValue(f[k - 1], lengths[k])
  BY <1>2, <1>10
<1> DEFINE T == {k \in Nat : k <= n => f[k] \in S /\ Len(f[k]) = k}
<1>12. 0 \in T
  BY <1>3, <1>11
<1>13. ASSUME NEW k \in Nat, k \in T PROVE k + 1 \in T
  <2> SUFFICES ASSUME k + 1 <= n PROVE f[k + 1] \in S /\ Len(f[k + 1]) = k + 1
    OBVIOUS
  <2>1. k + 1 \in 1 .. n /\ (k + 1) - 1 = k /\ f[k] \in S /\ Len(f[k]) = k
    BY <1>2, <1>13
  <2>2. f[k + 1] = InsertValue(f[k], lengths[k + 1])
    BY <1>11, <2>1
  <2> QED
    BY <1>4, <2>1, <2>2
<1> HIDE DEF T
<1>14. n \in T
  BY <1>2, <1>12, <1>13, NatSetInduction
<1>15. f[n] \in S /\ Len(f[n]) = n
  BY <1>2, <1>14 DEF T
<1> QED
  BY <1>1, <1>15 DEF S, n

\* The median of sorted values lies between the first and the last, and, when there are more
\* than one, between the two values in the middle.
LEMMA MedianBetween ==
    ASSUME NEW w \in Seq(Int), Sorted(w), Len(w) >= 1
    PROVE  LET n == Len(w)  h == n \div 2
           IN  /\ Median(w) \in Int /\ 2 * w[1] <= Median(w) /\ Median(w) <= 2 * w[n]
               /\ h \in Nat /\ h <= n /\ (n >= 2 => h >= 1) /\ (n >= 3 => 2 * h <= n /\ n <= 2 * h + 1)
               /\ n >= 2 => 2 * w[h] <= Median(w) /\ Median(w) <= 2 * w[n - h + 1]
<1> DEFINE n == Len(w)
           h == n \div 2
<1>1. /\ n \in Nat /\ \A i \in 1 .. n : w[i] \in Int
      /\ \A i, j \in 1 .. n : i < j => w[i] <= w[j]
  BY LenProperties, ElementOfSeq DEF Sorted
<1>2. \A i, j \in 1 .. n : i <= j => w[i] <= w[j]
  BY <1>1
<1>3. Median(w) = IF n % 2 = 1 THEN 2 * w[h + 1] ELSE w[h] + w[h + 1]
  BY DEF Median
<1>4. n >= 1
  OBVIOUS
<1> HIDE DEF n
<1>5. h \in Nat /\ (n % 2 = 1 => n = 2 * h + 1) /\ (n % 2 # 1 => n = 2 * h)
  BY <1>1
<1> HIDE DEF h
<1>6. CASE n % 2 = 1
  <2>1. n = 2 * h + 1 /\ Median(w) = 2 * w[h + 1] /\ h + 1 \in 1 .. n /\ 1 \in 1 .. n /\ n \in 1 .. n
    BY <1>1, <1>3, <1>4, <1>5, <1>6
  <2>2. w[1] <= w[h + 1] /\ w[h + 1] <= w[n] /\ w[1] \in Int /\ w[h + 1] \in Int /\ w[n] \in Int
    BY <1>1, <1>2, <2>1
  <2>3. n >= 2 => 2 * w[h] <= Median(w) /\ Median(w) <= 2 * w[n - h + 1]
    <3> SUFFICES ASSUME n >= 2 PROVE 2 * w[h] <= Median(w) /\ Median(w) <= 2 * w[n - h + 1]
      OBVIOUS
    <3>1. h \in 1 .. n /\ n - h + 1 \in 1 .. n /\ h <= h + 1 /\ h + 1 <= n - h + 1
      <4>1. n - h + 1 = h + 2 /\ h >= 1
        BY <1>1, <1>5, <2>1
      <4> QED
        BY <1>1, <1>5, <2>1, <4>1
    <3>2. w[h] <= w[h + 1] /\ w[h + 1] <= w[n - h + 1] /\ w[h] \in Int /\ w[n - h + 1] \in Int
      BY <1>1, <1>2, <2>1, <3>1
    <3>3. PICK x \in Int, y \in Int, z \in Int : x = w[h] /\ y = w[h + 1] /\ z = w[n - h + 1]
      BY <2>2, <3>2
    <3>4. x <= y /\ y <= z /\ Median(w) = 2 * y
      BY <2>1, <3>2, <3>3
    <3>5. 2 * x <= Median(w) /\ Median(w) <= 2 * z
      BY <3>4
    <3> QED
      BY <3>3, <3>5
  <2>4. Median(w) \in Int /\ 2 * w[1] <= Median(w) /\ Median(w) <= 2 * w[n]
    BY <2>1, <2>2
  <2>5. h \in Nat /\ h <= n /\ (n >= 2 => h >= 1) /\ (n >= 3 => 2 * h <= n /\ n <= 2 * h + 1)
    BY <1>1, <1>5, <2>1
  <2> QED
    BY <2>3, <2>4, <2>5 DEF n, h
<1>7. CASE n % 2 # 1
  <2>1. /\ n = 2 * h /\ Median(w) = w[h] + w[h + 1] /\ h \in 1 .. n /\ h + 1 \in 1 .. n
        /\ 1 \in 1 .. n /\ n \in 1 .. n /\ n - h + 1 = h + 1
    BY <1>1, <1>3, <1>4, <1>5, <1>7
  <2>2. /\ w[1] <= w[h] /\ w[h] <= w[h + 1] /\ w[h + 1] <= w[n]
        /\ w[1] \in Int /\ w[h] \in Int /\ w[h + 1] \in Int /\ w[n] \in Int
    BY <1>1, <1>2, <2>1
  <2>3. Median(w) \in Int /\ 2 * w[1] <= Median(w) /\ Median(w) <= 2 * w[n]
    <3>1. PICK a \in Int, x \in Int, y \in Int, z \in Int : a = w[1] /\ x = w[h] /\ y = w[h + 1] /\ z = w[n]
      BY <2>2
    <3>2. a <= x /\ x <= y /\ y <= z /\ Median(w) = x + y
      BY <2>1, <2>2, <3>1
    <3>3. Median(w) \in Int /\ 2 * a <= Median(w) /\ Median(w) <= 2 * z
      BY <3>2
    <3> QED
      BY <3>1, <3>3
  <2>4. 2 * w[h] <= Median(w) /\ Median(w) <= 2 * w[n - h + 1]
    <3>1. PICK x \in Int, y \in Int : x = w[h] /\ y = w[h + 1]
      BY <2>2
    <3>2. x <= y /\ Median(w) = x + y /\ w[n - h + 1] = y
      BY <2>1, <2>2, <3>1
    <3>3. 2 * x <= Median(w) /\ Median(w) <= 2 * y
      BY <3>2
    <3> QED
      BY <3>1, <3>2, <3>3
  <2>5. h \in Nat /\ h <= n /\ (n >= 2 => h >= 1) /\ (n >= 3 => 2 * h <= n /\ n <= 2 * h + 1)
    BY <1>1, <1>5, <2>1
  <2> QED
    BY <2>3, <2>4, <2>5 DEF n, h
<1> QED
  BY <1>6, <1>7

\* The numbers of a box plot are in order.
LEMMA QuantilesOrdered ==
    ASSUME NEW w \in Seq(Int), Sorted(w), Len(w) >= 1
    PROVE  LET q == Quantiles(w) IN
           /\ q.minimum <= q.median /\ q.median <= q.maximum
           /\ Len(w) >= 3 => /\ q.minimum <= q.box[1] /\ q.box[1] <= q.median
                             /\ q.median <= q.box[2] /\ q.box[2] <= q.maximum
<1> DEFINE n == Len(w)
           h == n \div 2
           below == SubSeq(w, 1, h)
           above == SubSeq(w, n - h + 1, n)
           q == Quantiles(w)
<1>1. /\ n \in Nat /\ n >= 1 /\ DOMAIN w = 1 .. n
      /\ \A i, j \in 1 .. n : i < j => w[i] <= w[j]
  BY LenProperties DEF Sorted
<1>2. /\ Median(w) \in Int /\ 2 * w[1] <= Median(w) /\ Median(w) <= 2 * w[n]
      /\ h \in Nat /\ h <= n /\ (n >= 2 => h >= 1) /\ (n >= 3 => 2 * h <= n /\ n <= 2 * h + 1)
      /\ n >= 2 => 2 * w[h] <= Median(w) /\ Median(w) <= 2 * w[n - h + 1]
  BY MedianBetween
<1>3. /\ q.median = Median(w) /\ q.minimum = 2 * w[1] /\ q.maximum = 2 * w[n]
      /\ n >= 3 => q.box = <<Median(below), Median(above)>>
  <2>1. ~(n < 3) <=> n >= 3
    BY <1>1
  <2> QED
    BY <1>1, <2>1 DEF Quantiles
<1> HIDE DEF q, h, n
<1>4. ASSUME n >= 3
      PROVE  /\ q.minimum <= q.box[1] /\ q.box[1] <= q.median
             /\ q.median <= q.box[2] /\ q.box[2] <= q.maximum
  <2>1. h \in 1 .. n /\ h >= 1 /\ n - h + 1 \in 1 .. n /\ h <= n - h + 1
    BY <1>1, <1>2, <1>4
  <2> DEFINE l == n - h + 1
  <2>2. l \in 1 .. n /\ l = n - h + 1 /\ n - l + 1 = h
    BY <1>1, <1>2, <2>1
  <2>3. /\ below \in Seq(Int) /\ Len(below) = h /\ \A i \in 1 .. h : below[i] = w[i]
    <3>1. \A i \in 1 .. h : w[i] \in Int
      BY <1>1, <2>1, ElementOfSeq DEF n
    <3>2. 1 \in Nat /\ h \in Nat /\ h >= 1 /\ h <= Len(w)
      BY <1>1, <1>2, <2>1 DEF n
    <3>3. /\ SubSeq(w, 1, h) \in Seq(Int) /\ Len(SubSeq(w, 1, h)) = h - 1 + 1
          /\ \A i \in 1 .. h - 1 + 1 : SubSeq(w, 1, h)[i] = w[1 + i - 1]
      BY <3>1, <3>2, SubSeqProperties
    <3>4. h - 1 + 1 = h /\ \A i \in 1 .. h : 1 + i - 1 = i
      BY <3>2
    <3> QED
      BY <3>3, <3>4
  <2>4. /\ above \in Seq(Int) /\ Len(above) = h /\ \A i \in 1 .. h : above[i] = w[l + i - 1]
    <3>1. \A i \in l .. n : w[i] \in Int
      BY <1>1, <2>2, ElementOfSeq DEF n
    <3>2. l \in Nat /\ n \in Nat /\ l >= 1 /\ n <= Len(w) /\ l <= n
      BY <1>1, <2>2 DEF n
    <3>3. /\ SubSeq(w, l, n) \in Seq(Int) /\ Len(SubSeq(w, l, n)) = n - l + 1
          /\ \A i \in 1 .. n - l + 1 : SubSeq(w, l, n)[i] = w[l + i - 1]
      <4> HIDE DEF l
      <4> QED
        BY <3>1, <3>2, SubSeqProperties
    <3> QED
      BY <2>2, <3>3
  <2> HIDE DEF below, above
  <2>5. Sorted(below)
    <3>1. \A i \in 1 .. h : i \in 1 .. n
      BY <1>1, <2>1
    <3> QED
      BY <1>1, <2>3, <3>1 DEF Sorted
  <2>6. Sorted(above)
    <3>1. \A i \in 1 .. h : l + i - 1 \in 1 .. n
      BY <1>1, <2>1, <2>2
    <3>2. \A i, j \in 1 .. h : i < j => l + i - 1 < l + j - 1
      BY <2>1, <2>2
    <3> HIDE DEF l
    <3> QED
      BY <1>1, <2>4, <3>1, <3>2 DEF Sorted
  <2>7. Median(below) \in Int /\ 2 * below[1] <= Median(below) /\ Median(below) <= 2 * below[h]
    BY <2>1, <2>3, <2>5, MedianBetween
  <2>8. Median(above) \in Int /\ 2 * above[1] <= Median(above) /\ Median(above) <= 2 * above[h]
    BY <2>1, <2>4, <2>6, MedianBetween
  <2>9. below[1] = w[1] /\ below[h] = w[h] /\ above[1] = w[l] /\ above[h] = w[n]
    <3>1. 1 \in 1 .. h /\ h \in 1 .. h /\ l + 1 - 1 = l /\ l + h - 1 = n
      BY <1>1, <2>1, <2>2
    <3> HIDE DEF l
    <3> QED
      BY <2>3, <2>4, <3>1
  <2>10. /\ w[1] \in Int /\ w[h] \in Int /\ w[l] \in Int /\ w[n] \in Int
    <3>1. 1 \in 1 .. n /\ n \in 1 .. n
      BY <1>1
    <3> HIDE DEF l
    <3> QED
      BY <2>1, <2>2, <3>1, ElementOfSeq DEF n
  <2>11. 2 * w[h] <= Median(w) /\ Median(w) <= 2 * w[l]
    BY <1>1, <1>2, <1>4
  <2>12. q.box[1] = Median(below) /\ q.box[2] = Median(above)
    BY <1>3, <1>4 DEF below, above
  <2> HIDE DEF l
  <2>13. PICK a \in Int, b \in Int, c \in Int, d \in Int : a = w[1] /\ b = w[h] /\ c = w[l] /\ d = w[n]
    BY <2>10
  <2>14. /\ 2 * a <= Median(below) /\ Median(below) <= 2 * b /\ 2 * b <= Median(w)
         /\ Median(w) <= 2 * c /\ 2 * c <= Median(above) /\ Median(above) <= 2 * d
    BY <2>7, <2>8, <2>9, <2>11, <2>13
  <2>15. /\ 2 * a <= Median(below) /\ Median(below) <= Median(w)
         /\ Median(w) <= Median(above) /\ Median(above) <= 2 * d
    BY <1>2, <2>7, <2>8, <2>14
  <2> QED
    BY <1>3, <2>12, <2>13, <2>15
<1>5. q.minimum <= q.median /\ q.median <= q.maximum
  BY <1>2, <1>3
<1> QED
  BY <1>4, <1>5 DEF q, n

\* The samples are ordered, each within a session of its own.
LEMMA SamplesInvOrdered == SamplesInv => SamplesOrdered
<1> SUFFICES ASSUME SamplesInv PROVE SamplesOrdered
  OBVIOUS
<1> DEFINE n == Len(samples)
           lengths == [i \in DOMAIN samples |-> samples[i].upper - samples[i].lower]
           sorted == Ascending(lengths)
<1>1. /\ n \in Nat /\ DOMAIN samples = 1 .. n /\ samples \in Seq(Sample)
      /\ \A i \in 1 .. n : SampleFits(samples[i])
      /\ \A i \in 1 .. n : \A j \in 1 .. i - 1 : End(Last(samples[j].session)) <= samples[i].session[1].from
  BY LenProperties DEF SamplesInv
<1>2. ASSUME NEW i \in 1 .. n
      PROVE  LET m == samples[i] IN
             /\ m.lower \in Int /\ m.upper \in Int /\ m.lower < m.upper
             /\ MeetsAt(m.session, m.lower, 20) /\ MeetsAt(m.session, m.upper, 80)
             /\ m.session[1].from \in Int /\ End(Last(m.session)) \in Int
             /\ m.session[1].from <= m.lower /\ m.upper <= End(Last(m.session))
  <2> DEFINE m == samples[i]
  <2>1. SampleFits(m)
    BY <1>1
  <2> HIDE DEF m
  <2>2. /\ m.lower \in Int /\ m.upper \in Int /\ m.session \in Seq(AllPairs) /\ Follows(m.session)
        /\ m.lower < m.upper /\ MeetsAt(m.session, m.lower, 20) /\ MeetsAt(m.session, m.upper, 80)
    BY <2>1 DEF SampleFits, Sample
  <2>3. m.session[1].from \in Int /\ End(Last(m.session)) \in Int
    BY <2>2, SessionEnds
  <2>4. m.session[1].from <= m.lower /\ m.upper <= End(Last(m.session))
    BY <2>2, MeetsInside
  <2> QED
    BY <2>2, <2>3, <2>4 DEF m
<1>3. ASSUME NEW i \in 1 .. n, NEW j \in 1 .. i - 1 PROVE samples[j].upper <= samples[i].lower
  <2>1. j \in 1 .. n /\ End(Last(samples[j].session)) <= samples[i].session[1].from
    BY <1>1
  <2> QED
    BY <1>2, <2>1
<1> HIDE DEF n
<1>4. lengths \in Seq(Int) /\ Len(lengths) = n
  <2>1. lengths = [i \in 1 .. n |-> samples[i].upper - samples[i].lower]
    BY <1>1
  <2>2. \A i \in 1 .. n : samples[i].upper - samples[i].lower \in Int
    BY <1>2
  <2>3. lengths \in [1 .. n -> Int]
    BY <2>1, <2>2
  <2> HIDE DEF lengths
  <2> QED
    BY <1>1, <2>3, LenProperties, IsASeq
<1> HIDE DEF lengths
<1>5. sorted \in Seq(Int) /\ Len(sorted) = n /\ Sorted(sorted)
  BY <1>4, AscendingSorted
<1> HIDE DEF sorted
<1>6. ASSUME samples # <<>>
      PROVE  LET q == Quantiles(sorted) IN
             /\ q.minimum <= q.median /\ q.median <= q.maximum
             /\ n >= 3 => /\ q.minimum <= q.box[1] /\ q.box[1] <= q.median
                          /\ q.median <= q.box[2] /\ q.box[2] <= q.maximum
  <2>1. n >= 1
    BY <1>1, <1>6, EmptySeq DEF n
  <2> QED
    BY <1>5, <2>1, QuantilesOrdered
<1>7. \A i \in DOMAIN samples :
        /\ samples[i].lower < samples[i].upper
        /\ MeetsAt(samples[i].session, samples[i].lower, 20)
        /\ MeetsAt(samples[i].session, samples[i].upper, 80)
        /\ \A j \in 1..(i - 1) : samples[j].upper <= samples[i].lower
  BY <1>1, <1>2, <1>3
<1> QED
  BY <1>6, <1>7 DEF SamplesOrdered, sorted, lengths, n

-----------------------------------------------------------------------------
(* The theorems about the history statistics.                              *)

\* Both reports.
StatisticsInv == DwellInv /\ SamplesInv

\* The two inductive invariants hold of every behaviour of the reports.
THEOREM StatisticsInvariance == StatisticsSpec => []StatisticsInv
<1>1. StatisticsInit => StatisticsInv
  BY DwellInvInit, SamplesInvInit DEF StatisticsInv
<1>2. StatisticsInv /\ [StatisticsNext]_statisticsVars => StatisticsInv'
  BY DwellInvNext, SamplesInvNext DEF StatisticsInv
<1> QED
  BY <1>1, <1>2, PTL DEF StatisticsSpec

\* For any history, window and sessions: every second of the window is counted once, in the bin
\* of the pair that answers for it (BAStatisticsAccumulateDwell, BASSlices), the bins add up to
\* the coverage that is reported, and the samples of the comparison are ordered and their
\* quartiles too (BAStatisticsComparison).
THEOREM ReportExactHolds == StatisticsSpec => []ReportExact
<1>1. StatisticsInv => ReportExact
  BY DwellInvExact, SamplesInvOrdered DEF StatisticsInv, ReportExact
<1> QED
  BY <1>1, StatisticsInvariance, PTL
=============================================================================
