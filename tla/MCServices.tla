------------------------------ MODULE MCServices ------------------------------
(***************************************************************************)
(* Five parts of the app that share no state, each explored from all its   *)
(* initial states while the others rest in one of theirs.                  *)
(***************************************************************************)
EXTENDS Locale, Statistics, ConfigDir, CellTemperature, TemperaturePage

VARIABLE service

MCSystems ==
  {langtag_table[i].tag : i \in DOMAIN langtag_table} \union
  {<<"en">>, <<"en", "US">>, <<"fr", "CA">>, <<"zh", "Hant", "MO">>, <<"uz", "Latn", "UZ">>,
   <<"az", "Arab">>, <<"(null)">>}

-----------------------------------------------------------------------------
Pair(from, seconds, soc, socRise, warm, temperature, temperatureRise) ==
  [from |-> from, seconds |-> seconds, soc |-> soc, socRise |-> socRise,
   warm |-> warm, temperature |-> temperature, temperatureRise |-> temperatureRise]

\* Pairs that touch the edges, cross several, are level, leave the valid range or lack a
\* temperature; the second one begins inside the first or at its start.
Firsts == {Pair(0, 5, s, r, w, t, -5) : s \in {0, 20, 90}, r \in {-10, 0, 10}, w \in BOOLEAN, t \in {20, 35}}
Seconds == {Pair(2, n, s, r, TRUE, 20, 5) : n \in {0, 5}, s \in {20, 90}, r \in {-10, 10}}
             \union {Pair(0, 3, 60, r, w, 35, 0) : r \in {-20, 20}, w \in BOOLEAN}
MCIntervals == {<<p, q>> : p \in Firsts, q \in Seconds}
MCWindows == {[start |-> 0, end |-> 22], [start |-> 1, end |-> 6]}

Rise(from, seconds, soc, socRise) == Pair(from, seconds, soc, socRise, FALSE, 25, 0)

\* A session that rises all the way, one that falls from 100 first, one that pauses at 20, one
\* that ends exactly at 80, one with a hole.
Sessions(f) ==
  { <<Rise(f, 5, 0, 20)>>,
    <<Rise(f, 2, 80, 10), Rise(f + 2, 4, 100, -20), Rise(f + 6, 3, 20, 20)>>,
    <<Rise(f, 1, 0, 20), Rise(f + 1, 1, 20, 0), Rise(f + 2, 4, 20, 20)>>,
    <<Rise(f, 3, 20, 20)>>,
    <<Rise(f, 1, 20, 20), Rise(f + 2, 2, 40, 20)>> }
MCCandidates == {<<a, b, c>> : a \in Sessions(0), b \in Sessions(6), c \in Sessions(13)}
                  \union {<<a, b>> : a \in Sessions(0), b \in Sessions(5)}

-----------------------------------------------------------------------------
LocaleRests == config = "" /\ system = <<"en">> /\ langFile = Absent
StatisticsRests == window.start = 0 /\ intervals = <<>> /\ candidates = CHOOSE c \in Candidates : Len(c) = 2
ConfigRests ==
  /\ place = "container" /\ ~long /\ mobileKnown /\ user = [p \in Processes |-> "mobile"]
  /\ \A n \in Names : disk[n] = (IF n = "home" THEN "mobile" ELSE "none")
CellRests ==
  /\ cellCount = 0 /\ valid = [f \in Families |-> {}] /\ ~sensors
  /\ framebuffer = "absent" /\ panelName = "missing"
PageRests == level = NoLevel /\ ~maximum /\ ~monitor /\ ~platform

Init ==
  /\ service \in {"locale", "statistics", "directory", "cells", "page"}
  /\ LocaleInit /\ (service = "locale" \/ LocaleRests)
  /\ StatisticsInit /\ (service = "statistics" \/ StatisticsRests)
  /\ ConfigInit /\ (service = "directory" \/ ConfigRests)
  /\ CellInit /\ (service = "cells" \/ CellRests)
  /\ PageInit /\ (service = "page" \/ PageRests)

Next ==
  /\ UNCHANGED service
  /\ \/ /\ service = "locale" /\ LocaleNext
        /\ UNCHANGED <<statisticsVars, configVars, cellVars, pageVars>>
     \/ /\ service = "statistics" /\ StatisticsNext
        /\ UNCHANGED <<localeVars, configVars, cellVars, pageVars>>
     \/ /\ service = "directory" /\ ConfigNext
        /\ UNCHANGED <<localeVars, statisticsVars, cellVars, pageVars>>
     \/ /\ service = "cells" /\ CellNext
        /\ UNCHANGED <<localeVars, statisticsVars, configVars, pageVars>>
     \/ /\ service = "page" /\ PageNext
        /\ UNCHANGED <<localeVars, statisticsVars, configVars, cellVars>>

Spec == Init /\ [][Next]_<<service, localeVars, statisticsVars, configVars, cellVars, pageVars>>
=============================================================================
