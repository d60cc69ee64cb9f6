--------------------------- MODULE TemperaturePage ---------------------------
(***************************************************************************)
(* The hardware temperature page.  The sensors are read on a queue of the  *)
(* page, one reading at a time: what is asked for meanwhile is served by   *)
(* one more.  The basics are read on the main thread, each value by a call *)
(* of its own, and so is the state of thermalmonitord.                     *)
(***************************************************************************)
EXTENDS Naturals

CONSTANTS
  MaxReadings,  \* bound on how often the sensors' values change
  MaxAsked,     \* bound on how often the user asks for a refresh
  MaxEvents     \* bound on what else changes in the system

ASSUME PageAssumption == MaxReadings \in Nat /\ MaxAsked \in Nat /\ MaxEvents \in Nat

VARIABLES
  values,       \* the number of the sensors' current values
  level,        \* the thermal notification level: the system's number, or NoLevel
  levels,       \* the number of each named level, once read
  maximum,      \* the system has a maximum trigger temperature
  monitor,      \* thermalmonitord runs
  more,         \* there are more processes than when they were last counted
  platform,     \* the app is a platform binary
  open,         \* the page is there
  inFlight, pending,  \* sensorRefreshInFlight, sensorRefreshPending
  queue,        \* what the page's queue reads next, and what it has read
  shown,        \* the values each part of the page is from
  asked,        \* the values there were when a refresh was last asked for
  main,         \* what the main thread is doing
  basics,       \* thermalBasics: its rows; the notification level's as <<name, number>>
  row,          \* the daemon's row: its text, and whether it is red
  askings, events

surroundings == <<level, maximum, monitor, more, platform>>
sensing == <<inFlight, pending, queue, shown, asked>>
pageVars == <<values, levels, surroundings, open, sensing, main, basics, row, askings, events>>

Parts == {"hid", "sensors", "known"}
Named == {0, 5}     \* the numbers of the named levels, the rest being "unknown"
NoLevel == 99
Unread == [p \in Parts |-> 0]

PageInit ==
  /\ values = 1 /\ level \in Named \union {7, NoLevel} /\ levels = {}
  /\ maximum \in BOOLEAN /\ monitor \in BOOLEAN /\ more = FALSE /\ platform \in BOOLEAN
  /\ open = FALSE /\ inFlight = FALSE /\ pending = FALSE
  /\ queue = [at |-> "idle", read |-> Unread]
  /\ shown = Unread /\ asked = 0
  /\ main = "idle"
  /\ basics = {}
  /\ row = [text |-> "", red |-> FALSE]
  /\ askings = 0 /\ events = 0

-----------------------------------------------------------------------------
(* The system.                                                             *)

SensorsChange ==
  /\ values < MaxReadings
  /\ values' = values + 1
  /\ UNCHANGED <<levels, surroundings, open, sensing, main, basics, row, askings, events>>

SystemChanges ==
  /\ events < MaxEvents
  /\ events' = events + 1
  /\ \/ /\ level # NoLevel
        /\ level' \in (Named \union {7}) \ {level}
        /\ UNCHANGED <<maximum, monitor, more>>
     \/ maximum' = ~maximum /\ UNCHANGED <<level, monitor, more>>
     \/ monitor' = ~monitor /\ more' = TRUE /\ UNCHANGED <<level, maximum>>
  /\ UNCHANGED <<values, levels, platform, open, sensing, main, basics, row, askings>>

-----------------------------------------------------------------------------
(* The sensors.                                                            *)

\* A mutant: what is asked for during a reading is taken to be served by it.
ScheduleSensorRefreshDropping ==
  /\ asked' = values
  /\ inFlight' = TRUE
  /\ pending' = pending
  /\ queue' = IF inFlight THEN queue ELSE [at |-> "hid", read |-> Unread]

ScheduleSensorRefresh ==
  /\ asked' = values
  /\ inFlight' = TRUE
  /\ pending' = inFlight
  /\ queue' = IF inFlight THEN queue ELSE [at |-> "hid", read |-> Unread]

After(part) == CASE part = "hid" -> "sensors" [] part = "sensors" -> "known" [] OTHER -> "deliver"

\* On the page's queue: one part after another.
ReadPart ==
  /\ queue.at \in Parts
  /\ queue' = [at |-> After(queue.at), read |-> [queue.read EXCEPT ![queue.at] = values]]
  /\ UNCHANGED <<values, levels, surroundings, open, inFlight, pending, shown, asked, main, basics,
                 row, askings, events>>

\* Back on the main thread: the snapshots are applied, the table is drawn, and the next reading
\* begins if one is wanted.  It was asked for earlier, so asked stays.
Deliver ==
  /\ queue.at = "deliver" /\ main = "idle"
  /\ shown' = queue.read
  /\ inFlight' = pending
  /\ pending' = FALSE
  /\ queue' = [at |-> IF pending THEN "hid" ELSE "idle", read |-> Unread]
  /\ main' = "draw"
  /\ UNCHANGED <<values, levels, surroundings, open, asked, basics, row, askings, events>>

-----------------------------------------------------------------------------
(* The basics.                                                             *)

\* init and updateTableView both begin with refreshThermalBasics; the known sensors' rows are
\* kept from page to page.
Open ==
  /\ ~open /\ main = "idle" /\ askings < MaxAsked
  /\ open' = TRUE
  /\ askings' = askings + 1
  /\ main' = "level"
  /\ UNCHANGED <<values, levels, surroundings, sensing, basics, row, events>>

UpdateTableView ==
  /\ open /\ main = "idle" /\ askings < MaxAsked
  /\ askings' = askings + 1
  /\ main' = "level"
  /\ UNCHANGED <<values, levels, surroundings, open, sensing, basics, row, events>>

\* thermal_notif_level: the numbers of the named levels are read once.
NotifLevel ==
  /\ main = "level"
  /\ levels' = IF level = NoLevel \/ levels # {} THEN levels ELSE Named
  /\ basics' = {<<"pressure">>} \union
       (IF level = NoLevel THEN {} ELSE {<<"level", IF level \in levels' THEN level ELSE "unknown">>})
  /\ main' = IF level = NoLevel THEN "rest" ELSE "number"
  /\ UNCHANGED <<values, surroundings, open, sensing, row, askings, events>>

\* get_thermal_notif_level_string asks for the number anew.
NotifLevelString ==
  /\ main = "number"
  /\ basics' = {IF r[1] = "level" THEN <<"level", r[2], level>> ELSE r : r \in basics}
  /\ main' = "rest"
  /\ UNCHANGED <<values, levels, surroundings, open, sensing, row, askings, events>>

\* thermal_max_trigger_temperature and thermal_solar_state; then the sensors are asked for.
RestOfBasics ==
  /\ main = "rest"
  /\ basics' = basics \union {<<"sunlight">>} \union (IF maximum THEN {<<"maximum">>} ELSE {})
  /\ ScheduleSensorRefresh
  /\ main' = "idle"
  /\ UNCHANGED <<values, levels, surroundings, open, shown, row, askings, events>>

-----------------------------------------------------------------------------
(* The daemon's row.                                                       *)

\* The row is a reused cell: what once made it red is not undone.
Row(text) == [text |-> text, red |-> row.red \/ text # "running"]
State(running) == IF running THEN "running" ELSE "disabled"

\* get_pid_for_launchd_label: launchd may give no answer.
AskLaunchd ==
  /\ main = "draw" /\ platform
  /\ row' \in {Row(State(monitor)), Row("unable to detect")}
  /\ main' = "idle"
  /\ UNCHANGED <<values, levels, surroundings, open, sensing, basics, askings, events>>

\* get_pid_for_procname: the size of the list is asked for first ...
CountProcesses ==
  /\ main = "draw" /\ ~platform
  /\ more' = FALSE
  /\ main' = "list"
  /\ UNCHANGED <<values, levels, level, maximum, monitor, platform, open, sensing, basics, row,
                 askings, events>>

\* ... and the list may no longer fit.
ListProcesses ==
  /\ main = "list"
  /\ row' \in {Row(State(monitor))} \union (IF more THEN {Row("unable to detect")} ELSE {})
  /\ main' = "idle"
  /\ UNCHANGED <<values, levels, surroundings, open, sensing, basics, askings, events>>

\* The page goes: what its queue still reads finds nobody.
Close ==
  /\ open /\ main = "idle"
  /\ open' = FALSE
  /\ inFlight' = FALSE /\ pending' = FALSE
  /\ queue' = [at |-> "idle", read |-> Unread]
  /\ shown' = [shown EXCEPT !["hid"] = 0, !["sensors"] = 0]
  /\ UNCHANGED <<values, levels, surroundings, asked, main, basics, row, askings, events>>

PageNext ==
  \/ SensorsChange \/ SystemChanges \/ ReadPart \/ Deliver \/ Open \/ UpdateTableView
  \/ NotifLevel \/ NotifLevelString \/ RestOfBasics \/ AskLaunchd \/ CountProcesses
  \/ ListProcesses \/ Close

PageSpec == PageInit /\ [][PageNext]_pageVars

-----------------------------------------------------------------------------

\* When the page is at rest every part of it is from values at least as new as those of the
\* last time a refresh was asked for, be it while another was under way.
LatestServed ==
  open /\ main = "idle" /\ asked # 0 /\ ~inFlight =>
    \A p \in Parts : shown[p] >= asked
=============================================================================
