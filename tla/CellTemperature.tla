--------------------------- MODULE CellTemperature ---------------------------
(***************************************************************************)
(* The temperature cell of the battery page: one reading of the battery's  *)
(* cells, of the sensors and of the screen, while the hardware comes and   *)
(* goes between any two reads.  The cells answer under the keys TB?T or,   *)
(* on other devices, TG?B.  A value is named by the key family it is from. *)
(***************************************************************************)
EXTENDS Naturals, Sequences, FiniteSets

CONSTANTS
  MaxCells,     \* the most cells a battery of the model has
  MaxShifts     \* bound on how often the hardware changes

ASSUME CellAssumption == MaxCells \in Nat /\ MaxShifts \in Nat

VARIABLES
  cellCount,    \* what BNCB says; 0 also stands for a count that is refused, or cannot be read
  valid,        \* the cells of each family that answer with a temperature in range
  sensors,      \* the sensors have a valid average
  framebuffer,  \* IOMobileFramebuffer: "absent", "failing", or the version of its block
  warmScreen,   \* the block's temperature is valid
  shifts,
  reading,      \* the reading in progress: at, num, values
  display,      \* what the cell shows: its lines, and the one that sets the gauge
  panelName,    \* Panel_ID in the registry: "missing", "data", "short" or "long"
  panelId       \* the cached identifier: "none", "whole" or "cut"

hardware == <<cellCount, valid, sensors, framebuffer, warmScreen, panelName>>
cellVars == <<hardware, shifts, reading, display, panelId>>

Families == {"TB", "TG"}
Cells == 1..MaxCells
NoReading == [at |-> "idle", num |-> 0, values |-> <<>>]

CellInit ==
  /\ cellCount \in 0..MaxCells
  /\ valid \in [Families -> SUBSET Cells]
  /\ sensors \in BOOLEAN
  /\ framebuffer \in {"absent", "failing", "version 1", "version 2", "version 3"}
  /\ warmScreen = TRUE
  /\ shifts = 0
  /\ reading = NoReading
  /\ display = [lines |-> <<>>, gauge |-> "none"]
  /\ panelName \in {"missing", "data", "short", "long"}
  /\ panelId = "none"

\* The hardware changes: a cell's key appears or goes, the screen sleeps, the sensors wake.
Shift ==
  /\ shifts < MaxShifts
  /\ shifts' = shifts + 1
  /\ \/ \E f \in Families, c \in Cells :
          /\ valid' = [valid EXCEPT ![f] = IF c \in @ THEN @ \ {c} ELSE @ \union {c}]
          /\ UNCHANGED <<cellCount, sensors, warmScreen>>
     \/ cellCount' \in 0..MaxCells /\ UNCHANGED <<valid, sensors, warmScreen>>
     \/ sensors' = ~sensors /\ UNCHANGED <<cellCount, valid, warmScreen>>
     \/ warmScreen' = ~warmScreen /\ UNCHANGED <<cellCount, valid, sensors>>
  /\ UNCHANGED <<framebuffer, reading, display, panelName, panelId>>

\* get_temperature_per_cell_with_count: the count, and cleared room for as many values.
CountCells ==
  /\ reading.at = "idle"
  /\ reading' = IF cellCount = 0 THEN [NoReading EXCEPT !.at = "sensors"]
                ELSE [at |-> "TB", num |-> cellCount, values |-> <<>>]
  /\ UNCHANGED <<hardware, shifts, display, panelId>>

\* A mutant: the other family goes on where TB?T stopped.
NextFamilyOnwards == [reading EXCEPT !.at = "TG"]

\* A cell that does not answer to TB?T: all of them are read anew, as TG?B.
NextFamily == [reading EXCEPT !.at = "TG", !.values = <<>>]

\* The next cell of the family being read.  One invalid TG?B and there are no values at all.
ReadCell ==
  /\ reading.at \in Families
  /\ LET i == Len(reading.values) + 1
         read == [reading EXCEPT !.values = Append(@, reading.at)]
     IN  reading' =
           IF i \in valid[reading.at]
           THEN IF i = reading.num THEN [read EXCEPT !.at = "sensors"] ELSE read
           ELSE IF reading.at = "TB" THEN NextFamily ELSE [NoReading EXCEPT !.at = "sensors"]
  /\ UNCHANGED <<hardware, shifts, display, panelId>>

\* iomfb_primary_screen_temperature: versions 1 and 3 of the block have a temperature.
ScreenTemperature == framebuffer \in {"version 1", "version 3"} /\ warmScreen

\* updateTemperatureInfo: the sensors' average joins the battery's ...
AverageSensors ==
  /\ reading.at = "sensors"
  /\ reading' = [reading EXCEPT !.at = "screen"]
  /\ display' = [lines |-> (IF reading.values # <<>> THEN <<"battery">> ELSE <<>>)
                             \o (IF sensors THEN <<"sensors">> ELSE <<>>),
                 gauge |-> "pending"]
  /\ UNCHANGED <<hardware, shifts, panelId>>

\* ... then the screen's, and the first that was read sets the gauge.
ShowTemperatures ==
  /\ reading.at = "screen"
  /\ LET lines == display.lines \o (IF ScreenTemperature THEN <<"screen">> ELSE <<>>)
     IN  display' = IF lines = <<>> THEN [lines |-> <<"unavailable">>, gauge |-> "neutral"]
                    ELSE [lines |-> lines, gauge |-> lines[1]]
  /\ reading' = NoReading
  /\ UNCHANGED <<hardware, shifts, panelId>>

\* iomfb_primary_screen_panel_id: cached once read; a string that the buffer cannot hold is cut
\* when its bytes can be had directly, and given up otherwise.
PrimaryScreenPanelId ==
  /\ panelId = "none" /\ framebuffer \notin {"absent", "failing"}
  /\ panelId' \in CASE panelName = "short" -> {"whole"}
                    [] panelName = "long" -> {"cut", "none"}
                    [] OTHER -> {"none"}
  /\ UNCHANGED <<hardware, shifts, reading, display>>

CellNext ==
  Shift \/ CountCells \/ ReadCell \/ AverageSensors \/ ShowTemperatures \/ PrimaryScreenPanelId

CellSpec == CellInit /\ [][CellNext]_cellVars

-----------------------------------------------------------------------------

\* The average of the battery is one of a whole reading: as many values as the battery said it
\* has cells, in the order of the cells and from one family of keys, whatever went or came
\* while they were read.
CellsWhole ==
  reading.at \in {"sensors", "screen"} /\ reading.values # <<>> =>
    /\ Len(reading.values) = reading.num
    /\ Cardinality({reading.values[i] : i \in DOMAIN reading.values}) = 1
=============================================================================
