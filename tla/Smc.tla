-------------------------------- MODULE Smc --------------------------------
(***************************************************************************)
(* The battery controller as src/Battman/battery_utils/libsmc.c reads it.  *)
(*                                                                         *)
(* The controller is a table of keys.  A read either delivers the key's    *)
(* value or fails, and a failed read leaves the caller's buffer as it was: *)
(* that is what decides which readers return a zero, a sentinel or an old  *)
(* value.  smc[k] is the value a read of k would deliver, or Missing.  The *)
(* keys of the adapter ports ("D?FC", "VQ?u", "CHI?") stand for those of   *)
(* the port that AC-W names; "B0RM.attributes" is the key information of   *)
(* B0RM.  Capacities and currents are in the units of the code; a          *)
(* temperature in hundredths of a degree; a bit field is its set of bits.  *)
(***************************************************************************)
EXTENDS Integers, Sequences, FiniteSets, TLC

CONSTANT Missing

VARIABLES
    smc,        \* the controller's keys
    service,    \* what matching and opening AppleSMC does: "opens", "refuses" or "absent"
    gConn,      \* the process holds a connection
    hasSMC,     \* cleared for good by the first attempt that finds no service
    gen,        \* the static of not_charging_reason_str: 0 until it is read
    accCount    \* the static of accessory_available: Missing until its dispatch_once ran

-----------------------------------------------------------------------------
(* The connection: every reader but two starts by opening it when there is *)
(* none.  Connected says whether the read that follows can succeed.        *)

Connected == gConn \/ (hasSMC /\ service = "opens")

smc_open ==
    /\ gConn' = Connected
    /\ hasSMC' = (hasSMC /\ (gConn \/ service # "absent"))

Read(k) == IF Connected THEN smc[k] ELSE Missing

Readable(k) == Read(k) # Missing

\* The buffer after smc_read_n: what it held before when the read fails.
Or(k, before) == IF Readable(k) THEN Read(k) ELSE before

Fields(keyOf, before) == [f \in DOMAIN keyOf |-> Or(keyOf[f], before[f])]

-----------------------------------------------------------------------------
(* Temperature, cells and capacities.                                      *)

battman_temperature_is_valid(t) == t \in -5000 .. 12000 /\ t # -100

get_temperature ==
    IF Readable("B0AT") /\ battman_temperature_is_valid(Read("B0AT"))
    THEN Read("B0AT") ELSE -100

batt_cell_num == IF Readable("BNCB") /\ Read("BNCB") \in 1 .. 32 THEN Read("BNCB") ELSE -1

battery_serial == Or("BMSN", "None")

NoCapacity == [remaining |-> 0, full |-> 0, design |-> 0]

SwapBytes(v) == (v % 256) * 256 + v \div 256

\* A mutant: the attribute is not looked at.
RemainingAsRead == Read("B0RM")

\* B0RM is big-endian on the gauges whose key carries the attribute 'function' (bit 4);
\* without key information, a value far above the design capacity gives it away.
Remaining ==
    LET raw == Read("B0RM")
        reversed == IF Readable("B0RM.attributes")
                    THEN 4 \in Read("B0RM.attributes")
                    ELSE 10 * raw > 11 * Read("B0DC") /\ SwapBytes(raw) > 0
    IN  IF reversed THEN SwapBytes(raw) ELSE raw

get_capacity ==
    LET cells == IF batt_cell_num > 0 THEN batt_cell_num ELSE 1
        c == [remaining |-> Remaining * cells, full |-> Read("B0FC") * cells,
              design |-> Read("B0DC") * cells]
        usable == /\ \A k \in {"B0RM", "B0FC", "B0DC"} : Readable(k)
                  /\ Read("B0FC") # 0 /\ Read("B0DC") # 0
                  /\ \A f \in DOMAIN c : c[f] <= 65535
    IN  IF usable THEN c ELSE NoCapacity

-----------------------------------------------------------------------------
(* The gas gauge.                                                          *)

GaugeKey ==
    [Temperature |-> "B0AT", Voltage |-> "B0AV", Flags |-> "B0FI", RemainingCapacity |-> "B0RM",
     FullChargeCapacity |-> "B0FC", AverageCurrent |-> "B0AC", TimeToEmpty |-> "B0TF",
     Qmax |-> "BQX1", AveragePower |-> "B0AP", OCV_Current |-> "B0OC", OCV_Voltage |-> "B0OV",
     CycleCount |-> "B0CT", StateOfCharge |-> "BRSC", TrueRemainingCapacity |-> "B0TC",
     PassedCharge |-> "BQCC", DOD0 |-> "BQD1", DesignCapacity |-> "B0DC", IMAX |-> "B0IM",
     NCC |-> "B0NC", ResScale |-> "B0RS", ITMiscStatus |-> "B0MS", IMAX2 |-> "B0I2",
     ChemID |-> "B0CI", SimRate |-> "B0SR", DeviceName |-> "BMDN", DesignCycleCount |-> "B0CU",
     DailyMaxSoc |-> "BMSC", DailyMinSoc |-> "BNSC", UISoC |-> "BUIC", ChemicalSoC |-> "B0SC",
     bmsUpTime |-> "BUPT"]

GaugeRequired == {"B0AT", "B0AV", "B0RM", "B0FC", "B0DC"}

NoGauge == [f \in DOMAIN GaugeKey |-> IF f = "DeviceName" THEN "" ELSE 0]

\* The snapshot is cleared first, and cleared again unless every required key was read and
\* describes a usable battery.
get_gas_gauge ==
    LET g == Fields(GaugeKey, NoGauge)
        usable == /\ \A k \in GaugeRequired : Readable(k)
                  /\ battman_temperature_is_valid(g.Temperature)
                  /\ g.Voltage # 0 /\ g.FullChargeCapacity # 0 /\ g.DesignCapacity # 0
    IN  IF usable THEN g ELSE NoGauge

gaugeOK(g) == g.Voltage # 0

-----------------------------------------------------------------------------
(* Charging state, adapter and charger.                                    *)

kIsUnavail == -1
kIsNotCharging == 0
kIsCharging == 1

\* The embedded build: the adapter's presence is all that tells charging from not charging.
is_charging ==
    IF ~ Readable("AC-W") THEN kIsUnavail
    ELSE IF Read("AC-W") \in {0, -1} THEN kIsNotCharging ELSE kIsCharging

AdapterKey ==
    [port |-> "AC-W", firmware |-> "D?if", hardware |-> "D?ih", adapter |-> "D?ii",
     vendor |-> "D?im", name |-> "D?in", serial |-> "D?is", description |-> "D?DE",
     PMUConfiguration |-> "CHI?", current |-> "D?IR", voltage |-> "D?VR",
     input_current |-> "IQ0u", input_voltage |-> "VQ?u", adap_type |-> "D?PT"]

AdapterTexts == {"firmware", "hardware", "adapter", "vendor", "name", "serial", "description"}

adapter_info ==
    Fields(AdapterKey, [f \in DOMAIN AdapterKey |-> IF f \in AdapterTexts THEN "" ELSE 0])

\* The families an adapter may report: the output is written only when D?FC was read, and the
\* caller's variable holds anything until then.
AdapterFamilies(garbage) == IF Readable("D?FC") THEN {Read("D?FC")} ELSE garbage

KnownFamilies ==
    {"Disconnected", "Unsupported", "FireWire", "USB Host", "USB SDP", "USB Device",
     "USB Adapter", "USB DCP", "USB CDP", "USB CP", "Unknown USB", "USB-C Brick",
     "USB-C Type-C", "USB-C PD", "AC Power", "External 1", "External 2", "External 3",
     "External 4", "External 5", "External 6", "External 7"}

get_adapter_family_desc(family) == IF family \in KnownFamilies THEN family ELSE "Unknown"

ChargerKey ==
    [ChargerCapable |-> "CHCC", ChargerExist |-> "CHCE", ChargingCurrent |-> "CHBI",
     ChargingVoltage |-> "CHBV", ChargerVacVoltageLimit |-> "BVVL",
     NotChargingReason |-> "CHNC", ChargerId |-> "CH0D", ChargerConfiguration |-> "CHAS"]

get_charger_data ==
    Fields(ChargerKey, [f \in DOMAIN ChargerKey |-> IF f = "NotChargingReason" THEN {} ELSE 0])

battery_tte_is_valid(minutes) == minutes \in 1 .. 32767

\* B0TE when it can be read, its sentinel included; else B0TF, where it may stand in.
battery_tte_resolve(standsIn) ==
    LET source == IF Readable("B0TE") THEN "B0TE" ELSE "B0TF"
        usable == /\ source = "B0TE" \/ standsIn
                  /\ Readable(source)
                  /\ battery_tte_is_valid(Read(source))
    IN  IF usable THEN Read(source) ELSE -1

\* B0TF is ambiguous: it stands in only while the device certainly discharges.
get_time_to_empty(state) ==
    IF state = kIsCharging THEN -1 ELSE battery_tte_resolve(state = kIsNotCharging)

-----------------------------------------------------------------------------
(* Why the battery is not charging.  The generation is read once; a failed *)
(* read is remembered as generation 3 for the life of the process.         *)

GenerationRead == IF gen # 0 THEN gen ELSE Or("RGEN", 3)

ReasonBits == 0 .. 23 \cup 52 .. 55 \cup 59 .. 63

\* The codes of generation 3 are numbers: their bits are those of the number.
SmallCode(code) == LET B(i) == IF i \in code THEN 2 ^ i ELSE 0
                   IN  IF code \subseteq 0 .. 4 THEN B(0) + B(1) + B(2) + B(3) + B(4) ELSE 32

\* Three labels share one branch: 5 and 6 fall through to 7.
X86Reason(n) == IF n \in {5, 6, 7} THEN 7
                ELSE IF n \in (0 .. 26) \ {1} THEN n
                ELSE IF n < 32 THEN 27 ELSE 32

\* The reasons the text names, and the code.  The title of a permanent failure is composed
\* first and then overwritten by this text.
not_charging_reason_str(code) ==
    LET g == GenerationRead IN
    IF g >= 4 THEN <<ReasonBits \cap code, code>>
    ELSE IF g = 3 THEN <<{X86Reason(SmallCode(code))}, code>>
    ELSE <<{}, code>>

-----------------------------------------------------------------------------
(* Wireless accessories.                                                   *)

\* The number of accessory ports is asked for once, when there is a connection.
AccessoryCount == IF accCount = Missing /\ Connected THEN Or("AY-N", 0) ELSE accCount

accessory_available == Connected /\ AccessoryCount # 0

vbus_port == Or("VBUS", 0)

ArrayKey == [present |-> "AY1P", charging |-> "AY1C", capacity |-> "AY1S"]

\* One read of the whole array or, failing that, one read per item.
get_iktara_accessory_array ==
    IF Readable("AY1A") THEN Read("AY1A")
    ELSE Fields(ArrayKey, [present |-> 0, charging |-> -1, capacity |-> -1])
         @@ [status |-> 0, VID |-> 0, PID |-> 0]
=============================================================================
