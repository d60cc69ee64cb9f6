---------------------------- MODULE BatteryTable ----------------------------
(***************************************************************************)
(* The table of battery, adapter and accessory rows: battery_info.c over   *)
(* the readers of Smc and Accessory.                                       *)
(*                                                                         *)
(* A section is made from a template, kept in a list by priority, updated  *)
(* in place from the hardware, and removed when its hardware goes.  A row  *)
(* packs its flags and its value into one 32-bit word: flags below, value  *)
(* above, and the value's top bit doubles as a marker while the row is     *)
(* unavailable.  A row of text holds a pointer instead.                    *)
(*                                                                         *)
(* battery_info_update runs under the table's write lock and is split into *)
(* its parts, for the hardware changes between them.                       *)
(***************************************************************************)
EXTENDS Integers, Sequences, FiniteSets, SequencesExt

CONSTANTS
    Missing, NoService,
    Devices,        \* the states of the hardware: [smc, service, ports, hid, ups, charge]
    Garbage,        \* families an uninitialised variable may hold
    MaxChanges      \* bound: how often the hardware changes

VARIABLES
    gConn, hasSMC, gen, accCount, use_libioam,      \* of Smc and Accessory
    sections,       \* the list: sequence of [id, rows, gone]
    refs,           \* service references owned by the sections of a port
    leaked,         \* a reference was acquired that nothing owns
    gGauge,         \* the shared snapshot of the gauge
    pc,             \* "idle", "poll" or "walk"
    at,             \* the section of the walk
    crashed,        \* a null reference was used
    device,         \* the state of the hardware
    changes         \* how often it has changed

INSTANCE Smc WITH smc <- device.smc, service <- device.service
INSTANCE Accessory WITH port <- device.ports, hidVendors <- device.hid

\* A gauge whose charge is known: it holds no more than it can, its cells fit the 16 bits of the
\* code, and B0RM has the order of bytes that its key's attribute tells; a key without attribute
\* leaves only the design capacity to tell it by.
SoundGauge(d) ==
    LET key == d.smc
        cells == IF key["BNCB"] # Missing /\ key["BNCB"] \in 1 .. 32 THEN key["BNCB"] ELSE 1
        raw == key["B0RM"]
        plausible == 10 * raw <= 11 * key["B0DC"]
    IN  /\ \A k \in {"B0RM", "B0FC", "B0DC"} : key[k] # Missing /\ key[k] \in Nat
        /\ key["B0FC"] > 0 /\ key["B0FC"] * cells <= 65535
        /\ key["B0DC"] > 0 /\ key["B0DC"] * cells <= 65535
        /\ d.charge \in 0 .. key["B0FC"]
        /\ IF key["B0RM.attributes"] # Missing
           THEN raw = IF 4 \in key["B0RM.attributes"] THEN SwapBytes(d.charge) ELSE d.charge
           ELSE raw = IF plausible THEN d.charge ELSE SwapBytes(d.charge)

ASSUME DevicesAssumption == \A d \in Devices : d.charge # Missing => SoundGauge(d)

tableVars == <<sections, refs, leaked, gGauge, pc, at, crashed>>
statics == <<gConn, hasSMC, gen, accCount>>
hardware == <<use_libioam, device, changes>>
vars == <<tableVars, statics, hardware>>

-----------------------------------------------------------------------------
(* Templates.  Kinds of rows: S text, N number, B boolean, F float; with D *)
(* the row is hidden from the overview and shown in the details.           *)

GaugeTemplate ==
    <<<<"Device Name", "S">>, <<"Health", "F">>, <<"SoC", "F">>, <<"Avg. Temperature", "F">>,
      <<"Charging", "B">>, <<"ASoC(Hidden)", "DF">>, <<"Full Charge Capacity", "DN">>,
      <<"Designed Capacity", "DN">>, <<"Remaining Capacity", "DN">>, <<"Battery Uptime", "S">>,
      <<"Qmax", "DN">>, <<"DOD0 Reference", "DF">>, <<"Passed Charge", "DN">>,
      <<"Voltage", "DN">>, <<"Avg. Current", "DN">>, <<"Avg. Power", "DN">>,
      <<"Cell Count", "DN">>, <<"Time to Empty", "DN">>, <<"Cycle Count", "DN">>,
      <<"Designed Cycle Count", "DN">>, <<"State of Charge", "DN">>,
      <<"State of Charge (UI)", "DN">>, <<"Resistance Scale", "DN">>,
      <<"Battery Serial No.", "S">>, <<"Chemistry ID", "S">>, <<"Flags", "S">>,
      <<"True Remaining Capacity", "DN">>, <<"OCV Current", "DN">>, <<"OCV Voltage", "DN">>,
      <<"Max Load Current", "DN">>, <<"Max Load Current 2", "DN">>, <<"IT Misc Status", "S">>,
      <<"Simulation Rate", "DN">>, <<"Daily Max SoC", "DN">>, <<"Daily Min SoC", "DN">>>>

AdapterTemplate ==
    <<<<"Port", "DN">>, <<"Adapter Type", "S">>, <<"Compatibility", "S">>, <<"Type", "S">>,
      <<"Status", "S">>, <<"Reason", "S">>, <<"Current Rating", "DN">>,
      <<"Voltage Rating", "DN">>, <<"Input Current", "DN">>, <<"Input Voltage", "DN">>,
      <<"Charging Current", "DN">>, <<"Charging Voltage", "DN">>, <<"Charger IC ID", "S">>,
      <<"Model Name", "S">>, <<"Manufacturer", "S">>, <<"Model", "S">>,
      <<"Firmware Version", "S">>, <<"Hardware Version", "S">>, <<"Description", "S">>,
      <<"Serial No.", "S">>, <<"PMU Configuration", "S">>, <<"Charger Configuration", "DN">>,
      <<"HVC Mode", "DN">>>>

\* "Accepting Charge" is there twice.
InductiveTemplate ==
    <<<<"Acc. ID", "S">>, <<"Port Type", "S">>, <<"Allowed Features", "S">>,
      <<"Serial No.", "S">>, <<"Manufacturer", "S">>, <<"Product ID", "S">>,
      <<"Vendor ID", "S">>, <<"Model", "S">>, <<"Name", "S">>, <<"PPID", "S">>,
      <<"Firmware Version", "S">>, <<"Hardware Version", "S">>, <<"Battery Pack", "S">>,
      <<"Providing Power", "DB">>, <<"Status", "S">>, <<"Max Capacity", "DN">>,
      <<"Current Capacity", "DN">>, <<"Avg. Charging Current", "DN">>,
      <<"Charging Voltage Rating", "DN">>, <<"Cell Count", "DN">>, <<"Cycle Count", "DN">>,
      <<"Current", "DN">>, <<"Voltage", "DN">>, <<"Incoming Current", "DN">>,
      <<"Incoming Voltage", "DN">>, <<"Accepting Charge", "DB">>, <<"Temperature", "DN">>,
      <<"Acc. Time to Empty", "DN">>, <<"Acc. Time to Full", "DN">>,
      <<"State of Charge", "S">>, <<"Accepting Charge", "DB">>, <<"Power Mode", "S">>,
      <<"Sleep Power", "S">>, <<"Supervised Acc. Attached", "DB">>,
      <<"Supervised Transports Restricted", "DB">>, <<"Inductive FW Mode", "S">>,
      <<"Inductive Region Code", "S">>, <<"Inductive Auth Timeout", "DB">>>>

\* On the serial port the number of cells is declared as text.
SerialTemplate ==
    <<<<"Acc. ID", "S">>, <<"Digital ID", "S">>, <<"ID Serial No.", "S">>,
      <<"IM Serial No.", "S">>, <<"Port Type", "S">>, <<"Allowed Features", "S">>,
      <<"Serial No.", "S">>, <<"Manufacturer", "S">>, <<"Product ID", "S">>,
      <<"Vendor ID", "S">>, <<"Model", "S">>, <<"Name", "S">>, <<"PPID", "S">>,
      <<"Firmware Version", "S">>, <<"Hardware Version", "S">>, <<"Battery Pack", "S">>,
      <<"Providing Power", "DB">>, <<"Max Capacity", "DN">>, <<"Current Capacity", "DN">>,
      <<"Charging Voltage Rating", "DN">>, <<"Avg. Charging Current", "DN">>,
      <<"Cell Count", "S">>, <<"Cycle Count", "DN">>, <<"Current", "DN">>,
      <<"Voltage", "DN">>, <<"Incoming Current", "DN">>, <<"Incoming Voltage", "DN">>,
      <<"Accepting Charge", "DB">>, <<"Temperature", "DN">>, <<"Acc. Time to Empty", "DN">>,
      <<"Acc. Time to Full", "DN">>, <<"USB Connect State", "S">>,
      <<"USB Charging Volt.", "DN">>, <<"USB Current Config", "S">>, <<"Power Mode", "S">>,
      <<"Sleep Power", "S">>, <<"Supervised Acc. Attached", "DB">>,
      <<"Supervised Transports Restricted", "DB">>>>

Template == [gauge |-> GaugeTemplate, adapter |-> AdapterTemplate,
             inductive |-> InductiveTemplate, serial |-> SerialTemplate]
Priority == [gauge |-> 10000, adapter |-> 9000, inductive |-> 8500, serial |-> 8000]
Ports == {"inductive", "serial"}

InDetails == {"DN", "DB", "DF"}
FloatKinds == {"F", "DF"}

\* hidden: bit 1.  dynamic: bit 12, this refresh has no value for the row.  high: the upper
\* half of the word.  text: nothing, or what the string buffer holds.
NewRow(kind) == [hidden |-> kind \in InDetails, dynamic |-> FALSE, high |-> 0, text |-> <<>>]

bi_make_section(id) ==
    [id |-> id, gone |-> FALSE, rows |-> [i \in DOMAIN Template[id] |-> NewRow(Template[id][i][2])]]

bi_destroy_section(s) == [s EXCEPT !.gone = TRUE]

-----------------------------------------------------------------------------
(* Rows.  A float keeps its sign, the top bit and the low four bits of its *)
(* exponent and ten bits of its mantissa: what is loaded back is zero      *)
(* below two and loses its low bits above.  Floats are in 1/64.            *)

Marker == 32768

Packed(x) ==
    LET ulp == CASE x < 2048 -> 1 [] x < 4096 -> 2 [] x < 8192 -> 4 [] OTHER -> 8
    IN  IF x < 128 THEN 0 ELSE x - (x % ulp)

\* A row that was made unavailable becomes what it was; one that the template hides stays so.
Available(r) ==
    IF ~ r.dynamic THEN r
    ELSE [r EXCEPT !.dynamic = FALSE, !.high = r.high % Marker,
                   !.hidden = r.hidden /\ r.high < Marker]

\* A mutant: a second failure in a row forgets who hid the row.
UnavailableOnce(r) ==
    LET added == ~ r.hidden
    IN  [r EXCEPT !.dynamic = TRUE, !.hidden = TRUE, !.high = IF added THEN Marker ELSE 0]

\* The marker says that the refresh, not the template, hid the row: it has to survive
\* refreshes that fail again.
Unavailable(r) ==
    LET added == IF r.dynamic THEN r.high >= Marker ELSE ~ r.hidden
    IN  [r EXCEPT !.dynamic = TRUE, !.hidden = TRUE, !.high = IF added THEN Marker ELSE 0]

\* A row of text has a buffer, empty at first, from its first value on.
bi_node_ensure_string(text) == IF text = <<>> THEN <<"">> ELSE text

SetItem(kind, r, v) ==
    CASE kind = "S"          -> [r EXCEPT !.text = bi_node_ensure_string(@)]
      [] kind \in FloatKinds -> [Available(r) EXCEPT !.high = Packed(v)]
      [] OTHER               -> [Available(r) EXCEPT !.high = v % 65536]

HideItem(kind, r) == IF kind = "S" THEN [r EXCEPT !.text = <<>>] ELSE Unavailable(r)

\* The row a name stands for: the next one from where the last was found, else the last before.
RowsNamed ==
    [id \in DOMAIN Template |->
        [n \in {Template[id][i][1] : i \in DOMAIN Template[id]} |->
            {i \in DOMAIN Template[id] : Template[id][i][1] = n}]]

FindItem(id, cursor, name) ==
    IF name \notin DOMAIN RowsNamed[id] THEN 0
    ELSE LET named == RowsNamed[id][name]
             ahead == {i \in named : i >= cursor}
         IN  IF ahead # {} THEN CHOOSE i \in ahead : \A j \in ahead : i <= j
             ELSE CHOOSE i \in named : \A j \in named : j <= i

\* What an update does to its rows, as a sequence of these.
Set(name, v) == [do |-> "set", name |-> name, v |-> v]
Text(name, v) == [do |-> "text", name |-> name, v |-> v]
Hide(name) == [do |-> "hide", name |-> name]
SetIf(cond, name, v) == IF cond THEN Set(name, v) ELSE Hide(name)
TextIf(cond, name, v) == IF cond THEN Text(name, v) ELSE Hide(name)

\* One operation, on the row it names if there is one.
Done(kind, r, op) ==
    CASE op.do = "set"  -> SetItem(kind, r, op.v)
      [] op.do = "text" -> [r EXCEPT !.text = op.v]
      [] op.do = "hide" -> HideItem(kind, r)

Step(id, st, op) ==
    LET i == FindItem(id, st.cursor, op.name)
    IN  IF i = 0 THEN st
        ELSE [cursor |-> i, rows |-> [st.rows EXCEPT ![i] = Done(Template[id][i][2], @, op)]]

\* The rows after the operations, one after the other.
Apply(id, rows, ops) ==
    LET after[k \in 0 .. Len(ops)] ==
          IF k = 0 THEN [cursor |-> 1, rows |-> rows] ELSE Step(id, after[k - 1], ops[k])
    IN  after[Len(ops)].rows

-----------------------------------------------------------------------------
(* The gauge.                                                              *)

Percent(part, whole) == (6400 * part) \div whole
DodPercent(raw) == (raw * 100) \div 256
MaxDod == 16384
Celsius(t) == (t * 16) \div 25

\* The gauge when the first half of the update reaches it, and with the cycle counts that the
\* second half writes into the shared snapshot even when the snapshot failed.
GaugeAfter ==
    IF ~ hasSMC THEN NoGauge
    ELSE [get_gas_gauge EXCEPT !.CycleCount = Or("B0CT", @),
                               !.DesignCycleCount = IF Or("B0CU", 0) > 0 THEN Read("B0CU") ELSE @]

SocOp(c) ==
    IF c.full > 0 THEN Set("SoC", Percent(c.remaining, c.full))
    ELSE SetIf(Readable("BUIC") /\ Read("BUIC") <= 100, "SoC", 64 * Read("BUIC"))

CapacityOps(c) ==
    LET ok == c.full > 0 /\ c.design > 0
        health == Percent(c.full, c.design)
    IN  <<SetIf(ok /\ health <= Percent(2, 1), "Health", health), SocOp(c),
          SetIf(battman_temperature_is_valid(get_temperature), "Avg. Temperature",
                Celsius(get_temperature)),
          SetIf(is_charging # kIsUnavail, "Charging", is_charging),
          SetIf(ok, "ASoC(Hidden)", Percent(c.remaining, c.design)),
          SetIf(ok, "Full Charge Capacity", c.full), SetIf(ok, "Designed Capacity", c.design),
          SetIf(ok, "Remaining Capacity", c.remaining)>>

PackQmax(g) == g.Qmax * batt_cell_num

GaugeOps(g) ==
    LET ok == gaugeOK(g)
        cells == batt_cell_num
        tte == get_time_to_empty(is_charging)
    IN  <<TextIf(ok /\ g.DeviceName # "", "Device Name", <<g.DeviceName>>),
          TextIf(ok /\ g.bmsUpTime > 0, "Battery Uptime", <<g.bmsUpTime>>),
          SetIf(ok /\ g.Qmax > 0 /\ cells > 0, "Qmax", PackQmax(g)),
          SetIf(ok /\ g.DOD0 <= MaxDod, "DOD0 Reference", DodPercent(g.DOD0)),
          SetIf(ok, "Passed Charge", g.PassedCharge), SetIf(ok, "Voltage", g.Voltage),
          SetIf(ok, "Avg. Current", g.AverageCurrent), SetIf(ok, "Avg. Power", g.AveragePower),
          SetIf(ok /\ cells > 0, "Cell Count", cells),
          SetIf(battery_tte_is_valid(tte), "Time to Empty", tte),
          SetIf(Readable("B0CT"), "Cycle Count", Read("B0CT")),
          SetIf(Or("B0CU", 0) > 0, "Designed Cycle Count", Read("B0CU")),
          SetIf(ok /\ g.StateOfCharge <= 100, "State of Charge", g.StateOfCharge),
          SetIf(ok /\ g.UISoC <= 100, "State of Charge (UI)", g.UISoC),
          SetIf(ok /\ g.ResScale # 0, "Resistance Scale", g.ResScale),
          Text("Battery Serial No.", <<battery_serial>>),
          TextIf(ok /\ g.ChemID # 0, "Chemistry ID", <<g.ChemID>>),
          TextIf(ok, "Flags", <<g.Flags>>),
          SetIf(ok /\ g.TrueRemainingCapacity # 0, "True Remaining Capacity", g.TrueRemainingCapacity),
          SetIf(ok /\ g.OCV_Current # 0, "OCV Current", g.OCV_Current),
          SetIf(ok /\ g.OCV_Voltage # 0, "OCV Voltage", g.OCV_Voltage),
          SetIf(ok /\ g.IMAX # 0, "Max Load Current", g.IMAX),
          SetIf(ok /\ g.IMAX2 # 0, "Max Load Current 2", g.IMAX2),
          TextIf(ok /\ g.ITMiscStatus # 0, "IT Misc Status", <<g.ITMiscStatus>>),
          SetIf(ok /\ g.SimRate # 0, "Simulation Rate", g.SimRate),
          \* Not the names of the template's rows: no row is found.
          SetIf(ok /\ g.DailyMaxSoc <= 100, "Daily Max Soc", g.DailyMaxSoc),
          SetIf(ok /\ g.DailyMinSoc <= 100, "Daily Min Soc", g.DailyMinSoc)>>

battery_info_update_smc(rows) ==
    Apply("gauge", rows,
          IF hasSMC THEN CapacityOps(get_capacity) \o GaugeOps(get_gas_gauge)
          ELSE [i \in DOMAIN GaugeTemplate |-> Hide(GaugeTemplate[i][1])])

-----------------------------------------------------------------------------
(* The adapter, with the family the caller's variable ends up holding.     *)

AdapterOps(family) ==
    LET a == adapter_info
        d == get_charger_data
        OptionalText(name, v) == TextIf(v # "", name, <<v>>)
    IN  <<Set("Port", a.port),
          Text("Compatibility", <<d.ChargerExist # 0, d.ChargerCapable # 0>>),
          Text("Type", <<get_adapter_family_desc(family), family>>),
          Text("Status", <<IF d.NotChargingReason # {} THEN "Not Charging" ELSE "Charging">>),
          Set("Current Rating", a.current), Set("Voltage Rating", a.voltage),
          Set("Input Current", a.input_current), Set("Input Voltage", a.input_voltage),
          Set("Charging Current", d.ChargingCurrent), Set("Charging Voltage", d.ChargingVoltage),
          Text("Charger IC ID", <<d.ChargerId>>),
          OptionalText("Model Name", a.name), OptionalText("Manufacturer", a.vendor),
          OptionalText("Model", a.adapter), OptionalText("Firmware Version", a.firmware),
          OptionalText("Hardware Version", a.hardware), OptionalText("Description", a.description),
          OptionalText("Serial No.", a.serial),
          \* The second of the pair takes back what the first has written.
          TextIf(a.PMUConfiguration # -1, "PMU Configuration", <<a.PMUConfiguration, "mA">>),
          TextIf(a.PMUConfiguration = -1, "PMU Configuration", <<"Unspecified">>),
          Set("Charger Configuration", d.ChargerConfiguration),
          TextIf(d.NotChargingReason # {}, "Reason", not_charging_reason_str(d.NotChargingReason)),
          TextIf(a.adap_type # 0, "Adapter Type", <<a.adap_type>>)>>

adapter_info_update_smc(rows, family) == Apply("adapter", rows, AdapterOps(family))

-----------------------------------------------------------------------------
(* The accessory ports.                                                    *)

NoAccessory == {100, -1}

\* The properties of the service a section holds: none once the service has gone.
ServiceOf(p) ==
    IF acc_open_with_port(p) = NoService THEN [k \in {"AccessoryID"} |-> Missing]
    ELSE acc_open_with_port(p)

PortOps(a) ==
    LET info == get_acc_info(a)
        sleep == get_acc_sleeppower(a)
        OptionalText(name, f) == TextIf(info[f] # "", name, <<info[f]>>)
    IN  <<Text("Acc. ID", <<get_accid(a), acc_id_string(get_accid(a))>>),
          TextIf(get_acc_allowed_features(a) # -1, "Allowed Features", <<get_acc_allowed_features(a)>>),
          TextIf(get_acc_port_type(a) # -1, "Port Type", <<acc_port_type_string(get_acc_port_type(a))>>),
          OptionalText("Serial No.", "serial"), OptionalText("Manufacturer", "vendor"),
          OptionalText("Model", "model"), OptionalText("Name", "name"), OptionalText("PPID", "PPID"),
          OptionalText("Firmware Version", "fwVer"), OptionalText("Hardware Version", "hwVer"),
          Text("Battery Pack", <<get_acc_battery_pack_mode(a)>>),
          Text("Power Mode", acc_powermode_details_string(get_acc_powermode(a))),
          Text("Sleep Power", IF sleep.supported THEN <<sleep.enabled, sleep.limit>>
                              ELSE <<"Unsupported">>),
          SetIf(get_acc_supervised(a), "Supervised Acc. Attached", 1),
          SetIf(get_acc_supervised_transport_restricted(a), "Supervised Transports Restricted", 1)>>

VendorOps(v) ==
    LET product == v.vid = VID_APPLE /\ apple_prod_id_string(v.pid)
    IN  <<TextIf(v.vid # 0, "Vendor ID", <<v.vid, manf_id_string(v.vid)>>),
          TextIf(v.pid # 0, "Product ID", <<v.pid, product>>)>>

FromSmc(p) == hasSMC /\ accessory_available /\ p = "inductive"

PresentArray(p) == FromSmc(p) /\ get_iktara_accessory_array.present = 1

SmcOps(p) ==
    LET array == get_iktara_accessory_array IN
    IF ~ FromSmc(p) THEN <<Hide("Accepting Charge")>>
    ELSE <<Set("Providing Power", IF vbus_port = 2 THEN 1 ELSE 0)>> \o
         IF ~ PresentArray(p) THEN <<>>
         ELSE VendorOps([vid |-> array.VID, pid |-> array.PID]) \o
              <<TextIf(array.capacity # -1, "State of Charge", <<array.capacity>>),
                SetIf(array.charging # -1, "Accepting Charge", array.charging),
                TextIf(array.status # 0, "Status", <<array.status>>)>>

\* The accessory's vendor as the controller knows it, else as its HID device does.
Vendor(p) ==
    LET array == get_iktara_accessory_array
        hid == first_vendor_at_usagepagepairs
    IN  IF PresentArray(p) /\ array.VID # 0 /\ array.PID # 0
        THEN [by |-> "smc", vid |-> array.VID, pid |-> array.PID]
        ELSE IF p = "inductive" /\ hid.found THEN [by |-> "hid", vid |-> hid.vid, pid |-> hid.pid]
        ELSE [by |-> "none", vid |-> 0, pid |-> 0]

DigitalOps(a) ==
    <<TextIf(get_acc_digitalid(a), "Digital ID", <<Get(a, "DigitalID", 0)>>),
      TextIf(get_acc_idsn(a) = "found", "ID Serial No.", <<Get(a, "InterfaceDeviceSerialNumber", 0)>>),
      TextIf(get_acc_msn(a) = "found", "IM Serial No.", <<Get(a, "InterfaceModuleSerialNumber", 0)>>)>>

SerialOps(a) ==
    LET usb == get_acc_usb_connstat(a)
        ilim == get_acc_usb_ilim(a)
        volt == get_acc_usb_voltage(a)
    IN  <<Set("Providing Power", IF vbus_port = 1 THEN 1 ELSE 0)>>
        \o (IF get_accid(a) = 91 THEN DigitalOps(a) ELSE <<>>)
        \o <<TextIf(usb.found, "USB Connect State",
                    <<usb.active, acc_usb_connstat_string(usb.type),
                      acc_usb_connstat_string(usb.published_type)>>),
             SetIf(volt.attached, "USB Charging Volt.", volt.voltage)>>
        \o (IF ilim.attached
            THEN <<Text("USB Current Config", <<acc_usb_ilim_string_multiline(ilim.values)>>)>>
            ELSE <<>>)

InductiveOps(a) ==
    LET mode == get_acc_inductive_fw_mode(a)
        region == get_acc_inductive_region_code(a)
    IN  <<TextIf(mode >= 0, "Inductive FW Mode", <<acc_inductive_mode_string(mode)>>),
          TextIf(region # -1, "Inductive Region Code", <<region>>),
          SetIf(get_acc_inductive_timeout(a), "Inductive Auth Timeout", 1)>>

\* UPSCopyBatterySnapshot is UPSMonitor's; two rows are guarded by another row's value.
UpsOps ==
    LET u == device.ups
        NonZero(name, f) == SetIf(u[f] # 0, name, u[f])
    IN  <<NonZero("Cell Count", "cell_count"), NonZero("Current Capacity", "current_capacity"),
          NonZero("Max Capacity", "max_capacity"), NonZero("Cycle Count", "cycle_count"),
          NonZero("Charging Voltage Rating", "charging_voltage"),
          SetIf(u.charging_voltage # 0, "Avg. Charging Current", u.charging_current),
          NonZero("Current", "current"), SetIf(u.current # 0, "Voltage", u.voltage),
          NonZero("Incoming Current", "incoming_current"),
          NonZero("Incoming Voltage", "incoming_voltage"),
          NonZero("Accepting Charge", "charging"), NonZero("Temperature", "temperature"),
          NonZero("Acc. Time to Empty", "time_to_empty"), NonZero("Acc. Time to Full", "time_to_full")>>

HasUps(p) == p = "serial" \/ (Vendor(p).vid # 0 /\ Vendor(p).pid # 0)

AccessoryOps(p, a) ==
    PortOps(a) \o SmcOps(p)
    \o (IF Vendor(p).by = "hid" THEN VendorOps(Vendor(p)) ELSE <<>>)
    \o (IF p = "serial" THEN SerialOps(a) ELSE <<>>)
    \o InductiveOps(a)
    \o (IF HasUps(p) THEN UpsOps ELSE <<>>)

accessory_info_update(p, rows) == Apply(p, rows, AccessoryOps(p, ServiceOf(p)))

\* The serial numbers of an accessory with a digital identity are read through the null
\* reference that the registry's reader reports as found.
NullUsed(p, a) ==
    p = "serial" /\ get_accid(a) = 91 /\ "null" \in {get_acc_idsn(a), get_acc_msn(a)}

-----------------------------------------------------------------------------
(* The list of sections.                                                   *)

battery_info_has(list, id) == \E i \in DOMAIN list : list[i].id = id

battery_info_insert_section(s, list) ==
    LET lower == {i \in DOMAIN list : Priority[s.id] > Priority[list[i].id]}
    IN  IF lower = {} THEN Append(list, s)
        ELSE InsertAt(list, CHOOSE i \in lower : \A j \in lower : i <= j, s)

Added(list, id, wanted) ==
    IF wanted /\ ~ battery_info_has(list, id)
    THEN battery_info_insert_section(bi_make_section(id), list) ELSE list

Present(p) == acc_open_with_port(p) # NoService

-----------------------------------------------------------------------------
(* battery_info_update.                                                    *)

\* Nobody holds the table's lock for writing.
Idle == pc = "idle"

Refresh ==
    /\ Idle /\ ~ crashed
    /\ pc' = "poll"
    /\ UNCHANGED <<sections, refs, leaked, gGauge, at, crashed, statics, hardware>>

\* A service that is already in the list is looked up again on every poll, and that
\* reference is nobody's.
battery_info_poll ==
    /\ pc = "poll"
    /\ LET withGauge == Added(sections, "gauge", hasSMC)
           withAdapter == Added(withGauge, "adapter", hasSMC /\ is_charging > 0)
           withPorts == Added(Added(withAdapter, "inductive", Present("inductive")),
                              "serial", Present("serial"))
       IN  /\ sections' = withPorts
           /\ refs' = [p \in Ports |-> refs[p] + IF Present(p) /\ ~ battery_info_has(sections, p)
                                                 THEN 1 ELSE 0]
           /\ leaked' = (leaked \/ \E p \in Ports : Present(p) /\ battery_info_has(sections, p))
    /\ smc_open
    /\ pc' = "walk" /\ at' = 1
    /\ UNCHANGED <<gGauge, crashed, gen, accCount, hardware>>

Current == sections[at]

InWalk(id) ==
    /\ pc = "walk" /\ at \in DOMAIN sections /\ ~ Current.gone /\ Current.id = id
    /\ ~ crashed

\* The walk goes on with new rows, or starts over when the section has just been destroyed.
UpdateTo(rows) ==
    /\ sections' = [sections EXCEPT ![at].rows = rows]
    /\ at' = at + 1

Destroy ==
    /\ sections' = [sections EXCEPT ![at] = bi_destroy_section(@)]
    /\ at' = 1

UpdateGauge ==
    /\ InWalk("gauge")
    /\ UpdateTo(battery_info_update_smc(Current.rows))
    /\ gGauge' = GaugeAfter
    /\ smc_open
    /\ UNCHANGED <<refs, leaked, pc, crashed, gen, accCount, hardware>>

UpdateAdapter ==
    /\ InWalk("adapter")
    /\ smc_open
    /\ \/ /\ is_charging <= 0
          /\ Destroy
          /\ UNCHANGED gen
       \/ /\ is_charging > 0
          /\ \E family \in AdapterFamilies(Garbage) :
                UpdateTo(adapter_info_update_smc(Current.rows, family))
          /\ gen' = IF get_charger_data.NotChargingReason # {} THEN GenerationRead ELSE gen
    /\ UNCHANGED <<refs, leaked, gGauge, pc, crashed, accCount, hardware>>

UpdateAccessory(p) ==
    /\ InWalk(p)
    /\ \/ /\ get_accid(ServiceOf(p)) \in NoAccessory
          /\ Destroy
          /\ UNCHANGED <<crashed, statics>>
       \/ /\ get_accid(ServiceOf(p)) \notin NoAccessory
          /\ IF NullUsed(p, ServiceOf(p))
             THEN crashed' = TRUE /\ UNCHANGED <<sections, at>>
             ELSE UpdateTo(accessory_info_update(p, Current.rows)) /\ UNCHANGED crashed
          /\ smc_open
          /\ accCount' = IF hasSMC THEN AccessoryCount ELSE accCount
          /\ UNCHANGED gen
    /\ UNCHANGED <<refs, leaked, gGauge, pc, hardware>>

\* A mutant: the section is unlinked without its last update.
RemoveSectionOnly ==
    /\ pc = "walk" /\ at \in DOMAIN sections /\ Current.gone
    /\ sections' = RemoveAt(sections, at)
    /\ at' = 1
    /\ UNCHANGED <<refs, leaked, gGauge, pc, crashed, statics, hardware>>

\* A destroyed section leaves the list; its last update releases the service it holds.
RemoveSection ==
    /\ pc = "walk" /\ at \in DOMAIN sections /\ Current.gone
    /\ sections' = RemoveAt(sections, at)
    /\ refs' = IF Current.id \in Ports THEN [refs EXCEPT ![Current.id] = @ - 1] ELSE refs
    /\ at' = 1
    /\ UNCHANGED <<leaked, gGauge, pc, crashed, statics, hardware>>

UpdateReturns ==
    /\ pc = "walk" /\ at > Len(sections) /\ ~ crashed
    /\ pc' = "idle"
    /\ UNCHANGED <<sections, refs, leaked, gGauge, at, crashed, statics, hardware>>

\* The hardware: adapters and accessories come and go, keys stop answering.
HardwareChanges ==
    /\ ~ crashed /\ changes < MaxChanges
    /\ device' \in Devices \ {device} /\ changes' = changes + 1
    /\ UNCHANGED <<tableVars, statics, use_libioam>>

Init ==
    /\ sections = <<>> /\ refs = [p \in Ports |-> 0] /\ leaked = FALSE
    /\ gGauge = NoGauge
    /\ pc = "idle" /\ at = 1 /\ crashed = FALSE
    /\ gConn = FALSE /\ hasSMC = TRUE /\ gen = 0 /\ accCount = Missing
    /\ FoundOrNot
    /\ device \in Devices /\ changes = 0

battery_info_update ==
    \/ battery_info_poll \/ UpdateGauge \/ UpdateAdapter
    \/ \E p \in Ports : UpdateAccessory(p)
    \/ RemoveSection \/ UpdateReturns

Next == Refresh \/ battery_info_update \/ HardwareChanges

Spec == Init /\ [][Next]_vars

-----------------------------------------------------------------------------
(* Properties.                                                             *)

\* Every section has the rows of its template; only rows of text have text, and only a row
\* that is unavailable carries the marker with the hidden flag (battery_info.h:52-105).
RowOK(kind, r) ==
    /\ r.hidden \in BOOLEAN /\ r.dynamic \in BOOLEAN /\ r.high \in 0 .. 65535
    /\ IF kind = "S" THEN ~ r.dynamic /\ ~ r.hidden /\ r.high = 0 ELSE r.text = <<>>
    /\ r.dynamic => r.hidden /\ r.high \in {0, Marker}

TypeOK ==
    /\ \A i \in DOMAIN sections :
          LET t == Template[sections[i].id] IN
          /\ DOMAIN sections[i].rows = DOMAIN t
          /\ \A j \in DOMAIN t : RowOK(t[j][2], sections[i].rows[j])
    /\ refs \in [Ports -> Nat] /\ leaked \in BOOLEAN /\ crashed \in BOOLEAN
    /\ pc \in {"idle", "poll", "walk"} /\ at \in 1 .. Len(sections) + 1
    /\ gConn \in BOOLEAN /\ hasSMC \in BOOLEAN /\ gen \in 0 .. 255

\* Each section of a port holds exactly one reference to its service: it is released neither
\* while the section lives nor twice, and never kept after the section (battery_info.c:604-617,
\* 956-961).
RefsSafe ==
    \A p \in Ports : refs[p] = Cardinality({i \in DOMAIN sections : sections[i].id = p})

\* An update leaves in a section what it would leave in a new one: whatever failed, vanished or
\* was swapped before, no row stays hidden after its value is back and no old value is shown
\* (battery_info.c:339-389, 449-527).  Excepted are the rows that an update may not reach.
NotReached(id) ==
    CASE id = "inductive" -> {"Vendor ID", "Product ID", "State of Charge", "Status",
                              "Providing Power", "Max Capacity", "Current Capacity",
                              "Avg. Charging Current", "Charging Voltage Rating", "Cell Count",
                              "Cycle Count", "Current", "Voltage", "Incoming Current",
                              "Incoming Voltage", "Accepting Charge", "Temperature",
                              "Acc. Time to Empty", "Acc. Time to Full"}
      [] id = "serial"    -> {"Digital ID", "ID Serial No.", "IM Serial No.", "USB Current Config"}
      [] OTHER            -> {}

NewRows(id) == bi_make_section(id).rows

SameRows(id, rows, fresh) ==
    \A j \in DOMAIN rows : Template[id][j][1] \notin NotReached(id) => rows[j] = fresh[j]

FreshRows(id, rows) ==
    CASE id = "gauge"   -> SameRows(id, rows, battery_info_update_smc(NewRows(id)))
      [] id = "adapter" -> \E family \in AdapterFamilies(Garbage) :
                              SameRows(id, rows, adapter_info_update_smc(NewRows(id), family))
      [] OTHER          -> SameRows(id, rows, accessory_info_update(id, NewRows(id)))

Updated == pc = "walk" /\ pc' = pc /\ at' = at + 1

Fresh == [][Updated => FreshRows(Current.id, sections'[at].rows)]_vars

\* After an update of a gauge that can be read, the SoC row is shown and holds the charge of
\* the battery, whichever byte order the gauge uses, within the rounding of a row's float; a
\* charge under 2% reads as zero (battery_info.c:315-337, 846-863; libsmc.c:526-543).
SocRow == 3
SocTrue ==
    [][Updated /\ Current.id = "gauge" /\ device.charge # Missing =>
         LET r == sections'[at].rows[SocRow]
             exact == Percent(device.charge, device.smc["B0FC"])
         IN  Connected => /\ ~ r.hidden
                          /\ r.high <= exact
                          /\ exact - r.high < 4 \/ (exact < 128 /\ r.high = 0)]_vars
=============================================================================
