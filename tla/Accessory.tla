----------------------------- MODULE Accessory -----------------------------
(***************************************************************************)
(* The accessory ports as battery_utils/accessory.c and                    *)
(* iokit_connection.c read them.                                           *)
(*                                                                         *)
(* port[p] is the IOAccessoryManager service of primary port p: a function *)
(* from property names to values or Missing, or NoService.  The code has   *)
(* two ways to each property: the library libIOAccessoryManager when it is *)
(* installed (use_libioam), else the registry.  The library is outside the *)
(* repository: it is modelled as delivering the same property.             *)
(***************************************************************************)
EXTENDS Integers, Sequences, FiniteSets

CONSTANTS Missing, NoService

VARIABLES
    port,           \* the services of the primary ports, by name
    hidVendors,     \* VendorID and ProductID of the HID devices at 0xFF00:70, in iterator order
    use_libioam     \* the library was found when the program was loaded

\* check_ioam_existance looks for the library before main runs.
FoundOrNot == use_libioam \in BOOLEAN

Has(a, k) == a[k] # Missing
Get(a, k, default) == IF Has(a, k) THEN a[k] ELSE default

-----------------------------------------------------------------------------
(* Single properties.                                                      *)

acc_open_with_port(p) == port[p]

\* 100 is "not connected", -1 "unrecognised".
get_accid(a) == Get(a, "AccessoryID", -1)
get_acc_battery_pack_mode(a) == Get(a, "BatteryPack", FALSE)
get_acc_allowed_features(a) == Get(a, "AllowedFeatures", -1)
get_acc_port_type(a) == Get(a, "PortType", -1)
get_acc_supervised(a) == Get(a, "SupervisedAccessoryAttached", FALSE)
get_acc_supervised_transport_restricted(a) == Get(a, "SupervisedTransportsRestricted", FALSE)
get_acc_inductive_fw_mode(a) == Get(a, "InductiveFwMode", -1)
get_acc_inductive_region_code(a) == Get(a, "InductiveRegionCode", -1)
get_acc_inductive_timeout(a) == Get(a, "InductiveAuthTimedOut", FALSE)

InfoFields == {"serial", "vendor", "name", "model", "fwVer", "hwVer", "PPID"}

\* A text that is absent or does not decode is left empty.
get_acc_info(a) == [f \in InfoFields |-> Get(a, f, "")]

-----------------------------------------------------------------------------
(* Power.                                                                  *)

PowerModes == 1 .. 6                    \* Off .. LowVoltage

LimitOf(a, m) ==
    LET limits == Get(a, "PowerCurrentLimits", <<>>)
    IN  IF m \in PowerModes /\ m \in DOMAIN limits /\ limits[m] >= 0 THEN limits[m] ELSE 0

\* At most as many supported modes as the structure holds, each with its current limit.
get_acc_powermode(a) ==
    LET reported == Get(a, "SupportedPowerModes", <<>>)
        kept == IF Len(reported) > 6 THEN 6 ELSE Len(reported)
    IN  [mode |-> Get(a, "PowerMode", 0), active |-> Get(a, "ActivePowerMode", 0),
         supported |-> [i \in 1 .. kept |-> <<reported[i], LimitOf(a, reported[i])>>]]

get_acc_sleeppower(a) ==
    [supported |-> Has(a, "SleepPower"), enabled |-> Get(a, "SleepPower", FALSE),
     limit |-> Get(a, "SleepPowerCurrentLimit", 0)]

-----------------------------------------------------------------------------
(* Digital identification.                                                 *)

get_acc_digitalid(a) == Has(a, "DigitalID")

\* Through the registry a serial number that is absent is reported as found, with a null
\* reference: the test is on the address of the result, and the caller uses the reference.
SerialReader(a, k) ==
    IF Has(a, k) THEN "found" ELSE IF use_libioam THEN "absent" ELSE "null"

get_acc_idsn(a) == SerialReader(a, "InterfaceDeviceSerialNumber")
get_acc_msn(a) == SerialReader(a, "InterfaceModuleSerialNumber")

-----------------------------------------------------------------------------
(* The USB side of the serial port.                                        *)

\* Through the library each half is asked for separately and the status is that of the
\* second; through the registry an absent half is type 0 and the call succeeds.
get_acc_usb_connstat(a) ==
    [found |-> use_libioam => Has(a, "USBConnectTypePublished"),
     type |-> Get(a, "USBConnectType", 0),
     published_type |-> Get(a, "USBConnectTypePublished", 0),
     active |-> Get(a, "USBActive", FALSE)]

get_acc_usb_voltage(a) ==
    [attached |-> Has(a, "USBChargingVoltage"), voltage |-> Get(a, "USBChargingVoltage", 0)]

IlimProperty == [limit |-> "USBCurrentLimit", base |-> "USBCurrentLimitBase",
                 offset |-> "USBCurrentLimitOffset", max |-> "USBCurrentLimitMaximum"]

\* The port counts as detached when all four reads fail.  The registry's branch notes a
\* missing maximum in the status of the offset, so there the port never counts as detached.
get_acc_usb_ilim(a) ==
    [attached |-> use_libioam => \E f \in DOMAIN IlimProperty : Has(a, IlimProperty[f]),
     values |-> [f \in DOMAIN IlimProperty |-> Get(a, IlimProperty[f], 0)]]

-----------------------------------------------------------------------------
(* What the values are called.  A text is the sequence of the values in it *)
(* for the labels of a code, whether the code has one.                     *)

acc_id_string(id) == id \in (0 .. 15) \cup ((80 .. 94) \ {89}) \cup {70, 71}

PowerModeNames ==
    <<"Off", "Low", "On", "High Current", "High Current (BM3)", "Low Voltage">>

UsbConnStates ==
    <<"None", "Charger", "Host", "Host (alternate config)", "Device", "Device (Auth required)">>

PortTypes ==
    <<"Unknown", "Virtual", "USB-C", "USB-A", "Mini DP", "FireWire 800", "HDMI",
      "Audio Jack (Mini)", "Ethernet", "MagSafe", "MagSafe 2", "SD Card", "Lightning", "30-Pin",
      "Inductive", "Smart Connector", "Display Port", "MagSafe 3", "Contactless", "Wireless">>

InductiveModes == <<"RX", "TX", "TEST", "INVALID">>

\* Modes count from one; the other codes from zero.
acc_powermode_string(m) == <<IF m \in PowerModes THEN PowerModeNames[m] ELSE "", m>>

acc_powermode_details_string(mode) ==
    <<acc_powermode_string(mode.mode), acc_powermode_string(mode.active),
      [i \in DOMAIN mode.supported |->
          <<acc_powermode_string(mode.supported[i][1]), mode.supported[i][2]>>]>>

acc_usb_connstat_string(t) == IF t > 5 THEN "Unknown" ELSE UsbConnStates[t + 1]

acc_port_type_string(t) == IF t > 19 THEN "Undefined" ELSE PortTypes[t + 1]

\* A limit of zero is "Detached"; a zero part is left out.
acc_usb_ilim_string_multiline(v) ==
    IF v.limit = 0 THEN <<>> ELSE <<v.limit, v.base, v.offset, v.max>>

acc_inductive_mode_string(m) == <<IF m \in 0 .. 3 THEN InductiveModes[m + 1] ELSE "", m>>

VID_APPLE == 1452
VID_UGREEN == 11145

manf_id_string(vid) == vid \in {VID_APPLE, VID_UGREEN}

AppleProducts ==
    {1280, 1281, 1282, 1283, 1284, 1285, 1286, 5013, 5016, 5017, 5019,
     28674, 28694, 28697, 28698, 28699, 30720, 30723}

apple_prod_id_string(pid) == pid \in AppleProducts

-----------------------------------------------------------------------------
(* The first HID device of a usage that has either identifier; the one it  *)
(* lacks is zero.                                                          *)

first_vendor_at_usagepagepairs ==
    LET Named(i) == hidVendors[i].vid # Missing \/ hidVendors[i].pid # Missing
        named == {i \in DOMAIN hidVendors : Named(i)}
        Or0(v) == IF v = Missing THEN 0 ELSE v
    IN  IF named = {} THEN [found |-> FALSE, vid |-> 0, pid |-> 0]
        ELSE LET d == hidVendors[CHOOSE i \in named : \A j \in named : i <= j]
             IN  [found |-> TRUE, vid |-> Or0(d.vid), pid |-> Or0(d.pid)]
=============================================================================
