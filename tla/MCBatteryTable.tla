--------------------------- MODULE MCBatteryTable ---------------------------
(* Instances of the hardware for BatteryTable.                             *)
EXTENDS BatteryTable, TLC

\* A phone that answers: 1500 of 3000 mAh, no adapter, no accessory.
Phone ==
    ("AC-W" :> 0 @@ "B0AT" :> 2512 @@ "B0AV" :> 3900 @@ "B0RM" :> 1500 @@ "B0FC" :> 3000
     @@ "B0DC" :> 3200 @@ "B0RM.attributes" :> {2} @@ "BNCB" :> 1 @@ "B0AC" :> -350
     @@ "BQX1" :> 3100 @@ "BQD1" :> 8192 @@ "B0CT" :> 120 @@ "B0CU" :> 1000 @@ "BRSC" :> 50
     @@ "BUIC" :> 51 @@ "BMSN" :> "F8Y" @@ "BMDN" :> "bq27546" @@ "BUPT" :> 900 @@ "B0TE" :> 95
     @@ "B0MS" :> 1 @@ "BMSC" :> 80 @@ "BNSC" :> 20 @@ "RGEN" :> 4 @@ "AY-N" :> 1 @@ "VBUS" :> 0
     @@ "CHCE" :> 0)

AllKeys ==
    {"AC-W", "B0RM.attributes", "BNCB", "RGEN", "AY-N", "VBUS", "B0TE", "BMSN", "D?FC", "CHNC",
     "AY1A", "AY1P", "AY1C", "AY1S"}
    \cup {GaugeKey[f] : f \in DOMAIN GaugeKey} \cup {AdapterKey[f] : f \in DOMAIN AdapterKey}
    \cup {ChargerKey[f] : f \in DOMAIN ChargerKey}

\* The keys that are not given cannot be read.
Table(keys) == [k \in AllKeys |-> IF k \in DOMAIN keys THEN keys[k] ELSE Missing]

Charging ==
    ("AC-W" :> 1 @@ "D?FC" :> "USB DCP" @@ "D?in" :> "20W Adapter" @@ "D?IR" :> 2000 @@ "D?VR" :> 9000
     @@ "CHI?" :> 1900 @@ "CHCE" :> 1 @@ "CHCC" :> 1 @@ "CHBI" :> 1200 @@ "VBUS" :> 1 @@ "D?PT" :> 3)

\* A wireless charger that stopped: hot, and permanently failed; nothing names its family.
Paused ==
    ("AC-W" :> 2 @@ "CHI?" :> -1 @@ "CHCE" :> 1 @@ "CHNC" :> {2, 59} @@ "D?im" :> "Apple Inc."
     @@ "VBUS" :> 2 @@ "D?is" :> "C4H")

PortKeys ==
    {"AccessoryID", "BatteryPack", "AllowedFeatures", "PortType", "SupervisedAccessoryAttached",
     "SupervisedTransportsRestricted", "InductiveFwMode", "InductiveRegionCode",
     "InductiveAuthTimedOut", "PowerCurrentLimits", "SupportedPowerModes", "PowerMode",
     "ActivePowerMode", "SleepPower", "SleepPowerCurrentLimit", "DigitalID",
     "InterfaceDeviceSerialNumber", "InterfaceModuleSerialNumber", "USBConnectType",
     "USBConnectTypePublished", "USBActive", "USBChargingVoltage", "USBCurrentLimit",
     "USBCurrentLimitBase", "USBCurrentLimitOffset", "USBCurrentLimitMaximum"} \cup InfoFields

Accessory(props) == [k \in PortKeys |-> IF k \in DOMAIN props THEN props[k] ELSE Missing]

Cable ==
    Accessory("AccessoryID" :> 91 @@ "DigitalID" :> 12 @@ "InterfaceDeviceSerialNumber" :> 7
              @@ "InterfaceModuleSerialNumber" :> 8 @@ "USBConnectType" :> 1
              @@ "USBConnectTypePublished" :> 1 @@ "USBActive" :> TRUE @@ "USBChargingVoltage" :> 5000
              @@ "USBCurrentLimit" :> 2400 @@ "vendor" :> "Apple" @@ "PowerMode" :> 3
              @@ "SupportedPowerModes" :> <<1, 3>> @@ "PowerCurrentLimits" :> <<0, 100, 500>>)
Dock == Accessory("AccessoryID" :> 8 @@ "SleepPower" :> TRUE @@ "SupervisedAccessoryAttached" :> TRUE
                  @@ "USBChargingVoltage" :> 0)
NoSerials == Accessory("AccessoryID" :> 91 @@ "DigitalID" :> 13)
Pack ==
    Accessory("AccessoryID" :> 85 @@ "BatteryPack" :> TRUE @@ "InductiveFwMode" :> 1
              @@ "InductiveRegionCode" :> 85 @@ "name" :> "MagSafe Battery Pack")
NotConnected == Accessory("AccessoryID" :> 100)

PackArray ==
    ("AY1A" :> [present |-> 1, charging |-> 0, capacity |-> 40, status |-> 3, VID |-> VID_APPLE,
                PID |-> 5017])

NoUps ==
    [f \in {"cell_count", "current_capacity", "max_capacity", "cycle_count", "charging_voltage",
            "charging_current", "current", "voltage", "incoming_current", "incoming_voltage",
            "charging", "temperature", "time_to_empty", "time_to_full"} |-> 0]
PackUps ==
    [NoUps EXCEPT !.cell_count = 2, !.current_capacity = 851, !.max_capacity = 1281,
                  !.current = -991, !.voltage = 7548]

NoHid == <<>>
PackHid == <<[vid |-> Missing, pid |-> Missing], [vid |-> VID_APPLE, pid |-> 5017]>>

Device(keys, inductive, serial, hid, ups, charge) ==
    [smc |-> Table(keys), service |-> "opens", ports |-> [inductive |-> inductive, serial |-> serial],
     hid |-> hid, ups |-> ups, charge |-> charge]

MCDevices ==
    {Device(Charging @@ Phone, NoService, Cable, NoHid, NoUps, 1500),
     \* a gauge that wakes up: its voltage and its capacities read as zero
     Device("B0AV" :> 0 @@ "B0FC" :> 0 @@ "AC-W" :> Missing @@ Phone, NoService, Dock, NoHid, NoUps,
            Missing),
     \* a reversed gauge of two cells with 1% of charge, on a battery pack
     Device(Paused @@ PackArray @@ "B0RM" :> 7680 @@ "B0RM.attributes" :> {4} @@ "BNCB" :> 2 @@ Phone,
            Pack, NotConnected, NoHid, PackUps, 30),
     \* nothing answers
     [Device("B0FC" :> Missing, NoService, NoService, NoHid, NoUps, Missing)
         EXCEPT !.service = "absent"],
     \* the pack is known by its HID device only
     Device(("AY-N" :> 0 @@ "BUIC" :> Missing @@ "B0DC" :> Missing @@ Phone), Pack, NoSerials, PackHid,
            PackUps, Missing)}

MCGarbage == {"USB CP", "Disconnected"}
=============================================================================
