------------------------------- MODULE Codecs -------------------------------
(***************************************************************************)
(* The wire formats a snapshot is written in and read back from:            *)
(*   vehicle_data      fleet/poll/v1: sink_mapping.go and source_mapping.go  *)
(*   data:update       stream/v1/stream_encode.go, owner/stream/v1           *)
(*   TeslaFi CSV       teslafi/csv/v1: sink_mapping.go, source_mapping.go    *)
(* as operators; module Relay lets hubs feed each other through them.       *)
(*                                                                          *)
(* A snapshot is abstracted to one field of each kind the mappings treat    *)
(* alike.  An optional value is a set of at most one element; 0 and "" are  *)
(* Go's zero values.  Percentages and kilowatts are in tenths.              *)
(***************************************************************************)
EXTENDS Integers

Nil == {}
Some(x) == {x}
Optional(S) == {o \in SUBSET S : \A x, y \in o : x = y}
The(opt, zero) == IF opt = Nil THEN zero ELSE CHOOSE x \in opt : TRUE   \* derefStr, derefInt...

\* math.Round of a/b, and Go's conversion of a/b to int.
Round(a, b) == (2 * a + b) \div (2 * b)
Trunc(a, b) == a \div b

-----------------------------------------------------------------------------
(* units: 1.609 stands for the 1.609344 km of a mile, in both directions.   *)

\* KmToMiles, as a float (in thousandths), to two decimals, and whole.
KmToMiles(km) == (1000000 * km) \div 1609
KmToMilesRound2(km) == Round(100000 * km, 1609)
KmToWholeMiles(km) == Round(1000 * km, 1609)

-----------------------------------------------------------------------------
(* vehicle_data: the enums and the strings of sink_mapping.go ...           *)

TopState(power) ==
    CASE power = "online" -> "online" [] power = "sleep" -> "asleep" [] OTHER -> "offline"

ShiftState(gear) ==
    CASE gear = "drive" -> "D" [] gear = "reverse" -> "R" [] gear = "neutral" -> "N"
      [] OTHER -> "P"

\* Faulty variant: the plug is not consulted.
ChargingStateOfCharger(charger, plug) ==
    CASE charger = "charging" -> "Charging" [] charger = "idle" -> "Stopped"
      [] OTHER -> "Disconnected"

ChargingState(charger, plug) ==
    IF plug = "disconnected" THEN "Disconnected"
    ELSE CASE charger = "charging" -> "Charging" [] charger = "idle" -> "Stopped"
           [] OTHER -> "Disconnected"

SoftwareUpdateStatus(ota) ==
    CASE ota = "installing" -> "installing"
      [] ota \in {"downloading", "ready_to_download"} -> "downloading"
      [] ota \in {"ready_to_install", "scheduled_to_install", "awaiting_install",
                  "install_countdown", "preparing"} -> "available"
      [] OTHER -> ""

SeatHeatLevel(v) ==
    CASE v = "Off" -> Some(0) [] v = "Level_1" -> Some(1) [] v = "Level_2" -> Some(2)
      [] v = "Level_3" -> Some(3) [] OTHER -> Nil

IsOn(v) == v \notin {"", "Off"}
PreconditioningActive(status) == status \in {"active", "complete_maintain", "initiate"}
GearGuardArmed(status) == status \in {"enabled", "engaged"}
TpmsWarning(status) == IF status = "" THEN Nil ELSE Some(status # "OK")
AllLocked(locks) == \A d \in DOMAIN locks : locks[d] = "locked"
OpenClosedToInt(closed) == IF closed = "open" THEN 1 ELSE 0

-----------------------------------------------------------------------------
(* ... and their inverses in source_mapping.go.                             *)

PowerFromTesla(state) ==
    CASE state = "online" -> "online" [] state = "asleep" -> "sleep"
      [] state = "offline" -> "offline" [] OTHER -> "unknown"

\* Faulty variant: reverse is not in the table.
GearFromTeslaForward(shift) ==
    CASE shift = "D" -> "drive" [] shift = "N" -> "neutral" [] shift = "P" -> "park"
      [] OTHER -> "unknown"

GearFromTesla(shift) ==
    CASE shift = "D" -> "drive" [] shift = "R" -> "reverse" [] shift = "N" -> "neutral"
      [] shift = "P" -> "park" [] OTHER -> "unknown"

ChargerFromTesla(charging) ==
    CASE charging = "Charging" -> "charging"
      [] charging \in {"Stopped", "Complete", "NoPower", "Starting"} -> "idle"
      [] charging = "Disconnected" -> "disconnect"
      [] OTHER -> "unknown"

PlugFromTesla(charging) ==
    CASE charging \in {"Charging", "Stopped", "Complete", "NoPower", "Starting"} -> "connected"
      [] charging = "Disconnected" -> "disconnected"
      [] OTHER -> "unknown"

SeatLevelFromTesla(level) ==
    IF level = Nil THEN ""
    ELSE CASE level = Some(0) -> "Off" [] level = Some(1) -> "Level_1"
           [] level = Some(2) -> "Level_2" [] level = Some(3) -> "Level_3" [] OTHER -> ""

OnOffLevel(on) == IF on THEN "Level_1" ELSE "Off"
PreconditioningFromTesla(on) == IF on THEN "active" ELSE "off"
GearGuardFromTesla(on) == IF on THEN "enabled" ELSE "disabled"
TpmsFromTesla(warn) == IF warn = Nil THEN "" ELSE IF warn = Some(TRUE) THEN "WARN" ELSE "OK"
LockedFromTesla(locked) == IF locked THEN "locked" ELSE "unlocked"
ClosedFromTesla(v) == IF v = 1 THEN "open" ELSE "closed"

-----------------------------------------------------------------------------
(* climate_state, vehicle_state: the panels.                                *)

\* climateState and the part of vehicleState that holds nothing.
EncodePanel(p) ==
    [seat |-> SeatHeatLevel(p.seat), wheel |-> IsOn(p.wheel),
     precond |-> PreconditioningActive(p.precond), sentry |-> GearGuardArmed(p.guard),
     tpms |-> TpmsWarning(p.tpms), locked |-> AllLocked(p.locks),
     door |-> OpenClosedToInt(p.door), update |-> SoftwareUpdateStatus(p.ota)]

DecodePanel(w) ==
    [seat |-> SeatLevelFromTesla(w.seat), wheel |-> OnOffLevel(w.wheel),
     precond |-> PreconditioningFromTesla(w.precond), guard |-> GearGuardFromTesla(w.sentry),
     tpms |-> TpmsFromTesla(w.tpms),
     locks |-> [front |-> LockedFromTesla(w.locked), rear |-> LockedFromTesla(w.locked)],
     door |-> ClosedFromTesla(w.door), ota |-> w.update]

NoPanel == [seat |-> "", wheel |-> "", precond |-> "", guard |-> "", tpms |-> "",
            locks |-> [front |-> "", rear |-> ""], door |-> "", ota |-> ""]

-----------------------------------------------------------------------------
(* drive_state, charge_state, vehicle_config.                               *)

\* Faulty variant: a zero is served as it is.
HeldNever(prev, field, zero, value, encoded) == encoded

\* Hold-last-known of one field: a reading at its zero value is junk if there is an
\* earlier payload.
Held(prev, field, zero, value, encoded) ==
    IF value = zero /\ prev # Nil THEN The(prev, Nil)[field] ELSE encoded

IsDC(live) == \E s \in live : s.fast \/ s.kw >= 250

\* chargeState's live part; the cumulative energy is held while no session is known.
EncodeLive(prev, live) ==
    IF live = Nil
    THEN [power |-> 0, fast |-> FALSE, amps |-> Some(0),
          energy |-> The(prev, [live |-> [energy |-> 0]]).live.energy]
    ELSE LET s == The(live, Nil)
         IN  [power |-> Round(s.kw, 10), fast |-> IsDC(live), energy |-> s.energy,
              amps |-> IF IsDC(live) THEN Nil ELSE Some(s.amps)]

\* liveFromTesla: a session only while the car says it is charging.
DecodeLive(charging, w) ==
    IF charging = "Charging"
    THEN Some([kw |-> 10 * w.power, fast |-> w.fast, energy |-> w.energy,
               amps |-> The(w.amps, 0)])
    ELSE Nil

Unrendered == [cybertruck |-> "Cybertruck", roadster |-> "Roadster",
               semi |-> "Semi", cybercab |-> "Cybercab"]

\* vehicleConfig: this snapshot's type and trim, else the payload before it, else the
\* placeholder; a line TeslaMate cannot render becomes the trim of a model3.
VehicleConfig(prev, kind, trim) ==
    LET before == The(prev, [config |-> <<"model3", "">>]).config
        type   == IF kind # "" THEN kind ELSE before[1]
        badge  == IF trim # "" THEN trim ELSE before[2]
    IN  IF type \in DOMAIN Unrendered THEN <<"model3", Unrendered[type]>> ELSE <<type, badge>>

\* VehicleData of a snapshot, after the payload prev.
VehicleData(prev, s) ==
    [state    |-> TopState(s.power),
     shift    |-> Held(prev, "shift", "unknown", s.gear, ShiftState(s.gear)),
     loc      |-> Held(prev, "loc", Nil, s.loc, s.loc),
     range    |-> Held(prev, "range", 0, s.km, KmToMiles(s.km)),
     level    |-> Held(prev, "level", 0, s.pct, Trunc(s.pct, 10)),
     charging |-> ChargingState(s.charger, s.plug),
     live     |-> EncodeLive(prev, s.live),
     config   |-> VehicleConfig(prev, s.kind, s.trim),
     panel    |-> EncodePanel(s.panel)]

\* Faulty variant: the kilometres are truncated.
MilesToKmTrunc(mi) == Trunc(1609 * mi, 1000000)

\* DecodeVehicleData's int(math.Round(MilesToKm(...))).
MilesToKm(mi) == Round(1609 * mi, 1000000)

DecodeVehicleData(w) ==
    [power |-> PowerFromTesla(w.state), gear |-> GearFromTesla(w.shift), loc |-> w.loc,
     km |-> MilesToKm(w.range), pct |-> 10 * w.level,
     charger |-> ChargerFromTesla(w.charging), plug |-> PlugFromTesla(w.charging),
     live |-> DecodeLive(w.charging, w.live),
     kind |-> w.config[1], trim |-> w.config[2], panel |-> DecodePanel(w.panel)]

\* SummaryToSnapshot: of a car that is not online, only the liveness is known.
SummaryToSnapshot(state) ==
    [power |-> PowerFromTesla(state), gear |-> "unknown", loc |-> Nil, km |-> 0, pct |-> 0,
     charger |-> "unknown", plug |-> "unknown", live |-> Nil, kind |-> "", trim |-> "",
     panel |-> NoPanel]

-----------------------------------------------------------------------------
(* data:update.                                                             *)

\* dataColumnsFor: a blank column is an unknown one; power 0 tells an online car from one
\* asleep; gear and fix come together.
Columns(s) ==
    [soc   |-> IF s.pct = 0 THEN Nil ELSE Some(Round(s.pct, 10)),
     loc   |-> s.loc,
     power |-> IF \E l \in s.live : l.kw # 0 THEN Some(Round(The(s.live, Nil).kw, 10))
               ELSE IF s.power = "online" /\ s.loc # Nil THEN Some(0) ELSE Nil,
     shift |-> IF s.gear # "unknown" /\ s.loc # Nil THEN Some(ShiftState(s.gear)) ELSE Nil,
     range |-> IF s.km = 0 THEN Nil ELSE Some(KmToWholeMiles(s.km))]

\* DecodeDataUpdate: the fields the frame carries.
DecodeDataUpdate(c) ==
    [pct  |-> {10 * v : v \in c.soc},
     loc  |-> c.loc,
     live |-> {[kw |-> 10 * v] : v \in {x \in c.power : x > 0}},
     gear |-> {g \in {GearFromTesla(v) : v \in c.shift} : g # "unknown"},
     km   |-> {Round(1609 * v, 1000) : v \in c.range}]

-----------------------------------------------------------------------------
(* TeslaFi CSV.                                                             *)

TeslaFiState(power) ==
    CASE power = "sleep" -> "asleep" [] power = "offline" -> "offline" [] OTHER -> "online"

TeslaFiCharging(charger, plug) ==
    IF plug = "disconnected" THEN "Disconnected"
    ELSE CASE charger = "charging" -> "Charging" [] charger = "idle" -> "Complete"
           [] OTHER -> "Disconnected"

\* toRow: the gear only while it is not Park, the session whatever the charging state.
ToRow(s) ==
    [state    |-> TeslaFiState(s.power),
     shift    |-> IF s.gear \in {"drive", "reverse", "neutral"} THEN ShiftState(s.gear) ELSE "",
     loc      |-> s.loc,
     range    |-> KmToMilesRound2(s.km),
     level    |-> Round(s.pct, 10),
     charging |-> TeslaFiCharging(s.charger, s.plug),
     power    |-> Round(The(s.live, [kw |-> 0]).kw, 10),
     energy   |-> The(s.live, [energy |-> 0]).energy]

\* toSnapshot, which has no unknown gear and no unknown power.
ToSnapshot(r) ==
    [power   |-> CASE r.state = "asleep" -> "sleep" [] r.state = "offline" -> "offline"
                   [] OTHER -> "online",
     gear    |-> CASE r.shift = "D" -> "drive" [] r.shift = "R" -> "reverse"
                   [] r.shift = "N" -> "neutral" [] OTHER -> "park",
     loc     |-> r.loc,
     km      |-> Trunc(1609 * r.range, 100000),
     pct     |-> 10 * r.level,
     charger |-> CASE r.charging = "Charging" -> "charging"
                   [] r.charging \in {"Complete", "Stopped"} -> "idle"
                   [] OTHER -> "disconnect",
     plug    |-> IF r.charging \in {"Disconnected", ""} THEN "disconnected" ELSE "connected",
     live    |-> IF r.charging = "Charging"
                 THEN Some([kw |-> 10 * r.power, energy |-> r.energy]) ELSE Nil]
=============================================================================
