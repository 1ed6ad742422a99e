------------------------------ MODULE Payloads ------------------------------
(***************************************************************************)
(* Fleet Telemetry payloads (fleet/stream/v1/source_mapping.go): a sequence *)
(* of data, each a key and a value of one of the protobuf's kinds, decoded  *)
(* into the fields the frame carries; and what the cache makes of them      *)
(* (cache/merge.go).  The fields are those of module Codecs; temperatures,  *)
(* pressures, limits and voltage are copied like the range, speed, heading  *)
(* and odometer like the level.                                             *)
(***************************************************************************)
EXTENDS Codecs, Sequences, FiniteSetsExt

\* The kinds of a string value are told apart by what is in it: "digits" parses as a
\* number, "enumString" is an enum's name with its type before it ("ShiftStateD", of which
\* "is" is the bare name), "string" is any other.
Numeric == {"double", "float", "int", "long", "digits"}

\* Of several data for a field the last one counts.
Latest(payload, at) == IF at = {} THEN Nil ELSE Some(payload[Max(at)].value)

Carried(payload, keys) == Latest(payload, {i \in DOMAIN payload : payload[i].key \in keys})

\* A location of another kind is not one, and leaves an earlier one as it is.
Fixes(payload) ==
    Latest(payload, {i \in DOMAIN payload :
                       payload[i].key = "Location" /\ payload[i].value.kind = "location"})

\* numVal: whatever kind the firmware chose for a number; anything else is 0.
NumVal(v) == IF v.kind \in Numeric THEN v.is ELSE 0

\* Faulty variant: the enum's prefix is left on ("ShiftStateD").
GearValUntrimmed(v) == IF v.kind = "string" THEN GearFromTesla(v.is) ELSE "unknown"

\* gearVal: the typed enum without its prefix, or the bare letter.
GearVal(v) == IF v.kind \in {"ShiftState", "string"} THEN GearFromTesla(v.is) ELSE "unknown"

\* chargeStateStr: the prefix is trimmed of a string too, which gearVal does not do.
ChargeStateStr(v) ==
    IF v.kind \in {"DetailedChargeState", "string", "enumString"} THEN v.is ELSE ""

BoolVal(v) ==
    CASE v.kind = "bool"   -> v.is
      [] v.kind = "string" -> v.is = "true"
      [] v.kind = "digits" -> FALSE
      [] OTHER             -> NumVal(v) # 0

SentryVal(v) ==
    GearGuardFromTesla(IF v.kind = "SentryModeState" THEN v.is \notin {"Unknown", "Off"}
                       ELSE BoolVal(v))

\* DecodePayload: which fields are present, and their values.  A power of 0 is a reading.
DecodePayload(payload) ==
    [gear    |-> {GearVal(v) : v \in Carried(payload, {"Gear"})},
     loc     |-> {v.is : v \in Fixes(payload)},
     km      |-> {MilesToKm(NumVal(v)) : v \in Carried(payload, {"RatedRange"})},
     pct     |-> {NumVal(v) : v \in Carried(payload, {"Soc"})},
     charger |-> {ChargerFromTesla(ChargeStateStr(v)) :
                    v \in Carried(payload, {"DetailedChargeState"})},
     plug    |-> {PlugFromTesla(ChargeStateStr(v)) :
                    v \in Carried(payload, {"DetailedChargeState"})},
     kw      |-> {NumVal(v) : v \in Carried(payload, {"DCChargingPower", "ACChargingPower"})},
     energy  |-> {NumVal(v) : v \in Carried(payload, {"DCChargingEnergyIn", "ACChargingEnergyIn"})},
     amps    |-> {NumVal(v) : v \in Carried(payload, {"ChargeAmps"})},
     locked  |-> {LockedFromTesla(BoolVal(v)) : v \in Carried(payload, {"Locked"})},
     guard   |-> {SentryVal(v) : v \in Carried(payload, {"SentryMode"})}]

\* handleVehicleData: a frame without a field is a keepalive, and dropped.
Keepalive(f) == \A x \in DOMAIN f : f[x] = Nil

\* mergeStreamLocked on the live session: the fields the frame carries, a power only if it
\* is not 0, onto the session there is.
MergeLive(live, f) ==
    IF f.kw \subseteq {0} /\ f.amps = Nil /\ f.energy = Nil THEN live
    ELSE IF live = Nil
    THEN Some([kw |-> The(f.kw, 0), energy |-> The(f.energy, 0), amps |-> The(f.amps, 0),
               fast |-> FALSE])
    ELSE {[s EXCEPT !.kw = The(f.kw \ {0}, @), !.amps = The(f.amps, @),
                    !.energy = The(f.energy, @)] : s \in live}

\* mergeStreamLocked and copyStreamed on a state there is: a field the frame omits is kept.
Overlaid(s, f) ==
    [s EXCEPT !.gear = The(f.gear, @), !.loc = IF f.loc = Nil THEN @ ELSE f.loc,
              !.km = The(f.km, @), !.pct = The(f.pct, @),
              !.charger = The(f.charger, @), !.plug = The(f.plug, @),
              !.live = MergeLive(@, f),
              !.panel.locks = [d \in DOMAIN @ |-> The(f.locked, @[d])],
              !.panel.guard = The(f.guard, @),
              !.power = IF @ \in {"unknown", "offline"} THEN "online" ELSE @]

-----------------------------------------------------------------------------
(* A Tesla (external): what it answers and what it streams while its state  *)
(* is s.  The snapshot stands for the car itself here: its gear is known,   *)
(* and its level and its power have their tenths.                           *)

Letter == [park |-> "P", drive |-> "D", reverse |-> "R", neutral |-> "N"]

\* The session the car meters; one that does not charge says so in zeros.
Metered(s) == The(s.live, [kw |-> 0, energy |-> 0, fast |-> FALSE, amps |-> 0])

\* The vehicle_data it may answer with: null or P as the shift state of a parked car, the
\* level rounded either way, the power as a whole number, and, while no power flows, any
\* charging state.
CarAnswers(s) ==
    LET l == Metered(s)
    IN  [state: {"online"}, shift: {Letter[s.gear]} \union (IF s.gear = "park" THEN {""} ELSE {}),
         loc: {s.loc}, range: {KmToMiles(s.km)}, level: {Trunc(s.pct, 10), Trunc(s.pct + 9, 10)},
         charging: {"Charging"} \union
                     (IF l.kw > 0 THEN {}
                      ELSE {"Stopped", "Complete", "NoPower", "Starting", "Disconnected"}),
         live: {[power |-> Round(l.kw, 10), fast |-> l.fast, energy |-> l.energy,
                 amps |-> Some(l.amps)]},
         config: {<<s.kind, s.trim>>}, panel: {EncodePanel(s.panel)}]

\* The payload of all its fields, as one of two generations of firmware writes it: the
\* readings themselves, and of AC and DC the one that flows.
CarPayload(s, charging, typed) ==
    LET l == Metered(s)
        w == EncodePanel(s.panel)
        Datum(key, new, old, is) ==
            [key |-> key, value |-> [kind |-> IF typed THEN new ELSE old, is |-> is]]
    IN  <<Datum("Gear", "ShiftState", "string", Letter[s.gear]),
          Datum("RatedRange", "double", "digits", KmToMiles(s.km)),
          Datum("Soc", "float", "digits", s.pct),
          Datum("DetailedChargeState", "DetailedChargeState", "string", charging),
          Datum("Locked", "bool", "string",
                IF typed THEN w.locked ELSE IF w.locked THEN "true" ELSE "false"),
          Datum("SentryMode", "SentryModeState", "bool",
                IF ~typed THEN w.sentry ELSE IF w.sentry THEN "Armed" ELSE "Off"),
          IF s.loc = Nil THEN Datum("Location", "invalid", "invalid", TRUE)
          ELSE Datum("Location", "location", "location", The(s.loc, "")),
          Datum(IF l.fast THEN "DCChargingPower" ELSE "ACChargingPower", "double", "digits", l.kw),
          Datum(IF l.fast THEN "DCChargingEnergyIn" ELSE "ACChargingEnergyIn", "double", "digits",
                l.energy),
          Datum("ChargeAmps", "double", "digits", l.amps)>>
=============================================================================
