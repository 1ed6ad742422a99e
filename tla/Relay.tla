-------------------------------- MODULE Relay --------------------------------
(***************************************************************************)
(* One hub feeds another: the REST sink of the first serves vehicle_data    *)
(* (fleet/poll/v1/sink_mapping.go, with its hold-last-known), the Fleet     *)
(* poll source of the second reads it (source.go: the summary first), and   *)
(* the second's own sink serves it again.  The first hub also has a Fleet   *)
(* Telemetry source, and its snapshots go out as data:update frames,        *)
(* TeslaFi rows and Rivian responses as well.  What a real Tesla answers    *)
(* and streams, which no hub's encoder writes (a null shift_state, tenths), *)
(* is in SourcesAgree.                                                      *)
(***************************************************************************)
EXTENDS Payloads, Rivian

CONSTANTS
    Snapshots,   \* the snapshots the first hub starts with
    Life,        \* the snapshots its poll source reports after that
    Stream       \* the Fleet Telemetry payloads its stream source receives

\* The values a source gives the parts of a panel: parse.go keeps the sentinels of a
\* Rivian's sensors out, source_mapping.go writes words of its own.
Word == STRING \ InvalidSensorStates

Snapshot ==
    [power: {"unknown", "offline", "online", "sleep"},
     gear: {"unknown", "park", "drive", "reverse", "neutral"},
     loc: Optional(STRING), km: Nat, pct: Nat,
     charger: {"unknown", "idle", "charging", "disconnect"},
     plug: {"unknown", "connected", "disconnected"},
     live: Optional([kw: Nat, energy: Nat, fast: BOOLEAN, amps: Nat]),
     kind: STRING, trim: STRING,
     panel: [seat: Word, wheel: Word, precond: Word, guard: Word, tpms: Word,
             locks: [front: Word, rear: Word], door: Word, ota: Word]]

\* A datum of a payload that is a number or a position has one as its value.
Sane(datum) ==
    LET v == datum.value
    IN  /\ v.kind \in Numeric => v.is \in Nat
        /\ v.kind = "location" => v.is \in STRING

ASSUME RelayAssumption ==
    /\ Snapshots \subseteq Snapshot /\ Life \subseteq Snapshot
    /\ \A payload \in Stream :
          /\ Len(payload) \in Nat /\ DOMAIN payload = 1..Len(payload)
          /\ \A i \in DOMAIN payload : Sane(payload[i])

\* What proofs use of strings, of which the provers only know that literals differ.
ASSUME LiteralsAreStrings ==
    {"", "Off", "Level_1", "Level_2", "Level_3", "active", "off", "enabled", "disabled",
     "WARN", "OK", "locked", "unlocked", "open", "closed", "installing", "downloading",
     "available", "model3", "Cybertruck", "Roadster", "Semi", "Cybercab"} \subseteq STRING

VARIABLES
    up,      \* what the first hub's cache holds
    body,    \* the payload it served last, if any
    down     \* the payload the second hub served last, if any

vars == <<up, body, down>>

\* The first hub's source reports, and a consumer of the first hub reads it.
Report(s) ==
    /\ up' = s
    /\ body' = Some(VehicleData(body, s))
    /\ UNCHANGED down

\* A payload is decoded and, unless it is a keepalive, merged; a consumer reads it.
Put(payload) ==
    LET f == DecodePayload(payload)
    IN  /\ ~Keepalive(f)
        /\ up' = Overlaid(up, f)
        /\ body' = Some(VehicleData(body, up'))
        /\ UNCHANGED down

\* FleetSource.Poll of the second hub: the summary, and vehicle_data if the car is online.
Polled(served) ==
    IF served.state = "online" THEN DecodeVehicleData(served) ELSE SummaryToSnapshot(served.state)

\* The second hub polls the first one, and a consumer of the second hub reads it.
Hop ==
    /\ body # Nil
    /\ LET served == VehicleData(body, up)
       IN  /\ body' = IF served.state = "online" THEN Some(served) ELSE body
           /\ down' = Some(VehicleData(down, Polled(served)))
    /\ UNCHANGED up

Init ==
    /\ up \in Snapshots
    /\ body = Nil /\ down = Nil

Next ==
    \/ Hop
    \/ \E s \in Life : Report(s)
    \/ \E payload \in Stream : Put(payload)

Spec == Init /\ [][Next]_vars

-----------------------------------------------------------------------------
(* Properties.                                                              *)

\* What two payloads say, except of the level, the session and an update that is available.
Essence(w) ==
    [state |-> w.state, shift |-> w.shift, loc |-> w.loc, range |-> w.range,
     charging |-> w.charging, config |-> w.config,
     panel |-> [f \in DOMAIN w.panel \ {"update"} |-> w.panel[f]]]

\* A second hub is transparent: of a car that is online it serves what the first one does,
\* whatever both have been holding, and the session too while the car charges.  Two
\* readings at a boundary are not passed on as they are: a level the first hub truncates
\* to 0 is none to the second, which goes on with its own; and AC power that rounds up to
\* the 25 kW of a fast charger is one to the second.
HopIsTransparent ==
    [][Hop /\ TopState(up.power) = "online" =>
         \E w \in body', v \in down' :
            /\ Essence(v) = Essence(w)
            /\ \/ v.level = w.level
               \/ w.level = 0 /\ \E before \in down : v.level = before.level
            /\ w.charging = "Charging" =>
                  \/ v.live = w.live
                  \/ /\ w.live.power = 25 /\ ~w.live.fast
                     /\ v.live = [w.live EXCEPT !.fast = TRUE, !.amps = Nil]]_vars

\* Of a car that is not, it serves the liveness and forgets nothing.
SleepHoldsDownstream ==
    [][Hop /\ TopState(up.power) # "online" /\ down # Nil =>
         \E v \in down, w \in down' :
            /\ w.state = TopState(up.power)
            /\ <<w.shift, w.loc, w.range, w.level, w.config, w.live.energy>>
                 = <<v.shift, v.loc, v.range, v.level, v.config, v.live.energy>>]_vars

\* No format turns a car into one that drives, charges or is awake: a recorded or decoded
\* snapshot is in gear, draws power or is online only if the one it was made from is (a
\* TeslaFi row has no unknown power), and a frame carries a gear only with its fix: a "D"
\* without coordinates aborts TeslaMate's drive.
NoPhantom ==
    LET Phantom(s) ==
            \/ s.power = "online" /\ up.power \notin {"online", "unknown"}
            \/ s.gear \in {"drive", "reverse", "neutral"} /\ s.gear # up.gear
            \/ /\ s.charger = "charging" /\ s.plug # "disconnected"
               /\ up.charger # "charging" \/ up.plug = "disconnected"
        frame == DecodeDataUpdate(Columns(up))
    IN  /\ \A s \in {DecodeVehicleData(VehicleData(Nil, up)), ToSnapshot(ToRow(up)),
                     RivianPoll(VehicleStateBody(up, TRUE, FALSE))} : ~Phantom(s)
        /\ frame.gear # Nil => frame.gear = {up.gear} /\ frame.loc # Nil
        /\ frame.live # Nil => \E l \in up.live : l.kw > 0

\* A hub with both Tesla sources does not flap: a frame of what a poll has just read, from
\* either generation of firmware, leaves everything as it is but the gear of a car that
\* answered null when parked, the tenths, and the session of a car that does not charge.
\* No drive begins or ends by it, and no charge either (chargeStarted, chargeEnded: the
\* power held against the power framed), but one of less than half a kilowatt, which the
\* poll reads as none.
SourcesAgree ==
    up.gear # "unknown" =>
        \A w \in CarAnswers(up), typed \in BOOLEAN :
            LET polled == DecodeVehicleData(w)
                frame  == DecodePayload(CarPayload(up, w.charging, typed))
                framed == Overlaid(polled, frame)
                Driving(s) == s.gear \in {"drive", "reverse", "neutral"}
            IN  /\ framed = [polled EXCEPT !.gear = up.gear, !.pct = up.pct, !.live = framed.live]
                /\ polled.gear # up.gear => w.shift = "" /\ ~Driving(polled) /\ ~Driving(framed)
                /\ up.pct - polled.pct \in -9..9
                /\ Metered(up).kw \notin 1..4 =>
                      ((\E l \in polled.live : l.kw > 0) <=> \E kw \in frame.kw : kw > 0)
                /\ w.charging = "Charging" =>
                      \E l \in polled.live, m \in framed.live :
                         m = [l EXCEPT !.kw = m.kw] /\ m.kw - l.kw \in -5..5

\* The readings survive the formats.  The range: exactly through vehicle_data, to a
\* kilometre through the whole miles of a frame and the hundredths of a row, and 0 is no
\* range.  The Rivian sink writes what the Rivian source reads back, "the inverse of
\* toCanonical": every reading, every known state, and the session of a car that is
\* plugged in.
ReadingsSurvive ==
    /\ DecodeVehicleData(VehicleData(Nil, up)).km = up.km
    /\ \A km \in DecodeDataUpdate(Columns(up)).km : up.km # 0 /\ km - up.km \in -1..1
    /\ ToSnapshot(ToRow(up)).km - up.km \in -1..0
    /\ \A cloudOnline, userPresent \in BOOLEAN :
           LET s == RivianPoll(VehicleStateBody(up, cloudOnline, userPresent))
           IN  /\ <<s.gear, s.loc, s.km, s.pct, s.panel>> = <<up.gear, up.loc, up.km, up.pct, up.panel>>
               /\ up.power # "unknown" => s.power = up.power
               /\ up.charger # "unknown" => s.charger = up.charger
               /\ up.plug # "unknown" => s.plug = up.plug
               /\ s.live = IF s.plug = "connected" THEN {[l EXCEPT !.fast = FALSE] : l \in up.live}
                           ELSE Nil
=============================================================================
