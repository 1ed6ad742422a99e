------------------------------- MODULE Rivian -------------------------------
(***************************************************************************)
(* The Rivian GraphQL format: what the source parses (parse.go), maps       *)
(* (source_mapping.go) and asks for (plugin.go), and what the Rivian sink   *)
(* writes (sink_mapping.go).  A reading is an optional pair of its JSON     *)
(* kind and its value; time stamps are left out.                            *)
(***************************************************************************)
EXTENDS Codecs

Text(v)   == Some(<<"text", v>>)
Number(n) == Some(<<"number", n>>)
InvalidSensorStates == {"fault", "signal_not_available", "undefined"}

\* tsValue.valid, then str and f64: a sentinel is no reading; a number may be quoted
\* ("digits"); i() truncates.
Valid(r) == {x \in r : x[1] # "text" \/ x[2] \notin InvalidSensorStates}
Str(r)   == The({x[2] : x \in {y \in Valid(r) : y[1] = "text"}}, "")
F64(r)   == The({x[2] : x \in {y \in Valid(r) : y[1] \in {"number", "digits"}}}, 0)

\* flatten of the vehicleState of a response, if any.
Flatten(w) ==
    IF w.state = Nil
    THEN [online |-> FALSE, power |-> "", gear |-> "", charger |-> "", status |-> "",
          loc |-> Nil, km |-> 0, pct |-> 0, panel |-> NoPanel]
    ELSE LET v == The(w.state, Nil)
         IN  [online |-> v.online, power |-> Str(v.power), gear |-> Str(v.gear),
              charger |-> Str(v.charger), status |-> Str(v.status), loc |-> v.loc,
              km |-> Trunc(F64(v.km), 10), pct |-> F64(v.pct),
              panel |-> [f \in DOMAIN v.panel |->
                           IF f = "locks" THEN [d \in DOMAIN v.panel.locks |-> Str(v.panel.locks[d])]
                           ELSE Str(v.panel[f])]]

\* rawLiveSession.flatten and liveToCanonical: no fast-charger flag.
FlattenLive(live) ==
    {[kw |-> F64(s.kw), amps |-> F64(s.amps), energy |-> F64(s.energy), fast |-> FALSE] :
        s \in live}

PowerToCanonical(power, online) ==
    IF ~online THEN "offline"
    ELSE CASE power = "sleep" -> "sleep" [] power \in {"go", "ready"} -> "online"
           [] OTHER -> "offline"

GearToCanonical(gear) ==
    IF gear \in {"drive", "reverse", "neutral", "park"} THEN gear ELSE "unknown"

Plugged == {"charging_active", "charging_connecting", "charging_ready"}

ChargerToCanonical(charger) ==
    CASE charger \in {"charging_active", "charging_connecting"} -> "charging"
      [] charger = "" -> "disconnect"
      [] OTHER        -> "idle"

PlugToCanonical(charger, status) ==
    IF status = "chrgr_sts_not_connected" THEN "disconnected"
    ELSE IF charger \in Plugged \/ status # "" THEN "connected" ELSE "unknown"

ToCanonical(v, live) ==
    [power |-> PowerToCanonical(v.power, v.online), gear |-> GearToCanonical(v.gear),
     loc |-> v.loc, km |-> v.km, pct |-> v.pct,
     charger |-> ChargerToCanonical(v.charger), plug |-> PlugToCanonical(v.charger, v.status),
     live |-> live, kind |-> "", trim |-> "", panel |-> v.panel]

PluggedIn(v) ==
    v.status # "chrgr_sts_not_connected" /\ (v.charger \in Plugged \/ v.status # "")

\* Poll: the state, and the session only of a car that is plugged in.  A session request
\* that fails leaves the session out (w.live = Nil), unless the server is limiting rates.
RivianPoll(w) ==
    LET v == Flatten(w)
    IN  ToCanonical(v, IF PluggedIn(v) THEN FlattenLive(w.live) ELSE Nil)

-----------------------------------------------------------------------------
(* The sink.                                                                *)

PowerToWire(power, userPresent) ==
    CASE power = "sleep"  -> "sleep"
      [] power = "online" -> IF userPresent THEN "go" ELSE "ready"
      [] OTHER            -> ""

GearToWire(gear) == IF gear = "unknown" THEN "" ELSE gear

ChargerToWire(charger) ==
    CASE charger = "charging" -> "charging_active" [] charger = "idle" -> "charging_ready"
      [] OTHER -> ""

PlugToWire(plug) ==
    CASE plug = "disconnected" -> "chrgr_sts_not_connected"
      [] plug = "connected"    -> "chrgr_sts_connected_charging"
      [] OTHER                 -> ""

\* vehicleStateBody and liveSessionBody of a snapshot; the cloud and user-present bits are
\* what the snapshot's source made of them.
VehicleStateBody(s, cloudOnline, userPresent) ==
    LET Wrapped(v) == IF v = "" THEN Nil ELSE Text(v)
    IN  [state |-> Some(
            [online |-> cloudOnline \/ s.power # "offline",
             power |-> Wrapped(PowerToWire(s.power, userPresent)),
             gear |-> Wrapped(GearToWire(s.gear)), loc |-> s.loc,
             km |-> Number(10 * s.km), pct |-> Number(s.pct),
             charger |-> Wrapped(ChargerToWire(s.charger)), status |-> Wrapped(PlugToWire(s.plug)),
             panel |-> [f \in DOMAIN s.panel |->
                          IF f = "locks" THEN [d \in DOMAIN s.panel.locks |-> Wrapped(s.panel.locks[d])]
                          ELSE Wrapped(s.panel[f])]]),
         live |-> {[kw |-> Number(l.kw), amps |-> Number(l.amps), energy |-> Number(l.energy)] :
                     l \in s.live}]
=============================================================================
