----------------------------- MODULE RelayProofs -----------------------------
(***************************************************************************)
(* Proofs about the wire formats and about two hubs in a row, for any       *)
(* snapshots and any telemetry payloads.                                    *)
(***************************************************************************)
EXTENDS Relay, WellFoundedInduction, TLAPS

\* An optional value is none or one; what there is, is what The gives.
LEMMA OptionalCases ==
    ASSUME NEW S, NEW o \in Optional(S)
    PROVE  o = Nil \/ \E x \in S : o = Some(x)
  BY DEF Optional, Nil, Some

LEMMA OptionalSome ==
    ASSUME NEW S, NEW x \in S
    PROVE  Some(x) \in Optional(S) /\ Nil \in Optional(S)
  BY DEF Optional, Some, Nil

LEMMA TheOne ==
    ASSUME NEW x, NEW zero
    PROVE  The(Some(x), zero) = x /\ The(Nil, zero) = zero /\ Some(x) # Nil
  BY DEF The, Some, Nil

LEMMA TheTyped ==
    ASSUME NEW S, NEW o \in Optional(S), NEW zero \in S
    PROVE  The(o, zero) \in S
  BY OptionalCases, TheOne

-----------------------------------------------------------------------------
(* Units.                                                                   *)

\* Kilometres survive the float miles of vehicle_data exactly, the whole miles of a
\* frame to a kilometre, and the hundredths of a row up to a truncated kilometre.
LEMMA MilesInverse ==
    ASSUME NEW km \in Nat
    PROVE  /\ KmToMiles(km) \in Nat
           /\ MilesToKm(KmToMiles(km)) = km
           /\ KmToMiles(km) = 0 <=> km = 0
  BY DEF MilesToKm, KmToMiles, Round

LEMMA WholeMilesClose ==
    ASSUME NEW km \in Nat
    PROVE  Round(1609 * KmToWholeMiles(km), 1000) - km \in -1..1
  BY DEF KmToWholeMiles, Round

LEMMA RowMilesClose ==
    ASSUME NEW km \in Nat
    PROVE  Trunc(1609 * KmToMilesRound2(km), 100000) - km \in -1..0
  BY DEF KmToMilesRound2, Round, Trunc

\* Rounding tenths gives a natural, and is stable.
LEMMA RoundTenths ==
    ASSUME NEW n \in Nat
    PROVE  /\ Round(n, 10) \in Nat /\ Trunc(n, 10) \in Nat
           /\ Round(10 * n, 10) = n /\ Trunc(10 * n, 10) = n
           /\ n >= 250 => Round(n, 10) >= 25
           /\ Round(n, 10) >= 26 => n >= 250
           /\ n = 0 => Round(n, 10) = 0
  BY DEF Round, Trunc

-----------------------------------------------------------------------------
(* What is on the wire.                                                     *)

\* A line TeslaMate cannot render, or none, is never served as the type.
Config == (STRING \ (DOMAIN Unrendered \union {""})) \X STRING

WirePanel ==
    [seat: Optional(0..3), wheel: BOOLEAN, precond: BOOLEAN, sentry: BOOLEAN,
     tpms: Optional(BOOLEAN), locked: BOOLEAN, door: {0, 1},
     update: {"", "installing", "downloading", "available"}]

\* Only AC has a current, and AC power is at most what rounds to a fast charger's.
WireLive ==
    {l \in [power: Nat, fast: BOOLEAN, energy: Nat, amps: Optional(Nat)] :
        IF l.fast THEN l.amps = Nil ELSE l.amps # Nil /\ l.power <= 25}

\* A vehicle_data payload of the sink.
Wire ==
    [state: {"online", "asleep", "offline"}, shift: {"D", "R", "N", "P"},
     loc: Optional(STRING), range: {KmToMiles(km) : km \in Nat}, level: Nat,
     charging: {"Charging", "Stopped", "Disconnected"}, live: WireLive,
     config: Config, panel: WirePanel]

Panel == [seat: Word, wheel: Word, precond: Word, guard: Word, tpms: Word,
          locks: [front: Word, rear: Word], door: Word, ota: Word]

Session == [kw: Nat, energy: Nat, fast: BOOLEAN, amps: Nat]

\* The parts of a panel on the wire, and back.
LEMMA PanelTyped ==
    ASSUME NEW p \in Panel
    PROVE  EncodePanel(p) \in WirePanel
  <1>1. SeatHeatLevel(p.seat) \in Optional(0..3)
    BY OptionalSome DEF SeatHeatLevel, Optional, Some, Nil
  <1>2. TpmsWarning(p.tpms) \in Optional(BOOLEAN)
    BY DEF TpmsWarning, Optional, Some, Nil
  <1>3. AllLocked(p.locks) \in BOOLEAN /\ IsOn(p.wheel) \in BOOLEAN
        /\ PreconditioningActive(p.precond) \in BOOLEAN /\ GearGuardArmed(p.guard) \in BOOLEAN
    BY DEF AllLocked, IsOn, PreconditioningActive, GearGuardArmed
  <1>4. OpenClosedToInt(p.door) \in {0, 1}
        /\ SoftwareUpdateStatus(p.ota) \in {"", "installing", "downloading", "available"}
    BY DEF OpenClosedToInt, SoftwareUpdateStatus
  <1> QED
    BY <1>1, <1>2, <1>3, <1>4 DEF EncodePanel, WirePanel

LEMMA PanelFields ==
    ASSUME NEW w \in WirePanel
    PROVE  /\ w.seat \in {Nil, Some(0), Some(1), Some(2), Some(3)}
           /\ w.tpms = Nil \/ w.tpms = Some(TRUE) \/ w.tpms = Some(FALSE)
           /\ w.wheel \in BOOLEAN /\ w.precond \in BOOLEAN /\ w.sentry \in BOOLEAN
           /\ w.locked \in BOOLEAN /\ w.door \in {0, 1}
           /\ w.update \in {"", "installing", "downloading", "available"}
  <1>1. /\ w.seat \in Optional(0..3) /\ w.tpms \in Optional(BOOLEAN)
        /\ w.wheel \in BOOLEAN /\ w.precond \in BOOLEAN /\ w.sentry \in BOOLEAN
        /\ w.locked \in BOOLEAN /\ w.door \in {0, 1}
        /\ w.update \in {"", "installing", "downloading", "available"}
    BY DEF WirePanel
  <1>2. w.seat = Nil \/ \E n \in 0..3 : w.seat = Some(n)
    BY <1>1, OptionalCases
  <1>3. w.seat \in {Nil, Some(0), Some(1), Some(2), Some(3)}
    <2>1. CASE w.seat = Nil
      BY <2>1
    <2>2. ASSUME NEW n \in 0..3, w.seat = Some(n)
          PROVE  w.seat \in {Nil, Some(0), Some(1), Some(2), Some(3)}
      <3>1. n = 0 \/ n = 1 \/ n = 2 \/ n = 3
        OBVIOUS
      <3> QED
        BY <3>1, <2>2
    <2> QED
      BY <1>2, <2>1, <2>2
  <1>4. w.tpms = Nil \/ w.tpms = Some(TRUE) \/ w.tpms = Some(FALSE)
    BY <1>1 DEF Optional, Nil, Some
  <1> QED
    BY <1>1, <1>3, <1>4

LEMMA PanelDecoded ==
    ASSUME NEW w \in WirePanel
    PROVE  DecodePanel(w) \in Panel
  <1>1. ASSUME NEW l
        PROVE  /\ SeatLevelFromTesla(l) \in Word /\ TpmsFromTesla(l) \in Word
               /\ OnOffLevel(l) \in Word /\ PreconditioningFromTesla(l) \in Word
               /\ GearGuardFromTesla(l) \in Word /\ LockedFromTesla(l) \in Word
               /\ ClosedFromTesla(l) \in Word
    <2>1. SeatLevelFromTesla(l) \in {"", "Off", "Level_1", "Level_2", "Level_3"}
      BY DEF SeatLevelFromTesla
    <2>2. /\ TpmsFromTesla(l) \in {"", "WARN", "OK"}
          /\ OnOffLevel(l) \in {"Off", "Level_1"}
          /\ PreconditioningFromTesla(l) \in {"active", "off"}
      BY DEF TpmsFromTesla, OnOffLevel, PreconditioningFromTesla
    <2>3. /\ GearGuardFromTesla(l) \in {"enabled", "disabled"}
          /\ LockedFromTesla(l) \in {"locked", "unlocked"}
          /\ ClosedFromTesla(l) \in {"open", "closed"}
      BY DEF GearGuardFromTesla, LockedFromTesla, ClosedFromTesla
    <2> QED
      BY <2>1, <2>2, <2>3, LiteralsAreStrings DEF Word, InvalidSensorStates
  <1>2. w.update \in Word
    BY PanelFields, LiteralsAreStrings DEF Word, InvalidSensorStates
  <1> QED
    BY <1>1, <1>2 DEF DecodePanel, Panel

\* A flag survives the word it is decoded to.
LEMMA FlagsSurvive ==
    ASSUME NEW b \in BOOLEAN
    PROVE  /\ IsOn(OnOffLevel(b)) = b
           /\ PreconditioningActive(PreconditioningFromTesla(b)) = b
           /\ GearGuardArmed(GearGuardFromTesla(b)) = b
           /\ AllLocked([front |-> LockedFromTesla(b), rear |-> LockedFromTesla(b)]) = b
  <1>1. IsOn(OnOffLevel(TRUE)) /\ ~IsOn(OnOffLevel(FALSE))
    BY DEF IsOn, OnOffLevel
  <1>2. /\ PreconditioningActive(PreconditioningFromTesla(TRUE))
        /\ ~PreconditioningActive(PreconditioningFromTesla(FALSE))
    BY DEF PreconditioningActive, PreconditioningFromTesla
  <1>3. /\ GearGuardArmed(GearGuardFromTesla(TRUE))
        /\ ~GearGuardArmed(GearGuardFromTesla(FALSE))
    BY DEF GearGuardArmed, GearGuardFromTesla
  <1>4. /\ AllLocked([front |-> LockedFromTesla(TRUE), rear |-> LockedFromTesla(TRUE)])
        /\ ~AllLocked([front |-> LockedFromTesla(FALSE), rear |-> LockedFromTesla(FALSE)])
    BY DEF AllLocked, LockedFromTesla
  <1>5. \A x : /\ IsOn(x) \in BOOLEAN /\ PreconditioningActive(x) \in BOOLEAN
               /\ GearGuardArmed(x) \in BOOLEAN /\ AllLocked(x) \in BOOLEAN
    BY DEF IsOn, PreconditioningActive, GearGuardArmed, AllLocked
  <1> QED
    BY <1>1, <1>2, <1>3, <1>4, <1>5

\* Decoding a panel and encoding it again loses only an update that is available.
LEMMA PanelSurvives ==
    ASSUME NEW w \in WirePanel
    PROVE  LET v == EncodePanel(DecodePanel(w))
           IN  /\ v.seat = w.seat /\ v.wheel = w.wheel /\ v.precond = w.precond
               /\ v.sentry = w.sentry /\ v.tpms = w.tpms /\ v.locked = w.locked
               /\ v.door = w.door
  <1> DEFINE p == DecodePanel(w)
  <1>1. SeatHeatLevel(p.seat) = w.seat
    <2>1. w.seat \in {Nil, Some(0), Some(1), Some(2), Some(3)}
      BY PanelFields
    <2>2. p.seat = SeatLevelFromTesla(w.seat)
      BY DEF DecodePanel
    <2> QED
      BY <2>1, <2>2 DEF SeatHeatLevel, SeatLevelFromTesla, Some, Nil
  <1>2. TpmsWarning(p.tpms) = w.tpms
    BY PanelFields DEF DecodePanel, TpmsWarning, TpmsFromTesla, Some, Nil
  <1>3. IsOn(p.wheel) = w.wheel /\ PreconditioningActive(p.precond) = w.precond
        /\ GearGuardArmed(p.guard) = w.sentry /\ AllLocked(p.locks) = w.locked
    BY PanelFields, FlagsSurvive DEF DecodePanel
  <1>4. OpenClosedToInt(p.door) = w.door
    BY PanelFields DEF DecodePanel, OpenClosedToInt, ClosedFromTesla
  <1> QED
    BY <1>1, <1>2, <1>3, <1>4 DEF EncodePanel

-----------------------------------------------------------------------------
(* The other parts of vehicle_data.                                         *)

\* Hold-last-known, without and with an earlier payload.
LEMMA HeldValue ==
    ASSUME NEW field, NEW zero, NEW value, NEW encoded, NEW x
    PROVE  /\ Held(Nil, field, zero, value, encoded) = encoded
           /\ Held(Some(x), field, zero, value, encoded)
                = IF value = zero THEN x[field] ELSE encoded
  BY TheOne DEF Held

LEMMA SnapshotFields ==
    ASSUME NEW s \in Snapshot
    PROVE  /\ s.power \in {"unknown", "offline", "online", "sleep"}
           /\ s.gear \in {"unknown", "park", "drive", "reverse", "neutral"}
           /\ s.charger \in {"unknown", "idle", "charging", "disconnect"}
           /\ s.plug \in {"unknown", "connected", "disconnected"}
           /\ s.loc \in Optional(STRING) /\ s.km \in Nat /\ s.pct \in Nat
           /\ s.live \in Optional(Session) /\ s.kind \in STRING /\ s.trim \in STRING
           /\ s.panel \in Panel
  BY DEF Snapshot, Session, Panel

LEMMA WireFields ==
    ASSUME NEW w \in Wire
    PROVE  /\ w.state \in {"online", "asleep", "offline"} /\ w.shift \in {"D", "R", "N", "P"}
           /\ w.loc \in Optional(STRING) /\ w.level \in Nat
           /\ w.range \in Nat /\ \E km \in Nat : w.range = KmToMiles(km)
           /\ w.charging \in {"Charging", "Stopped", "Disconnected"}
           /\ w.live \in WireLive /\ w.config \in Config /\ w.panel \in WirePanel
  BY MilesInverse DEF Wire

\* The live part: a session, or zeros with the energy that is held.
LEMMA LiveEncoded ==
    ASSUME NEW s \in Session
    PROVE  LET w == EncodeLive(Nil, Some(s))
               dc == s.fast \/ s.kw >= 250
           IN  /\ w = [power |-> Round(s.kw, 10), fast |-> dc, energy |-> s.energy,
                       amps |-> IF dc THEN Nil ELSE Some(s.amps)]
               /\ \A prev : EncodeLive(prev, Some(s)) = w
               /\ w \in WireLive
  <1> DEFINE dc == s.fast \/ s.kw >= 250
             w == [power |-> Round(s.kw, 10), fast |-> dc, energy |-> s.energy,
                   amps |-> IF dc THEN Nil ELSE Some(s.amps)]
  <1>1. IsDC(Some(s)) = dc
    BY DEF IsDC, Some
  <1>2. \A prev : EncodeLive(prev, Some(s)) = w
    BY <1>1, TheOne DEF EncodeLive
  <1>3. /\ Round(s.kw, 10) \in Nat /\ s.energy \in Nat /\ s.amps \in Nat /\ dc \in BOOLEAN
    BY RoundTenths DEF Session
  <1>4. Nil \in Optional(Nat) /\ Some(s.amps) \in Optional(Nat)
    BY <1>3, OptionalSome
  <1>5. w \in WireLive
    <2>1. CASE dc
      BY <1>3, <1>4, <2>1 DEF WireLive
    <2>2. CASE ~dc
      <3>1. s.kw \in Nat /\ ~(s.kw >= 250)
        BY <2>2 DEF Session
      <3>2. Round(s.kw, 10) <= 25
        BY <1>3, <3>1, RoundTenths
      <3>3. Some(s.amps) # Nil
        BY TheOne
      <3> QED
        BY <1>3, <1>4, <2>2, <3>2, <3>3 DEF WireLive
    <2> QED
      BY <2>1, <2>2
  <1> QED
    BY <1>2, <1>5

LEMMA NoLiveEncoded ==
    ASSUME NEW prev \in Optional(Wire)
    PROVE  /\ EncodeLive(prev, Nil)
                = [power |-> 0, fast |-> FALSE, amps |-> Some(0),
                   energy |-> IF prev = Nil THEN 0 ELSE The(prev, Nil).live.energy]
           /\ EncodeLive(prev, Nil) \in WireLive
  <1>1. prev = Nil \/ \E x \in Wire : prev = Some(x)
    BY OptionalCases
  <1>2. Some(0) \in Optional(Nat) /\ Some(0) # Nil
    BY OptionalSome, TheOne
  <1> DEFINE zeros(e) == [power |-> 0, fast |-> FALSE, amps |-> Some(0), energy |-> e]
  <1>3. \A e \in Nat : zeros(e) \in WireLive
    BY <1>2 DEF WireLive
  <1>4. CASE prev = Nil
    <2>1. EncodeLive(prev, Nil) = zeros(0)
      BY <1>4 DEF EncodeLive, The
    <2> QED
      BY <1>3, <1>4, <2>1
  <1>5. ASSUME NEW x \in Wire, prev = Some(x)
        PROVE  EncodeLive(prev, Nil) = zeros(x.live.energy) /\ x.live.energy \in Nat
               /\ prev # Nil /\ The(prev, Nil) = x
    BY <1>5, TheOne, WireFields DEF EncodeLive, WireLive
  <1>6. CASE \E x \in Wire : prev = Some(x)
    <2>1. PICK x \in Wire : prev = Some(x)
      BY <1>6
    <2> QED
      BY <1>3, <1>5, <2>1
  <1> QED
    BY <1>1, <1>4, <1>6

LEMMA LiveTyped ==
    ASSUME NEW prev \in Optional(Wire), NEW live \in Optional(Session)
    PROVE  EncodeLive(prev, live) \in WireLive
  <1>1. live = Nil \/ \E s \in Session : live = Some(s)
    BY OptionalCases
  <1> QED
    BY <1>1, LiveEncoded, NoLiveEncoded

\* The trim a line that cannot be rendered becomes.
LEMMA TrimOfUnrendered ==
    ASSUME NEW type \in DOMAIN Unrendered
    PROVE  Unrendered[type] \in STRING /\ Unrendered[type] # ""
  <1>1. type \in {"cybertruck", "roadster", "semi", "cybercab"}
    BY DEF Unrendered
  <1>2. Unrendered[type] \in {"Cybertruck", "Roadster", "Semi", "Cybercab"}
    BY <1>1 DEF Unrendered
  <1> QED
    BY <1>2, LiteralsAreStrings

\* A type and a trim, with and without an earlier payload.
LEMMA ConfigTyped ==
    ASSUME NEW prev \in Optional(Wire), NEW kind \in STRING, NEW trim \in STRING
    PROVE  VehicleConfig(prev, kind, trim) \in Config
  <1> DEFINE before == The(prev, [config |-> <<"model3", "">>]).config
             type == IF kind # "" THEN kind ELSE before[1]
             badge == IF trim # "" THEN trim ELSE before[2]
  <1>1. <<"model3", "">> \in Config
    BY LiteralsAreStrings DEF Config, Unrendered
  <1>2. before \in Config
    <2>1. CASE prev = Nil
      BY <1>1, <2>1 DEF The
    <2>2. ASSUME NEW x \in Wire, prev = Some(x) PROVE before \in Config
      BY <2>2, TheOne, WireFields
    <2> QED
      BY <2>1, <2>2, OptionalCases
  <1>3. before[1] \in STRING /\ before[2] \in STRING /\ before[1] # ""
    BY <1>2 DEF Config
  <1>4. type \in STRING /\ badge \in STRING /\ type # ""
    BY <1>3
  <1>5. CASE type \in DOMAIN Unrendered
    <2>1. Unrendered[type] \in STRING
      BY <1>5, TrimOfUnrendered
    <2>2. <<"model3", Unrendered[type]>> \in Config
      BY <2>1, LiteralsAreStrings DEF Config, Unrendered
    <2> QED
      BY <1>5, <2>2 DEF VehicleConfig
  <1>6. CASE type \notin DOMAIN Unrendered
    <2>1. <<type, badge>> \in Config
      BY <1>4, <1>6 DEF Config
    <2> QED
      BY <1>6, <2>1 DEF VehicleConfig
  <1> QED
    BY <1>5, <1>6

\* The parts of the first payload, which holds nothing ...
LEMMA FirstServed ==
    ASSUME NEW s
    PROVE  LET w == VehicleData(Nil, s)
           IN  /\ w.shift = ShiftState(s.gear) /\ w.loc = s.loc
               /\ w.range = KmToMiles(s.km) /\ w.level = Trunc(s.pct, 10)
  BY DEF VehicleData, Held

\* ... and of a later one.
LEMMA LaterServed ==
    ASSUME NEW s, NEW x
    PROVE  LET w == VehicleData(Some(x), s)
           IN  /\ w.shift = IF s.gear = "unknown" THEN x.shift ELSE ShiftState(s.gear)
               /\ w.loc = IF s.loc = Nil THEN x.loc ELSE s.loc
               /\ w.range = IF s.km = 0 THEN x.range ELSE KmToMiles(s.km)
               /\ w.level = IF s.pct = 0 THEN x.level ELSE Trunc(s.pct, 10)
  BY HeldValue DEF VehicleData

LEMMA AlwaysServed ==
    ASSUME NEW s, NEW prev
    PROVE  LET w == VehicleData(prev, s)
           IN  /\ w.state = TopState(s.power) /\ w.charging = ChargingState(s.charger, s.plug)
               /\ w.live = EncodeLive(prev, s.live)
               /\ w.config = VehicleConfig(prev, s.kind, s.trim)
               /\ w.panel = EncodePanel(s.panel)
  BY DEF VehicleData

\* What the sink serves of a snapshot, after any payload, is a payload.
LEMMA ServedTyped ==
    ASSUME NEW s \in Snapshot, NEW prev \in Optional(Wire)
    PROVE  VehicleData(prev, s) \in Wire
  <1> DEFINE w == VehicleData(prev, s)
  <1>1. w.state \in {"online", "asleep", "offline"}
        /\ w.charging \in {"Charging", "Stopped", "Disconnected"}
    BY AlwaysServed DEF TopState, ChargingState
  <1>2. w.live \in WireLive /\ w.config \in Config /\ w.panel \in WirePanel
    <2>1. w.live = EncodeLive(prev, s.live) /\ w.config = VehicleConfig(prev, s.kind, s.trim)
          /\ w.panel = EncodePanel(s.panel)
      BY AlwaysServed
    <2>2. EncodeLive(prev, s.live) \in WireLive
      BY SnapshotFields, LiveTyped
    <2>3. VehicleConfig(prev, s.kind, s.trim) \in Config
      BY SnapshotFields, ConfigTyped
    <2>4. EncodePanel(s.panel) \in WirePanel
      BY SnapshotFields, PanelTyped
    <2> QED
      BY <2>1, <2>2, <2>3, <2>4
  <1>3. /\ ShiftState(s.gear) \in {"D", "R", "N", "P"} /\ s.loc \in Optional(STRING)
        /\ KmToMiles(s.km) \in {KmToMiles(km) : km \in Nat} /\ Trunc(s.pct, 10) \in Nat
    BY SnapshotFields, RoundTenths DEF ShiftState
  <1>4. w.shift \in {"D", "R", "N", "P"} /\ w.loc \in Optional(STRING)
        /\ w.range \in {KmToMiles(km) : km \in Nat} /\ w.level \in Nat
    <2>1. CASE prev = Nil
      BY <1>3, <2>1, FirstServed
    <2>2. ASSUME NEW x \in Wire, prev = Some(x)
          PROVE  w.shift \in {"D", "R", "N", "P"} /\ w.loc \in Optional(STRING)
                 /\ w.range \in {KmToMiles(km) : km \in Nat} /\ w.level \in Nat
      <3>1. x.shift \in {"D", "R", "N", "P"} /\ x.loc \in Optional(STRING)
            /\ x.range \in {KmToMiles(km) : km \in Nat} /\ x.level \in Nat
        BY DEF Wire
      <3> QED
        BY <1>3, <2>2, <3>1, LaterServed
    <2> QED
      BY <2>1, <2>2, OptionalCases
  <1>5. w = [state |-> w.state, shift |-> w.shift, loc |-> w.loc, range |-> w.range,
             level |-> w.level, charging |-> w.charging, live |-> w.live,
             config |-> w.config, panel |-> w.panel]
    BY DEF VehicleData
  <1> HIDE DEF w
  <1>6. w \in Wire
    BY <1>1, <1>2, <1>4, <1>5 DEF Wire
  <1> QED
    BY <1>6 DEF w

\* What the Fleet source makes of a payload is a snapshot, and so is a summary.
LEMMA DecodedTyped ==
    ASSUME NEW w \in Wire
    PROVE  DecodeVehicleData(w) \in Snapshot
  <1> DEFINE s == DecodeVehicleData(w)
  <1>1. s.power \in {"unknown", "offline", "online", "sleep"}
        /\ s.gear \in {"unknown", "park", "drive", "reverse", "neutral"}
        /\ s.charger \in {"unknown", "idle", "charging", "disconnect"}
        /\ s.plug \in {"unknown", "connected", "disconnected"}
    BY DEF DecodeVehicleData, PowerFromTesla, GearFromTesla, ChargerFromTesla, PlugFromTesla
  <1>2. s.loc \in Optional(STRING) /\ s.panel \in Panel
    BY WireFields, PanelDecoded DEF DecodeVehicleData
  <1>3. s.km \in Nat
    <2>1. PICK km \in Nat : w.range = KmToMiles(km)
      BY WireFields
    <2> QED
      BY <2>1, MilesInverse DEF DecodeVehicleData
  <1>4. s.pct \in Nat
    BY WireFields DEF DecodeVehicleData
  <1>5. s.kind \in STRING /\ s.trim \in STRING
    BY WireFields DEF DecodeVehicleData, Config
  <1>6. s.live \in Optional(Session)
    <2> DEFINE l == [kw |-> 10 * w.live.power, fast |-> w.live.fast, energy |-> w.live.energy,
                     amps |-> The(w.live.amps, 0)]
    <2>1. w.live.power \in Nat /\ w.live.fast \in BOOLEAN /\ w.live.energy \in Nat
          /\ w.live.amps \in Optional(Nat)
      BY WireFields DEF WireLive
    <2>2. The(w.live.amps, 0) \in Nat
      BY <2>1, TheTyped
    <2>3. l \in Session
      BY <2>1, <2>2 DEF Session
    <2>4. s.live = Some(l) \/ s.live = Nil
      BY DEF DecodeVehicleData, DecodeLive
    <2> HIDE DEF l
    <2> QED
      BY <2>3, <2>4, OptionalSome
  <1>7. s = [power |-> s.power, gear |-> s.gear, loc |-> s.loc, km |-> s.km, pct |-> s.pct,
             charger |-> s.charger, plug |-> s.plug, live |-> s.live, kind |-> s.kind,
             trim |-> s.trim, panel |-> s.panel]
    BY DEF DecodeVehicleData
  <1> HIDE DEF s
  <1>8. s \in Snapshot
    BY <1>1, <1>2, <1>3, <1>4, <1>5, <1>6, <1>7 DEF Snapshot, Panel, Session
  <1> QED
    BY <1>8 DEF s

LEMMA SummaryTyped ==
    ASSUME NEW state
    PROVE  SummaryToSnapshot(state) \in Snapshot
  <1>1. PowerFromTesla(state) \in {"unknown", "offline", "online", "sleep"}
    BY DEF PowerFromTesla
  <1>2. "" \in Word /\ "" \in STRING
    BY LiteralsAreStrings DEF Word, InvalidSensorStates
  <1>3. NoPanel \in Panel
    BY <1>2 DEF NoPanel, Panel
  <1>4. Nil \in Optional(STRING) /\ Nil \in Optional(Session)
    BY DEF Nil, Optional
  <1> QED
    BY <1>1, <1>2, <1>3, <1>4 DEF SummaryToSnapshot, Snapshot, Panel, Session

-----------------------------------------------------------------------------
(* One format at a time: what it makes of a snapshot.                       *)

\* vehicle_data, decoded again.
LEMMA VehicleDataInverse ==
    ASSUME NEW s \in Snapshot
    PROVE  LET v == DecodeVehicleData(VehicleData(Nil, s))
           IN  /\ v.power = "online" <=> s.power = "online"
               /\ v.gear = IF s.gear = "unknown" THEN "park" ELSE s.gear
               /\ v.km = s.km
               /\ v.charger = "charging" => s.charger = "charging" /\ s.plug # "disconnected"
  <1> DEFINE w == VehicleData(Nil, s)
  <1>1. PowerFromTesla(w.state) = "online" <=> s.power = "online"
    BY AlwaysServed, SnapshotFields DEF PowerFromTesla, TopState
  <1>2. GearFromTesla(w.shift) = IF s.gear = "unknown" THEN "park" ELSE s.gear
    BY FirstServed, SnapshotFields DEF GearFromTesla, ShiftState
  <1>3. MilesToKm(w.range) = s.km
    BY FirstServed, SnapshotFields, MilesInverse
  <1>4. ChargerFromTesla(w.charging) = "charging"
          => s.charger = "charging" /\ s.plug # "disconnected"
    <2>1. ChargingState(s.charger, s.plug) = "Charging"
            => s.charger = "charging" /\ s.plug # "disconnected"
      BY DEF ChargingState
    <2>2. ChargerFromTesla(w.charging) = "charging" => w.charging = "Charging"
      BY DEF ChargerFromTesla
    <2> QED
      BY <2>1, <2>2, AlwaysServed
  <1> QED
    BY <1>1, <1>2, <1>3, <1>4 DEF DecodeVehicleData

\* A TeslaFi row, read again.
LEMMA RowInverse ==
    ASSUME NEW s \in Snapshot
    PROVE  LET v == ToSnapshot(ToRow(s))
           IN  /\ v.power = "online" => s.power \in {"online", "unknown"}
               /\ v.gear \in {"drive", "reverse", "neutral"} => v.gear = s.gear
               /\ v.km - s.km \in -1..0
               /\ v.charger = "charging" => s.charger = "charging" /\ s.plug # "disconnected"
  <1>1. ToSnapshot(ToRow(s)).power = "online" => s.power \in {"online", "unknown"}
    BY SnapshotFields DEF ToSnapshot, ToRow, TeslaFiState
  <1>2. ToSnapshot(ToRow(s)).gear \in {"drive", "reverse", "neutral"}
          => ToSnapshot(ToRow(s)).gear = s.gear
    BY SnapshotFields DEF ToSnapshot, ToRow, ShiftState
  <1>3. ToSnapshot(ToRow(s)).km - s.km \in -1..0
    BY SnapshotFields, RowMilesClose DEF ToSnapshot, ToRow
  <1>4. ToSnapshot(ToRow(s)).charger = "charging"
          => s.charger = "charging" /\ s.plug # "disconnected"
    <2>1. TeslaFiCharging(s.charger, s.plug) = "Charging"
            => s.charger = "charging" /\ s.plug # "disconnected"
      BY DEF TeslaFiCharging
    <2>2. ToRow(s).charging = TeslaFiCharging(s.charger, s.plug)
      BY DEF ToRow
    <2>3. ToSnapshot(ToRow(s)).charger = "charging" => ToRow(s).charging = "Charging"
      BY DEF ToSnapshot
    <2> QED
      BY <2>1, <2>2, <2>3
  <1> QED
    BY <1>1, <1>2, <1>3, <1>4

\* A data:update frame.
LEMMA FrameInverse ==
    ASSUME NEW s \in Snapshot
    PROVE  LET f == DecodeDataUpdate(Columns(s))
           IN  /\ f.gear # Nil => f.gear = Some(s.gear) /\ f.loc # Nil
               /\ f.live # Nil => \E l \in s.live : l.kw > 0
               /\ \A km \in f.km : s.km # 0 /\ km - s.km \in -1..1
  <1> DEFINE c == Columns(s)
             f == DecodeDataUpdate(c)
  <1>1. f.gear # Nil => f.gear = Some(s.gear) /\ f.loc # Nil
    <2>1. CASE s.gear # "unknown" /\ s.loc # Nil
      <3>1. c.shift = {ShiftState(s.gear)} /\ c.loc = s.loc
        BY <2>1 DEF Columns, Some
      <3>2. GearFromTesla(ShiftState(s.gear)) = s.gear
        BY <2>1, SnapshotFields DEF GearFromTesla, ShiftState
      <3>3. f.gear = {s.gear} /\ f.loc = s.loc
        BY <2>1, <3>1, <3>2 DEF DecodeDataUpdate
      <3> QED
        BY <2>1, <3>3 DEF Some
    <2>2. CASE ~(s.gear # "unknown" /\ s.loc # Nil)
      <3>1. c.shift = {}
        BY <2>2 DEF Columns, Nil
      <3>2. f.gear = {}
        BY <3>1 DEF DecodeDataUpdate
      <3> QED
        BY <3>2 DEF Nil
    <2> QED
      BY <2>1, <2>2
  <1>2. f.live # Nil => \E l \in s.live : l.kw > 0
    <2>1. CASE \E l \in s.live : l.kw # 0
      BY <2>1, SnapshotFields DEF Optional, Session
    <2>2. CASE ~\E l \in s.live : l.kw # 0
      <3>1. c.power \subseteq {0}
        BY <2>2 DEF Columns, Nil, Some
      <3>2. {x \in c.power : x > 0} = {}
        BY <3>1
      <3>3. f.live = {}
        BY <3>2 DEF DecodeDataUpdate
      <3> QED
        BY <3>3 DEF Nil
    <2> QED
      BY <2>1, <2>2
  <1>3. \A km \in f.km : s.km # 0 /\ km - s.km \in -1..1
    <2>1. CASE s.km = 0
      BY <2>1 DEF Columns, DecodeDataUpdate, Nil
    <2>2. CASE s.km # 0
      <3>1. c.range = {KmToWholeMiles(s.km)}
        BY <2>2 DEF Columns, Some
      <3>2. f.km = {Round(1609 * KmToWholeMiles(s.km), 1000)}
        BY <3>1 DEF DecodeDataUpdate
      <3> QED
        BY <2>2, <3>2, SnapshotFields, WholeMilesClose
    <2> QED
      BY <2>1, <2>2
  <1> QED
    BY <1>1, <1>2, <1>3

\* The Rivian format.  A word and a number are read as they were written.
Wrap(v) == IF v = "" THEN Nil ELSE Text(v)

LEMMA WordRead ==
    ASSUME NEW v, v \notin InvalidSensorStates
    PROVE  Str(Wrap(v)) = v
  <1>1. CASE v = ""
    <2>1. {x[2] : x \in {y \in Valid(Nil) : y[1] = "text"}} = Nil
      BY DEF Valid, Nil
    <2> QED
      BY <1>1, <2>1, TheOne DEF Str, Wrap
  <1>2. CASE v # ""
    <2>1. Valid(Text(v)) = {<<"text", v>>}
      BY DEF Valid, Text, Some
    <2>2. {x[2] : x \in {y \in Valid(Text(v)) : y[1] = "text"}} = Some(v)
      <3> DEFINE e == <<"text", v>>
      <3>1. e[1] = "text" /\ e[2] = v
        OBVIOUS
      <3> HIDE DEF e
      <3>2. {y \in {e} : y[1] = "text"} = {e} /\ {x[2] : x \in {e}} = {v}
        BY <3>1
      <3> QED
        BY <2>1, <3>2 DEF Some, e
    <2> QED
      BY <1>2, <2>2, TheOne DEF Str, Wrap
  <1> QED
    BY <1>1, <1>2

LEMMA NumberRead ==
    ASSUME NEW n
    PROVE  F64(Number(n)) = n
  <1>1. Valid(Number(n)) = {<<"number", n>>}
    BY DEF Valid, Number, Some
  <1>2. {x[2] : x \in {y \in Valid(Number(n)) : y[1] \in {"number", "digits"}}} = Some(n)
    <2> DEFINE e == <<"number", n>>
    <2>1. e[1] = "number" /\ e[2] = n
      OBVIOUS
    <2> HIDE DEF e
    <2>2. {y \in {e} : y[1] \in {"number", "digits"}} = {e} /\ {x[2] : x \in {e}} = {n}
      BY <2>1
    <2> QED
      BY <1>1, <2>2 DEF Some, e
  <1> QED
    BY <1>2, TheOne DEF F64

\* The panel is read as it was written, part by part and door by door.
LEMMA PanelRead ==
    ASSUME NEW p \in Panel, NEW written,
           written = [f \in DOMAIN p |->
                        IF f = "locks" THEN [d \in DOMAIN p.locks |-> Wrap(p.locks[d])]
                        ELSE Wrap(p[f])]
    PROVE  [f \in DOMAIN written |->
              IF f = "locks" THEN [d \in DOMAIN written.locks |-> Str(written.locks[d])]
              ELSE Str(written[f])] = p
  <1> DEFINE read == [f \in DOMAIN written |->
                        IF f = "locks" THEN [d \in DOMAIN written.locks |-> Str(written.locks[d])]
                        ELSE Str(written[f])]
  <1>1. "locks" \in DOMAIN p /\ DOMAIN p.locks = {"front", "rear"}
        /\ p.locks = [d \in {"front", "rear"} |-> p.locks[d]]
        /\ p.locks["front"] \in Word /\ p.locks["rear"] \in Word
    BY DEF Panel
  <1>2. \A f \in DOMAIN p : f # "locks" => p[f] \in Word
    BY DEF Panel
  <1>3. written.locks = [d \in {"front", "rear"} |-> Wrap(p.locks[d])]
    BY <1>1
  <1>4. [d \in DOMAIN written.locks |-> Str(written.locks[d])] = p.locks
    <2>1. \A d \in {"front", "rear"} : Str(Wrap(p.locks[d])) = p.locks[d]
      BY <1>1, WordRead DEF Word
    <2> QED
      BY <1>1, <1>3, <2>1
  <1>5. \A f \in DOMAIN p : f # "locks" => Str(written[f]) = p[f]
    BY <1>2, WordRead DEF Word
  <1>6. \A f \in DOMAIN p : read[f] = p[f]
    BY <1>1, <1>4, <1>5
  <1>7. DOMAIN read = DOMAIN p
    OBVIOUS
  <1>8. p = [f \in DOMAIN p |-> p[f]]
    BY DEF Panel
  <1> QED
    BY <1>6, <1>7, <1>8

\* What the source flattens out of the sink's response.
LEMMA ResponseRead ==
    ASSUME NEW s \in Snapshot, NEW cloudOnline \in BOOLEAN, NEW userPresent \in BOOLEAN
    PROVE  Flatten(VehicleStateBody(s, cloudOnline, userPresent))
             = [online |-> cloudOnline \/ s.power # "offline",
                power |-> PowerToWire(s.power, userPresent), gear |-> GearToWire(s.gear),
                charger |-> ChargerToWire(s.charger), status |-> PlugToWire(s.plug),
                loc |-> s.loc, km |-> s.km, pct |-> s.pct, panel |-> s.panel]
  <1> DEFINE b == VehicleStateBody(s, cloudOnline, userPresent)
             v == [online |-> cloudOnline \/ s.power # "offline",
                   power |-> Wrap(PowerToWire(s.power, userPresent)),
                   gear |-> Wrap(GearToWire(s.gear)), loc |-> s.loc,
                   km |-> Number(10 * s.km), pct |-> Number(s.pct),
                   charger |-> Wrap(ChargerToWire(s.charger)), status |-> Wrap(PlugToWire(s.plug)),
                   panel |-> [f \in DOMAIN s.panel |->
                                IF f = "locks" THEN [d \in DOMAIN s.panel.locks |-> Wrap(s.panel.locks[d])]
                                ELSE Wrap(s.panel[f])]]
  <1>1. b.state = Some(v)
    BY DEF VehicleStateBody, Wrap
  <1>2. b.state # Nil /\ The(b.state, Nil) = v
    BY <1>1, TheOne
  <1>3. Str(v.power) = PowerToWire(s.power, userPresent)
    <2>1. PowerToWire(s.power, userPresent) \notin InvalidSensorStates
      BY DEF PowerToWire, InvalidSensorStates
    <2> QED
      BY <2>1, WordRead
  <1>4. Str(v.gear) = GearToWire(s.gear)
    <2>1. GearToWire(s.gear) \notin InvalidSensorStates
      BY SnapshotFields DEF GearToWire, InvalidSensorStates
    <2> QED
      BY <2>1, WordRead
  <1>5. Str(v.charger) = ChargerToWire(s.charger)
    <2>1. ChargerToWire(s.charger) \notin InvalidSensorStates
      BY DEF ChargerToWire, InvalidSensorStates
    <2> QED
      BY <2>1, WordRead
  <1>6. Str(v.status) = PlugToWire(s.plug)
    <2>1. PlugToWire(s.plug) \notin InvalidSensorStates
      BY DEF PlugToWire, InvalidSensorStates
    <2> QED
      BY <2>1, WordRead
  <1>7. Trunc(F64(v.km), 10) = s.km /\ F64(v.pct) = s.pct
    BY NumberRead, RoundTenths, SnapshotFields
  <1>8. [f \in DOMAIN v.panel |->
           IF f = "locks" THEN [d \in DOMAIN v.panel.locks |-> Str(v.panel.locks[d])]
           ELSE Str(v.panel[f])] = s.panel
    <2>1. PICK p \in Panel : p = s.panel
      BY SnapshotFields
    <2>2. v.panel = [f \in DOMAIN p |->
                       IF f = "locks" THEN [d \in DOMAIN p.locks |-> Wrap(p.locks[d])]
                       ELSE Wrap(p[f])]
      BY <2>1
    <2>3. PICK written : written = v.panel
      OBVIOUS
    <2> HIDE DEF v
    <2>4. written = [f \in DOMAIN p |->
                       IF f = "locks" THEN [d \in DOMAIN p.locks |-> Wrap(p.locks[d])]
                       ELSE Wrap(p[f])]
      BY <2>2, <2>3
    <2>5. [f \in DOMAIN written |->
             IF f = "locks" THEN [d \in DOMAIN written.locks |-> Str(written.locks[d])]
             ELSE Str(written[f])] = p
      BY <2>4, PanelRead
    <2> QED
      BY <2>1, <2>3, <2>5
  <1>9. v.online = (cloudOnline \/ s.power # "offline") /\ v.loc = s.loc
    OBVIOUS
  <1> HIDE DEF v
  <1> QED
    BY <1>2, <1>3, <1>4, <1>5, <1>6, <1>7, <1>8, <1>9 DEF Flatten

\* The session is read as it was written, but for the flag of a fast charger.
LEMMA SessionRead ==
    ASSUME NEW s \in Snapshot, NEW cloudOnline \in BOOLEAN, NEW userPresent \in BOOLEAN
    PROVE  FlattenLive(VehicleStateBody(s, cloudOnline, userPresent).live)
             = {[l EXCEPT !.fast = FALSE] : l \in s.live}
  <1> DEFINE Written(l) == [kw |-> Number(l.kw), amps |-> Number(l.amps), energy |-> Number(l.energy)]
             Read(x) == [kw |-> F64(x.kw), amps |-> F64(x.amps), energy |-> F64(x.energy), fast |-> FALSE]
             b == VehicleStateBody(s, cloudOnline, userPresent)
  <1>1. b.live = {Written(l) : l \in s.live}
    BY DEF VehicleStateBody
  <1>2. FlattenLive(b.live) = {Read(x) : x \in b.live}
    BY DEF FlattenLive
  <1>3. ASSUME NEW l \in Session
        PROVE  Read(Written(l)) = [l EXCEPT !.fast = FALSE]
    <2>1. Read(Written(l)) = [kw |-> l.kw, amps |-> l.amps, energy |-> l.energy, fast |-> FALSE]
      BY NumberRead
    <2>2. [l EXCEPT !.fast = FALSE]
            = [kw |-> l.kw, amps |-> l.amps, energy |-> l.energy, fast |-> FALSE]
      <3>1. DOMAIN l = {"kw", "energy", "fast", "amps"}
        BY DEF Session
      <3> DEFINE m == [l EXCEPT !.fast = FALSE]
                 n == [kw |-> l.kw, amps |-> l.amps, energy |-> l.energy, fast |-> FALSE]
      <3>2. /\ m = [x \in DOMAIN m |-> m[x]] /\ DOMAIN m = DOMAIN l
            /\ m.kw = l.kw /\ m.amps = l.amps /\ m.energy = l.energy /\ m.fast = FALSE
        BY <3>1
      <3> HIDE DEF m
      <3>3. m = n
        BY <3>1, <3>2
      <3> QED
        BY <3>3 DEF m
    <2> QED
      BY <2>1, <2>2
  <1>4. s.live = Nil \/ \E l \in Session : s.live = Some(l)
    BY SnapshotFields, OptionalCases
  <1>5. CASE s.live = Nil
    BY <1>1, <1>2, <1>5 DEF Nil
  <1>6. ASSUME NEW l \in Session, s.live = Some(l)
        PROVE  FlattenLive(b.live) = {[x EXCEPT !.fast = FALSE] : x \in s.live}
    <2> HIDE DEF Written, Read
    <2>1. b.live = {Written(l)}
      BY <1>1, <1>6 DEF Some
    <2>2. FlattenLive(b.live) = {Read(Written(l))}
      BY <1>2, <2>1
    <2> QED
      BY <1>3, <1>6, <2>2 DEF Some
  <1> QED
    BY <1>4, <1>5, <1>6

\* The Rivian source reads back what the Rivian sink wrote.
LEMMA RivianInverse ==
    ASSUME NEW s \in Snapshot, NEW cloudOnline \in BOOLEAN, NEW userPresent \in BOOLEAN
    PROVE  LET r == RivianPoll(VehicleStateBody(s, cloudOnline, userPresent))
           IN  /\ r.gear = s.gear /\ r.loc = s.loc /\ r.km = s.km /\ r.pct = s.pct
               /\ r.panel = s.panel
               /\ r.power = IF s.power = "unknown" THEN "offline" ELSE s.power
               /\ r.charger = IF s.charger = "unknown" THEN "disconnect" ELSE s.charger
               /\ s.plug # "unknown" => r.plug = s.plug
               /\ r.plug = "disconnected" <=> s.plug = "disconnected"
               /\ r.live = IF r.plug = "connected"
                           THEN {[l EXCEPT !.fast = FALSE] : l \in s.live} ELSE Nil
  <1> DEFINE b == VehicleStateBody(s, cloudOnline, userPresent)
             v == Flatten(b)
             r == RivianPoll(b)
  <1>1. v = [online |-> cloudOnline \/ s.power # "offline",
             power |-> PowerToWire(s.power, userPresent), gear |-> GearToWire(s.gear),
             charger |-> ChargerToWire(s.charger), status |-> PlugToWire(s.plug),
             loc |-> s.loc, km |-> s.km, pct |-> s.pct, panel |-> s.panel]
    BY ResponseRead
  <1>2. r = ToCanonical(v, IF PluggedIn(v) THEN FlattenLive(b.live) ELSE Nil)
    BY DEF RivianPoll
  <1>3. FlattenLive(b.live) = {[l EXCEPT !.fast = FALSE] : l \in s.live}
    BY SessionRead
  <1> HIDE DEF v, r, b
  <1>4. r.loc = s.loc /\ r.km = s.km /\ r.pct = s.pct /\ r.panel = s.panel
    BY <1>1, <1>2 DEF ToCanonical
  <1>5. r.gear = s.gear
    <2>1. GearToCanonical(GearToWire(s.gear)) = s.gear
      BY SnapshotFields DEF GearToCanonical, GearToWire
    <2> QED
      BY <1>1, <1>2, <2>1 DEF ToCanonical
  <1>6. r.power = IF s.power = "unknown" THEN "offline" ELSE s.power
    <2>1. r.power = PowerToCanonical(v.power, v.online)
      BY <1>2 DEF ToCanonical
    <2>2. v.power = PowerToWire(s.power, userPresent)
          /\ (s.power # "offline" => v.online)
      BY <1>1
    <2> QED
      BY <2>1, <2>2, SnapshotFields DEF PowerToCanonical, PowerToWire
  <1>7. r.charger = IF s.charger = "unknown" THEN "disconnect" ELSE s.charger
    <2>1. r.charger = ChargerToCanonical(ChargerToWire(s.charger))
      BY <1>1, <1>2 DEF ToCanonical
    <2> QED
      BY <2>1, SnapshotFields DEF ChargerToCanonical, ChargerToWire
  <1>8. r.plug = PlugToCanonical(ChargerToWire(s.charger), PlugToWire(s.plug))
    BY <1>1, <1>2 DEF ToCanonical
  <1>9. (s.plug # "unknown" => r.plug = s.plug)
        /\ (r.plug = "disconnected" <=> s.plug = "disconnected")
    BY <1>8, SnapshotFields DEF PlugToCanonical, PlugToWire
  <1>10. PluggedIn(v) <=> r.plug = "connected"
    <2>1. v.charger = ChargerToWire(s.charger) /\ v.status = PlugToWire(s.plug)
      BY <1>1
    <2> QED
      BY <1>8, <2>1 DEF PluggedIn, PlugToCanonical
  <1>11. r.live = IF r.plug = "connected" THEN FlattenLive(b.live) ELSE Nil
    BY <1>2, <1>10 DEF ToCanonical
  <1>12. r.live = IF r.plug = "connected" THEN {[l EXCEPT !.fast = FALSE] : l \in s.live} ELSE Nil
    BY <1>11, <1>3
  <1> QED
    BY <1>4, <1>5, <1>6, <1>7, <1>9, <1>12 DEF r, b

-----------------------------------------------------------------------------
(* The invariants, of any snapshot.                                         *)

LEMMA SnapshotNoPhantom ==
    ASSUME up \in Snapshot
    PROVE  NoPhantom
  <1> DEFINE Phantom(s) ==
                 \/ s.power = "online" /\ up.power \notin {"online", "unknown"}
                 \/ s.gear \in {"drive", "reverse", "neutral"} /\ s.gear # up.gear
                 \/ /\ s.charger = "charging" /\ s.plug # "disconnected"
                    /\ up.charger # "charging" \/ up.plug = "disconnected"
  <1>1. ~Phantom(DecodeVehicleData(VehicleData(Nil, up)))
    BY VehicleDataInverse
  <1>2. ~Phantom(ToSnapshot(ToRow(up)))
    BY RowInverse
  <1>3. ~Phantom(RivianPoll(VehicleStateBody(up, TRUE, FALSE)))
    BY RivianInverse, SnapshotFields
  <1>4. DecodeDataUpdate(Columns(up)).gear # Nil
          => /\ DecodeDataUpdate(Columns(up)).gear = {up.gear}
             /\ DecodeDataUpdate(Columns(up)).loc # Nil
    BY FrameInverse DEF Some
  <1>5. DecodeDataUpdate(Columns(up)).live # Nil => \E l \in up.live : l.kw > 0
    BY FrameInverse
  <1> QED
    BY <1>1, <1>2, <1>3, <1>4, <1>5 DEF NoPhantom

LEMMA SnapshotReadingsSurvive ==
    ASSUME up \in Snapshot
    PROVE  ReadingsSurvive
  <1>1. DecodeVehicleData(VehicleData(Nil, up)).km = up.km
    BY VehicleDataInverse
  <1>2. \A km \in DecodeDataUpdate(Columns(up)).km : up.km # 0 /\ km - up.km \in -1..1
    BY FrameInverse
  <1>3. ToSnapshot(ToRow(up)).km - up.km \in -1..0
    BY RowInverse
  <1>4. ASSUME NEW cloudOnline \in BOOLEAN, NEW userPresent \in BOOLEAN
        PROVE  LET s == RivianPoll(VehicleStateBody(up, cloudOnline, userPresent))
               IN  /\ <<s.gear, s.loc, s.km, s.pct, s.panel>>
                        = <<up.gear, up.loc, up.km, up.pct, up.panel>>
                   /\ up.power # "unknown" => s.power = up.power
                   /\ up.charger # "unknown" => s.charger = up.charger
                   /\ up.plug # "unknown" => s.plug = up.plug
                   /\ s.live = IF s.plug = "connected" THEN {[l EXCEPT !.fast = FALSE] : l \in up.live}
                               ELSE Nil
    BY RivianInverse
  <1> QED
    BY <1>1, <1>2, <1>3, <1>4 DEF ReadingsSurvive

-----------------------------------------------------------------------------
(* Fleet Telemetry payloads.                                                *)

\* The last of the data with some keys is one of them.
LEMMA MaxChosen ==
    ASSUME NEW n \in Nat, NEW at \in SUBSET (1..n), at # {}
    PROVE  Max(at) \in at
  <1> DEFINE T == {n - i : i \in at}
  <1>1. T \subseteq Nat /\ T # {}
    <2>1. ASSUME NEW i \in at PROVE n - i \in Nat
      <3>1. i \in 1..n
        OBVIOUS
      <3> QED
        BY <3>1
    <2> QED
      BY <2>1
  <1>2. PICK m \in T : \A y \in T : ~(<<y, m>> \in OpToRel(<, Nat))
    BY <1>1, NatLessThanWellFounded, WFMin
  <1>3. \A y \in T : ~(y < m)
    BY <1>1, <1>2 DEF OpToRel
  <1>4. PICK i \in at : m = n - i
    BY <1>2
  <1>5. ASSUME NEW j \in at PROVE i >= j
    <2>1. i \in 1..n /\ j \in 1..n /\ n - j \in T
      OBVIOUS
    <2>2. ~(n - j < n - i)
      BY <1>3, <1>4, <2>1
    <2> QED
      BY <2>1, <2>2
  <1> QED
    BY <1>4, <1>5 DEF Max

\* Of several data the last one is taken.
LEMMA LatestCases ==
    ASSUME NEW payload, Len(payload) \in Nat, DOMAIN payload = 1..Len(payload),
           NEW at \in SUBSET DOMAIN payload
    PROVE  Latest(payload, at) = Nil \/ \E i \in at : Latest(payload, at) = Some(payload[i].value)
  <1>1. CASE at = {}
    BY <1>1 DEF Latest
  <1>2. CASE at # {}
    <2>1. Max(at) \in at
      BY <1>2, MaxChosen
    <2> QED
      BY <1>2, <2>1 DEF Latest
  <1> QED
    BY <1>1, <1>2

LEMMA CarriedCases ==
    ASSUME NEW payload, NEW keys, Len(payload) \in Nat, DOMAIN payload = 1..Len(payload)
    PROVE  \/ Carried(payload, keys) = Nil
           \/ \E i \in DOMAIN payload : Carried(payload, keys) = Some(payload[i].value)
  <1> DEFINE at == {i \in DOMAIN payload : payload[i].key \in keys}
  <1>1. at \in SUBSET DOMAIN payload
    OBVIOUS
  <1>2. Latest(payload, at) = Nil \/ \E i \in at : Latest(payload, at) = Some(payload[i].value)
    BY <1>1, LatestCases
  <1> QED
    BY <1>2 DEF Carried

LEMMA FixesCases ==
    ASSUME NEW payload, Len(payload) \in Nat, DOMAIN payload = 1..Len(payload)
    PROVE  \/ Fixes(payload) = Nil
           \/ \E i \in DOMAIN payload : /\ payload[i].value.kind = "location"
                                        /\ Fixes(payload) = Some(payload[i].value)
  <1> DEFINE at == {i \in DOMAIN payload :
                      payload[i].key = "Location" /\ payload[i].value.kind = "location"}
  <1>1. at \in SUBSET DOMAIN payload
    OBVIOUS
  <1>2. Latest(payload, at) = Nil \/ \E i \in at : Latest(payload, at) = Some(payload[i].value)
    BY <1>1, LatestCases
  <1> QED
    BY <1>2 DEF Fixes

\* A key that occurs once, and keys that do not occur.
LEMMA LatestOne ==
    ASSUME NEW payload, NEW i \in Nat
    PROVE  Latest(payload, {i}) = Some(payload[i].value)
  <1>1. Max({i}) = i
    BY DEF Max
  <1> QED
    BY <1>1 DEF Latest

LEMMA CarriedOnce ==
    ASSUME NEW payload, NEW keys, NEW i \in DOMAIN payload, i \in Nat,
           payload[i].key \in keys,
           \A j \in DOMAIN payload : payload[j].key \in keys => j = i
    PROVE  Carried(payload, keys) = Some(payload[i].value)
  <1>1. {j \in DOMAIN payload : payload[j].key \in keys} = {i}
    OBVIOUS
  <1> QED
    BY <1>1, LatestOne DEF Carried

LEMMA TenItems ==
    ASSUME NEW a, NEW b, NEW c, NEW d, NEW e, NEW f, NEW g, NEW h, NEW i, NEW j
    PROVE  LET q == <<a, b, c, d, e, f, g, h, i, j>>
           IN  /\ DOMAIN q = 1..10 /\ q[1] = a /\ q[2] = b /\ q[3] = c /\ q[4] = d /\ q[5] = e
               /\ q[6] = f /\ q[7] = g /\ q[8] = h /\ q[9] = i /\ q[10] = j
  OBVIOUS

\* A datum by the generation of the firmware.
DatumOf(typed, key, new, old, is) ==
    [key |-> key, value |-> [kind |-> IF typed THEN new ELSE old, is |-> is]]

Says(d, key, kind, is) == d.key = key /\ d.value.kind = kind /\ d.value.is = is

LEMMA DatumSays ==
    ASSUME NEW typed \in BOOLEAN, NEW key, NEW new, NEW old, NEW is,
           NEW d, d = DatumOf(typed, key, new, old, is)
    PROVE  (typed => Says(d, key, new, is)) /\ (~typed => Says(d, key, old, is))
  BY DEF DatumOf, Says

\* The data of a car.
LockedDatum(typed, w) ==
    DatumOf(typed, "Locked", "bool", "string",
            IF typed THEN w.locked ELSE IF w.locked THEN "true" ELSE "false")

SentryDatum(typed, w) ==
    DatumOf(typed, "SentryMode", "SentryModeState", "bool",
            IF ~typed THEN w.sentry ELSE IF w.sentry THEN "Armed" ELSE "Off")

FixDatum(typed, loc) ==
    IF loc = Nil THEN DatumOf(typed, "Location", "invalid", "invalid", TRUE)
    ELSE DatumOf(typed, "Location", "location", "location", The(loc, ""))

PowerDatum(typed, l) ==
    DatumOf(typed, IF l.fast THEN "DCChargingPower" ELSE "ACChargingPower", "double", "digits", l.kw)

EnergyDatum(typed, l) ==
    DatumOf(typed, IF l.fast THEN "DCChargingEnergyIn" ELSE "ACChargingEnergyIn", "double", "digits",
            l.energy)

LEMMA CarTuple ==
    ASSUME NEW s, NEW charging, NEW typed \in BOOLEAN
    PROVE  CarPayload(s, charging, typed) =
             <<DatumOf(typed, "Gear", "ShiftState", "string", Letter[s.gear]),
               DatumOf(typed, "RatedRange", "double", "digits", KmToMiles(s.km)),
               DatumOf(typed, "Soc", "float", "digits", s.pct),
               DatumOf(typed, "DetailedChargeState", "DetailedChargeState", "string", charging),
               LockedDatum(typed, EncodePanel(s.panel)), SentryDatum(typed, EncodePanel(s.panel)),
               FixDatum(typed, s.loc), PowerDatum(typed, Metered(s)),
               EnergyDatum(typed, Metered(s)),
               DatumOf(typed, "ChargeAmps", "double", "digits", Metered(s).amps)>>
  BY DEF CarPayload, DatumOf, LockedDatum, SentryDatum, FixDatum, PowerDatum, EnergyDatum

LEMMA CarData ==
    ASSUME NEW s, NEW charging, NEW typed \in BOOLEAN, NEW l, l = Metered(s),
           NEW w, w = EncodePanel(s.panel), NEW P, P = CarPayload(s, charging, typed)
    PROVE  /\ DOMAIN P = 1..10
           /\ P[1] = DatumOf(typed, "Gear", "ShiftState", "string", Letter[s.gear])
           /\ P[2] = DatumOf(typed, "RatedRange", "double", "digits", KmToMiles(s.km))
           /\ P[3] = DatumOf(typed, "Soc", "float", "digits", s.pct)
           /\ P[4] = DatumOf(typed, "DetailedChargeState", "DetailedChargeState", "string", charging)
           /\ P[5] = LockedDatum(typed, w) /\ P[6] = SentryDatum(typed, w)
           /\ P[7] = FixDatum(typed, s.loc) /\ P[8] = PowerDatum(typed, l)
           /\ P[9] = EnergyDatum(typed, l)
           /\ P[10] = DatumOf(typed, "ChargeAmps", "double", "digits", l.amps)
  <1>1. PICK d1, d2, d3, d4, d5, d6, d7, d8, d9, d10 :
          /\ d1 = DatumOf(typed, "Gear", "ShiftState", "string", Letter[s.gear])
          /\ d2 = DatumOf(typed, "RatedRange", "double", "digits", KmToMiles(s.km))
          /\ d3 = DatumOf(typed, "Soc", "float", "digits", s.pct)
          /\ d4 = DatumOf(typed, "DetailedChargeState", "DetailedChargeState", "string", charging)
          /\ d5 = LockedDatum(typed, w) /\ d6 = SentryDatum(typed, w)
          /\ d7 = FixDatum(typed, s.loc) /\ d8 = PowerDatum(typed, l)
          /\ d9 = EnergyDatum(typed, l)
          /\ d10 = DatumOf(typed, "ChargeAmps", "double", "digits", l.amps)
    OBVIOUS
  <1>2. P = <<d1, d2, d3, d4, d5, d6, d7, d8, d9, d10>>
    BY <1>1, CarTuple
  <1>3. /\ DOMAIN P = 1..10 /\ P[1] = d1 /\ P[2] = d2 /\ P[3] = d3 /\ P[4] = d4 /\ P[5] = d5
        /\ P[6] = d6 /\ P[7] = d7 /\ P[8] = d8 /\ P[9] = d9 /\ P[10] = d10
    BY <1>2, TenItems
  <1> QED
    BY <1>1, <1>3

\* What they say.
LEMMA CarSays ==
    ASSUME NEW s, NEW charging, NEW typed \in BOOLEAN, NEW l, l = Metered(s),
           NEW w, w = EncodePanel(s.panel), NEW P, P = CarPayload(s, charging, typed)
    PROVE  /\ typed => Says(P[1], "Gear", "ShiftState", Letter[s.gear])
           /\ ~typed => Says(P[1], "Gear", "string", Letter[s.gear])
           /\ typed => Says(P[2], "RatedRange", "double", KmToMiles(s.km))
           /\ ~typed => Says(P[2], "RatedRange", "digits", KmToMiles(s.km))
           /\ typed => Says(P[3], "Soc", "float", s.pct)
           /\ ~typed => Says(P[3], "Soc", "digits", s.pct)
           /\ typed => Says(P[4], "DetailedChargeState", "DetailedChargeState", charging)
           /\ ~typed => Says(P[4], "DetailedChargeState", "string", charging)
           /\ typed => Says(P[10], "ChargeAmps", "double", l.amps)
           /\ ~typed => Says(P[10], "ChargeAmps", "digits", l.amps)
           /\ s.loc = Nil => Says(P[7], "Location", "invalid", TRUE)
           /\ s.loc # Nil => Says(P[7], "Location", "location", The(s.loc, ""))
  <1>1. /\ P[1] = DatumOf(typed, "Gear", "ShiftState", "string", Letter[s.gear])
        /\ P[2] = DatumOf(typed, "RatedRange", "double", "digits", KmToMiles(s.km))
        /\ P[3] = DatumOf(typed, "Soc", "float", "digits", s.pct)
        /\ P[4] = DatumOf(typed, "DetailedChargeState", "DetailedChargeState", "string", charging)
        /\ P[10] = DatumOf(typed, "ChargeAmps", "double", "digits", l.amps)
    BY CarData
  <1>2. P[7] = IF s.loc = Nil THEN DatumOf(typed, "Location", "invalid", "invalid", TRUE)
               ELSE DatumOf(typed, "Location", "location", "location", The(s.loc, ""))
    <2>1. P[7] = FixDatum(typed, s.loc)
      BY CarData
    <2> QED
      BY <2>1 DEF FixDatum
  <1>3. PICK letter, miles : letter = Letter[s.gear] /\ miles = KmToMiles(s.km)
    OBVIOUS
  <1>4. /\ typed => Says(P[1], "Gear", "ShiftState", letter)
        /\ ~typed => Says(P[1], "Gear", "string", letter)
    BY <1>1, <1>3, DatumSays
  <1>5. /\ typed => Says(P[2], "RatedRange", "double", miles)
        /\ ~typed => Says(P[2], "RatedRange", "digits", miles)
    BY <1>1, <1>3, DatumSays
  <1>6. typed => Says(P[3], "Soc", "float", s.pct)
    BY <1>1, DatumSays
  <1>7. ~typed => Says(P[3], "Soc", "digits", s.pct)
    BY <1>1, DatumSays
  <1>8. /\ typed => Says(P[4], "DetailedChargeState", "DetailedChargeState", charging)
        /\ ~typed => Says(P[4], "DetailedChargeState", "string", charging)
    BY <1>1, DatumSays
  <1>9. /\ typed => Says(P[10], "ChargeAmps", "double", l.amps)
        /\ ~typed => Says(P[10], "ChargeAmps", "digits", l.amps)
    BY <1>1, DatumSays
  <1>10. s.loc = Nil => Says(P[7], "Location", "invalid", TRUE)
    BY <1>2, DatumSays
  <1>11. s.loc # Nil => Says(P[7], "Location", "location", The(s.loc, ""))
    <2>1. PICK x : x = The(s.loc, "")
      OBVIOUS
    <2> QED
      BY <1>2, <2>1, DatumSays
  <1> QED
    BY <1>3, <1>4, <1>5, <1>6, <1>7, <1>8, <1>9, <1>10, <1>11

\* What those say whose key or value is chosen.
LEMMA CarSaysToo ==
    ASSUME NEW s, NEW charging, NEW typed \in BOOLEAN, NEW l, l = Metered(s),
           NEW w, w = EncodePanel(s.panel), NEW P, P = CarPayload(s, charging, typed)
    PROVE  /\ \E key \in {"DCChargingPower", "ACChargingPower"} :
                 /\ typed => Says(P[8], key, "double", l.kw)
                 /\ ~typed => Says(P[8], key, "digits", l.kw)
           /\ \E key \in {"DCChargingEnergyIn", "ACChargingEnergyIn"} :
                 /\ typed => Says(P[9], key, "double", l.energy)
                 /\ ~typed => Says(P[9], key, "digits", l.energy)
           /\ typed => Says(P[5], "Locked", "bool", w.locked)
           /\ ~typed /\ w.locked => Says(P[5], "Locked", "string", "true")
           /\ ~typed /\ ~w.locked => Says(P[5], "Locked", "string", "false")
           /\ ~typed => Says(P[6], "SentryMode", "bool", w.sentry)
           /\ typed /\ w.sentry => Says(P[6], "SentryMode", "SentryModeState", "Armed")
           /\ typed /\ ~w.sentry => Says(P[6], "SentryMode", "SentryModeState", "Off")
  <1>1. PICK k8 \in {"DCChargingPower", "ACChargingPower"},
             k9 \in {"DCChargingEnergyIn", "ACChargingEnergyIn"} :
           /\ k8 = IF l.fast THEN "DCChargingPower" ELSE "ACChargingPower"
           /\ k9 = IF l.fast THEN "DCChargingEnergyIn" ELSE "ACChargingEnergyIn"
    OBVIOUS
  <1>2. P[8] = DatumOf(typed, k8, "double", "digits", l.kw)
    <2>1. P[8] = PowerDatum(typed, l)
      BY CarData
    <2>2. PowerDatum(typed, l) = DatumOf(typed, k8, "double", "digits", l.kw)
      BY <1>1 DEF PowerDatum
    <2> QED
      BY <2>1, <2>2
  <1>3. P[9] = DatumOf(typed, k9, "double", "digits", l.energy)
    <2>1. P[9] = EnergyDatum(typed, l)
      BY CarData
    <2>2. EnergyDatum(typed, l) = DatumOf(typed, k9, "double", "digits", l.energy)
      BY <1>1 DEF EnergyDatum
    <2> QED
      BY <2>1, <2>2
  <1>4. PICK lk, sn :
           /\ lk = IF typed THEN w.locked ELSE IF w.locked THEN "true" ELSE "false"
           /\ sn = IF ~typed THEN w.sentry ELSE IF w.sentry THEN "Armed" ELSE "Off"
    OBVIOUS
  <1>5. /\ P[5] = DatumOf(typed, "Locked", "bool", "string", lk)
        /\ P[6] = DatumOf(typed, "SentryMode", "SentryModeState", "bool", sn)
    <2>1. P[5] = LockedDatum(typed, w) /\ P[6] = SentryDatum(typed, w)
      BY CarData
    <2>2. LockedDatum(typed, w) = DatumOf(typed, "Locked", "bool", "string", lk)
      BY <1>4 DEF LockedDatum
    <2>3. SentryDatum(typed, w) = DatumOf(typed, "SentryMode", "SentryModeState", "bool", sn)
      BY <1>4 DEF SentryDatum
    <2> QED
      BY <2>1, <2>2, <2>3
  <1>6. typed => Says(P[8], k8, "double", l.kw)
    BY <1>2, DatumSays
  <1>7. ~typed => Says(P[8], k8, "digits", l.kw)
    BY <1>2, DatumSays
  <1>8. typed => Says(P[9], k9, "double", l.energy)
    BY <1>3, DatumSays
  <1>9. ~typed => Says(P[9], k9, "digits", l.energy)
    BY <1>3, DatumSays
  <1>10. /\ typed => Says(P[5], "Locked", "bool", lk)
         /\ ~typed => Says(P[5], "Locked", "string", lk)
    BY <1>5, DatumSays
  <1>11. /\ typed => Says(P[6], "SentryMode", "SentryModeState", sn)
         /\ ~typed => Says(P[6], "SentryMode", "bool", sn)
    BY <1>5, DatumSays
  <1>12. /\ typed => lk = w.locked
         /\ ~typed /\ w.locked => lk = "true"
         /\ ~typed /\ ~w.locked => lk = "false"
         /\ ~typed => sn = w.sentry
         /\ typed /\ w.sentry => sn = "Armed"
         /\ typed /\ ~w.sentry => sn = "Off"
    BY <1>4, Zenon
  <1>13. /\ \E key \in {"DCChargingPower", "ACChargingPower"} :
               /\ typed => Says(P[8], key, "double", l.kw)
               /\ ~typed => Says(P[8], key, "digits", l.kw)
         /\ \E key \in {"DCChargingEnergyIn", "ACChargingEnergyIn"} :
               /\ typed => Says(P[9], key, "double", l.energy)
               /\ ~typed => Says(P[9], key, "digits", l.energy)
    BY <1>6, <1>7, <1>8, <1>9
  <1>14. /\ typed => Says(P[5], "Locked", "bool", w.locked)
         /\ ~typed /\ w.locked => Says(P[5], "Locked", "string", "true")
         /\ ~typed /\ ~w.locked => Says(P[5], "Locked", "string", "false")
    BY <1>10, <1>12, Zenon
  <1>15. /\ ~typed => Says(P[6], "SentryMode", "bool", w.sentry)
         /\ typed /\ w.sentry => Says(P[6], "SentryMode", "SentryModeState", "Armed")
         /\ typed /\ ~w.sentry => Says(P[6], "SentryMode", "SentryModeState", "Off")
    BY <1>11, <1>12, Zenon
  <1> QED
    BY <1>13, <1>14, <1>15

\* Every key of that payload occurs once.
LEMMA CarKeys ==
    ASSUME NEW s, NEW charging, NEW typed \in BOOLEAN,
           NEW P, P = CarPayload(s, charging, typed)
    PROVE  /\ DOMAIN P = 1..10
           /\ P[1].key = "Gear" /\ P[2].key = "RatedRange" /\ P[3].key = "Soc"
           /\ P[4].key = "DetailedChargeState" /\ P[5].key = "Locked" /\ P[6].key = "SentryMode"
           /\ P[7].key = "Location" /\ P[8].key \in {"DCChargingPower", "ACChargingPower"}
           /\ P[9].key \in {"DCChargingEnergyIn", "ACChargingEnergyIn"} /\ P[10].key = "ChargeAmps"
  <1>1. PICK l, w : l = Metered(s) /\ w = EncodePanel(s.panel)
    OBVIOUS
  <1>2. DOMAIN P = 1..10
    BY <1>1, CarData
  <1>4. P[1].key = "Gear" /\ P[2].key = "RatedRange"
    <2>1. /\ typed => Says(P[1], "Gear", "ShiftState", Letter[s.gear])
          /\ ~typed => Says(P[1], "Gear", "string", Letter[s.gear])
          /\ typed => Says(P[2], "RatedRange", "double", KmToMiles(s.km))
          /\ ~typed => Says(P[2], "RatedRange", "digits", KmToMiles(s.km))
      BY <1>1, CarSays
    <2> QED
      BY <2>1 DEF Says
  <1>5. P[3].key = "Soc" /\ P[4].key = "DetailedChargeState"
    <2>1. /\ typed => Says(P[3], "Soc", "float", s.pct)
          /\ ~typed => Says(P[3], "Soc", "digits", s.pct)
          /\ typed => Says(P[4], "DetailedChargeState", "DetailedChargeState", charging)
          /\ ~typed => Says(P[4], "DetailedChargeState", "string", charging)
      BY <1>1, CarSays
    <2> QED
      BY <2>1 DEF Says
  <1>6. P[7].key = "Location" /\ P[10].key = "ChargeAmps"
    <2>1. /\ typed => Says(P[10], "ChargeAmps", "double", l.amps)
          /\ ~typed => Says(P[10], "ChargeAmps", "digits", l.amps)
          /\ s.loc = Nil => Says(P[7], "Location", "invalid", TRUE)
          /\ s.loc # Nil => Says(P[7], "Location", "location", The(s.loc, ""))
      BY <1>1, CarSays
    <2> QED
      BY <2>1 DEF Says
  <1>7. P[5].key = "Locked" /\ P[6].key = "SentryMode"
    BY <1>1, CarSaysToo DEF Says
  <1>8. PICK k8 \in {"DCChargingPower", "ACChargingPower"} : P[8].key = k8
    BY <1>1, CarSaysToo DEF Says
  <1>9. PICK k9 \in {"DCChargingEnergyIn", "ACChargingEnergyIn"} : P[9].key = k9
    BY <1>1, CarSaysToo DEF Says
  <1> QED
    BY <1>2, <1>4, <1>5, <1>6, <1>7, <1>8, <1>9

LEMMA CarCarried ==
    ASSUME NEW s, NEW charging, NEW typed \in BOOLEAN,
           NEW P, P = CarPayload(s, charging, typed)
    PROVE  /\ Carried(P, {"Gear"}) = {P[1].value}
           /\ Carried(P, {"RatedRange"}) = {P[2].value}
           /\ Carried(P, {"Soc"}) = {P[3].value}
           /\ Carried(P, {"DetailedChargeState"}) = {P[4].value}
           /\ Carried(P, {"Locked"}) = {P[5].value}
           /\ Carried(P, {"SentryMode"}) = {P[6].value}
           /\ Carried(P, {"DCChargingPower", "ACChargingPower"}) = {P[8].value}
           /\ Carried(P, {"DCChargingEnergyIn", "ACChargingEnergyIn"}) = {P[9].value}
           /\ Carried(P, {"ChargeAmps"}) = {P[10].value}
  <1>1. /\ P[1].key = "Gear" /\ P[2].key = "RatedRange" /\ P[3].key = "Soc"
        /\ P[4].key = "DetailedChargeState" /\ P[5].key = "Locked" /\ P[6].key = "SentryMode"
        /\ P[7].key = "Location" /\ P[8].key \in {"DCChargingPower", "ACChargingPower"}
        /\ P[9].key \in {"DCChargingEnergyIn", "ACChargingEnergyIn"} /\ P[10].key = "ChargeAmps"
    BY CarKeys
  <1>2. DOMAIN P = 1..10
    BY CarKeys
  <1>3. \A j \in DOMAIN P : \/ j = 1 \/ j = 2 \/ j = 3 \/ j = 4 \/ j = 5
                            \/ j = 6 \/ j = 7 \/ j = 8 \/ j = 9 \/ j = 10
    BY <1>2
  <1>4. /\ 1 \in DOMAIN P /\ 2 \in DOMAIN P /\ 3 \in DOMAIN P /\ 4 \in DOMAIN P /\ 5 \in DOMAIN P
        /\ 6 \in DOMAIN P /\ 8 \in DOMAIN P /\ 9 \in DOMAIN P /\ 10 \in DOMAIN P
    BY <1>2
  <1>5. Carried(P, {"Gear"}) = {P[1].value}
    <2>1. \A j \in DOMAIN P : P[j].key \in {"Gear"} => j = 1
      BY <1>1, <1>3
    <2> QED
      BY <1>1, <1>4, <2>1, CarriedOnce DEF Some
  <1>6. Carried(P, {"RatedRange"}) = {P[2].value}
    <2>1. \A j \in DOMAIN P : P[j].key \in {"RatedRange"} => j = 2
      BY <1>1, <1>3
    <2> QED
      BY <1>1, <1>4, <2>1, CarriedOnce DEF Some
  <1>7. Carried(P, {"Soc"}) = {P[3].value}
    <2>1. \A j \in DOMAIN P : P[j].key \in {"Soc"} => j = 3
      BY <1>1, <1>3
    <2> QED
      BY <1>1, <1>4, <2>1, CarriedOnce DEF Some
  <1>8. Carried(P, {"DetailedChargeState"}) = {P[4].value}
    <2>1. \A j \in DOMAIN P : P[j].key \in {"DetailedChargeState"} => j = 4
      BY <1>1, <1>3
    <2> QED
      BY <1>1, <1>4, <2>1, CarriedOnce DEF Some
  <1>9. Carried(P, {"Locked"}) = {P[5].value}
    <2>1. \A j \in DOMAIN P : P[j].key \in {"Locked"} => j = 5
      BY <1>1, <1>3
    <2> QED
      BY <1>1, <1>4, <2>1, CarriedOnce DEF Some
  <1>10. Carried(P, {"SentryMode"}) = {P[6].value}
    <2>1. \A j \in DOMAIN P : P[j].key \in {"SentryMode"} => j = 6
      BY <1>1, <1>3
    <2> QED
      BY <1>1, <1>4, <2>1, CarriedOnce DEF Some
  <1>11. Carried(P, {"DCChargingPower", "ACChargingPower"}) = {P[8].value}
    <2>1. \A j \in DOMAIN P : P[j].key \in {"DCChargingPower", "ACChargingPower"} => j = 8
      BY <1>1, <1>3
    <2> QED
      BY <1>1, <1>4, <2>1, CarriedOnce DEF Some
  <1>12. Carried(P, {"DCChargingEnergyIn", "ACChargingEnergyIn"}) = {P[9].value}
    <2>1. \A j \in DOMAIN P : P[j].key \in {"DCChargingEnergyIn", "ACChargingEnergyIn"} => j = 9
      BY <1>1, <1>3
    <2> QED
      BY <1>1, <1>4, <2>1, CarriedOnce DEF Some
  <1>13. Carried(P, {"ChargeAmps"}) = {P[10].value}
    <2>1. \A j \in DOMAIN P : P[j].key \in {"ChargeAmps"} => j = 10
      BY <1>1, <1>3
    <2> QED
      BY <1>1, <1>4, <2>1, CarriedOnce DEF Some
  <1> QED
    BY <1>5, <1>6, <1>7, <1>8, <1>9, <1>10, <1>11, <1>12, <1>13

\* Its position, if it has one.
LEMMA CarFix ==
    ASSUME NEW s, s.loc \in Optional(STRING), NEW charging, NEW typed \in BOOLEAN,
           NEW P, P = CarPayload(s, charging, typed)
    PROVE  {v.is : v \in Fixes(P)} = s.loc
  <1> DEFINE at == {j \in DOMAIN P : P[j].key = "Location" /\ P[j].value.kind = "location"}
  <1>1. /\ P[1].key # "Location" /\ P[2].key # "Location" /\ P[3].key # "Location"
        /\ P[4].key # "Location" /\ P[5].key # "Location" /\ P[6].key # "Location"
        /\ P[8].key # "Location" /\ P[9].key # "Location" /\ P[10].key # "Location"
        /\ P[7].key = "Location" /\ DOMAIN P = 1..10
    BY CarKeys
  <1>2. \A j \in DOMAIN P : P[j].key = "Location" => j = 7
    <2>1. \A j \in DOMAIN P : \/ j = 1 \/ j = 2 \/ j = 3 \/ j = 4 \/ j = 5
                              \/ j = 6 \/ j = 7 \/ j = 8 \/ j = 9 \/ j = 10
      BY <1>1
    <2> QED
      BY <1>1, <2>1
  <1>3. PICK l, w : l = Metered(s) /\ w = EncodePanel(s.panel)
    OBVIOUS
  <1>4. CASE s.loc = Nil
    <2>1. P[7].value.kind = "invalid"
      <3>1. Says(P[7], "Location", "invalid", TRUE)
        BY <1>4, <1>3, CarSays
      <3> QED
        BY <3>1 DEF Says
    <2>2. at = {}
      BY <1>2, <2>1
    <2>3. Fixes(P) = {}
      BY <2>2 DEF Fixes, Latest, Nil
    <2> QED
      BY <1>4, <2>3 DEF Nil
  <1>5. CASE s.loc # Nil
    <2>1. PICK x \in STRING : s.loc = Some(x)
      BY <1>5, OptionalCases
    <2>2. The(s.loc, "") = x
      BY <2>1, TheOne
    <2>3. P[7].value.kind = "location" /\ P[7].value.is = x
      <3>1. Says(P[7], "Location", "location", The(s.loc, ""))
        BY <1>5, <1>3, CarSays
      <3> QED
        BY <2>2, <3>1 DEF Says
    <2>4. at = {7}
      BY <1>1, <1>2, <2>3
    <2>5. Fixes(P) = {P[7].value}
      BY <2>4, LatestOne DEF Fixes, Some
    <2> QED
      BY <2>1, <2>3, <2>5 DEF Some
  <1> QED
    BY <1>4, <1>5

\* What the stream source makes of the payload.
LEMMA CarFramed ==
    ASSUME NEW s \in Snapshot, s.gear # "unknown", NEW charging, NEW typed \in BOOLEAN,
           NEW f, f = DecodePayload(CarPayload(s, charging, typed))
    PROVE  LET l == Metered(s)
               w == DecodePanel(EncodePanel(s.panel))
           IN  /\ f.gear = {s.gear} /\ f.loc = s.loc /\ f.km = {s.km} /\ f.pct = {s.pct}
               /\ f.charger = {ChargerFromTesla(charging)} /\ f.plug = {PlugFromTesla(charging)}
               /\ f.kw = {l.kw} /\ f.energy = {l.energy} /\ f.amps = {l.amps}
               /\ f.locked = {w.locks.front} /\ f.locked = {w.locks.rear} /\ f.guard = {w.guard}
  <1>1. PICK P : P = CarPayload(s, charging, typed)
    OBVIOUS
  <1>2. PICK l : l = Metered(s)
    OBVIOUS
  <1>3. PICK e \in WirePanel : e = EncodePanel(s.panel)
    BY SnapshotFields, PanelTyped
  <1>4. e.locked \in BOOLEAN /\ e.sentry \in BOOLEAN
    BY PanelFields
  <1>5. f.gear = {s.gear}
    <2>1. P[1].value.is = Letter[s.gear] /\ P[1].value.kind \in {"ShiftState", "string"}
      <3>1. /\ typed => Says(P[1], "Gear", "ShiftState", Letter[s.gear])
            /\ ~typed => Says(P[1], "Gear", "string", Letter[s.gear])
        BY <1>1, <1>2, <1>3, CarSays
      <3> QED
        BY <3>1 DEF Says
    <2>2. s.gear \in {"park", "drive", "reverse", "neutral"}
      BY SnapshotFields
    <2>3. GearFromTesla(Letter[s.gear]) = s.gear
      BY <2>2 DEF Letter, GearFromTesla
    <2>4. GearVal(P[1].value) = s.gear
      BY <2>1, <2>3 DEF GearVal
    <2>5. f.gear = {GearVal(P[1].value)}
      BY <1>1, CarCarried DEF DecodePayload
    <2> QED
      BY <2>4, <2>5
  <1>6. f.loc = s.loc
    BY <1>1, SnapshotFields, CarFix DEF DecodePayload
  <1>7. f.km = {s.km}
    <2>1. P[2].value.is = KmToMiles(s.km) /\ P[2].value.kind \in {"double", "digits"}
      <3>1. /\ typed => Says(P[2], "RatedRange", "double", KmToMiles(s.km))
            /\ ~typed => Says(P[2], "RatedRange", "digits", KmToMiles(s.km))
        BY <1>1, <1>2, <1>3, CarSays
      <3> QED
        BY <3>1 DEF Says
    <2>2. NumVal(P[2].value) = KmToMiles(s.km)
      BY <2>1 DEF NumVal, Numeric
    <2>3. f.km = {MilesToKm(NumVal(P[2].value))}
      BY <1>1, CarCarried DEF DecodePayload
    <2>4. MilesToKm(KmToMiles(s.km)) = s.km
      BY SnapshotFields, MilesInverse
    <2> QED
      BY <2>2, <2>3, <2>4
  <1>8. f.pct = {s.pct}
    <2>1. P[3].value.is = s.pct /\ P[3].value.kind \in {"float", "digits"}
      <3>1. /\ typed => Says(P[3], "Soc", "float", s.pct)
            /\ ~typed => Says(P[3], "Soc", "digits", s.pct)
        BY <1>1, <1>2, <1>3, CarSays
      <3> QED
        BY <3>1 DEF Says
    <2>2. NumVal(P[3].value) = s.pct
      BY <2>1 DEF NumVal, Numeric
    <2> QED
      BY <1>1, <2>2, CarCarried DEF DecodePayload
  <1>9. f.charger = {ChargerFromTesla(charging)} /\ f.plug = {PlugFromTesla(charging)}
    <2>1. P[4].value.is = charging /\ P[4].value.kind \in {"DetailedChargeState", "string"}
      <3>1. /\ typed => Says(P[4], "DetailedChargeState", "DetailedChargeState", charging)
            /\ ~typed => Says(P[4], "DetailedChargeState", "string", charging)
        BY <1>1, <1>2, <1>3, CarSays
      <3> QED
        BY <3>1 DEF Says
    <2>2. ChargeStateStr(P[4].value) = charging
      BY <2>1 DEF ChargeStateStr
    <2>3. /\ f.charger = {ChargerFromTesla(ChargeStateStr(P[4].value))}
          /\ f.plug = {PlugFromTesla(ChargeStateStr(P[4].value))}
      BY <1>1, CarCarried DEF DecodePayload
    <2> QED
      BY <2>2, <2>3
  <1>10. f.kw = {l.kw} /\ f.energy = {l.energy} /\ f.amps = {l.amps}
    <2>1. /\ P[8].value.is = l.kw /\ P[8].value.kind \in {"double", "digits"}
          /\ P[9].value.is = l.energy /\ P[9].value.kind \in {"double", "digits"}
          /\ P[10].value.is = l.amps /\ P[10].value.kind \in {"double", "digits"}
      <3>1. P[8].value.is = l.kw /\ P[8].value.kind \in {"double", "digits"}
        BY <1>1, <1>2, <1>3, CarSaysToo DEF Says
      <3>2. P[9].value.is = l.energy /\ P[9].value.kind \in {"double", "digits"}
        BY <1>1, <1>2, <1>3, CarSaysToo DEF Says
      <3>3. P[10].value.is = l.amps /\ P[10].value.kind \in {"double", "digits"}
        <4>1. /\ typed => Says(P[10], "ChargeAmps", "double", l.amps)
              /\ ~typed => Says(P[10], "ChargeAmps", "digits", l.amps)
          BY <1>1, <1>2, <1>3, CarSays
        <4> QED
          BY <4>1 DEF Says
      <3> QED
        BY <3>1, <3>2, <3>3
    <2>2. /\ NumVal(P[8].value) = l.kw /\ NumVal(P[9].value) = l.energy
          /\ NumVal(P[10].value) = l.amps
      BY <2>1 DEF NumVal, Numeric
    <2>3. f.kw = {NumVal(P[8].value)} /\ f.energy = {NumVal(P[9].value)}
          /\ f.amps = {NumVal(P[10].value)}
      BY <1>1, CarCarried DEF DecodePayload
    <2> QED
      BY <2>2, <2>3
  <1>11. f.locked = {LockedFromTesla(e.locked)}
    <2>1. /\ typed => Says(P[5], "Locked", "bool", e.locked)
          /\ ~typed /\ e.locked => Says(P[5], "Locked", "string", "true")
          /\ ~typed /\ ~e.locked => Says(P[5], "Locked", "string", "false")
      BY <1>1, <1>2, <1>3, CarSaysToo
    <2>2. PICK v : v = P[5].value
      OBVIOUS
    <2>3. BoolVal(v) <=> e.locked
      <3>1. CASE typed
        <4>1. v.kind = "bool" /\ v.is = e.locked
          BY <2>1, <2>2, <3>1 DEF Says
        <4>2. BoolVal(v) = v.is
          BY <4>1 DEF BoolVal
        <4> QED
          BY <4>1, <4>2
      <3>2. CASE ~typed /\ e.locked
        <4>1. v.kind = "string" /\ v.is = "true"
          BY <2>1, <2>2, <3>2 DEF Says
        <4> QED
          BY <3>2, <4>1 DEF BoolVal
      <3>3. CASE ~typed /\ ~e.locked
        <4>1. v.kind = "string" /\ v.is = "false"
          BY <2>1, <2>2, <3>3 DEF Says
        <4> QED
          BY <3>3, <4>1 DEF BoolVal
      <3> QED
        BY <3>1, <3>2, <3>3
    <2>4. f.locked = {LockedFromTesla(BoolVal(v))}
      BY <1>1, <2>2, CarCarried DEF DecodePayload
    <2>5. LockedFromTesla(BoolVal(v)) = LockedFromTesla(e.locked)
      BY <2>3 DEF LockedFromTesla
    <2> QED
      BY <2>4, <2>5
  <1>12. f.guard = {GearGuardFromTesla(e.sentry)}
    <2>1. /\ ~typed => Says(P[6], "SentryMode", "bool", e.sentry)
          /\ typed /\ e.sentry => Says(P[6], "SentryMode", "SentryModeState", "Armed")
          /\ typed /\ ~e.sentry => Says(P[6], "SentryMode", "SentryModeState", "Off")
      BY <1>1, <1>2, <1>3, CarSaysToo
    <2>2. PICK v : v = P[6].value
      OBVIOUS
    <2>3. SentryVal(v) = GearGuardFromTesla(e.sentry)
      <3>1. CASE typed /\ e.sentry
        <4>1. v.kind = "SentryModeState" /\ v.is = "Armed"
          BY <2>1, <2>2, <3>1 DEF Says
        <4> QED
          BY <3>1, <4>1 DEF SentryVal, GearGuardFromTesla
      <3>2. CASE typed /\ ~e.sentry
        <4>1. v.kind = "SentryModeState" /\ v.is = "Off"
          BY <2>1, <2>2, <3>2 DEF Says
        <4> QED
          BY <3>2, <4>1 DEF SentryVal, GearGuardFromTesla
      <3>3. CASE ~typed
        <4>1. v.kind = "bool" /\ v.is = e.sentry
          BY <2>1, <2>2, <3>3 DEF Says
        <4>2. BoolVal(v) = e.sentry
          BY <4>1 DEF BoolVal
        <4> QED
          BY <4>1, <4>2 DEF SentryVal
      <3> QED
        BY <3>1, <3>2, <3>3
    <2> QED
      BY <1>1, <2>2, <2>3, CarCarried DEF DecodePayload
  <1>13. LET w == DecodePanel(e)
         IN  /\ w.locks.front = LockedFromTesla(e.locked) /\ w.locks.rear = LockedFromTesla(e.locked)
             /\ w.guard = GearGuardFromTesla(e.sentry)
    BY DEF DecodePanel
  <1> QED
    BY <1>2, <1>3, <1>5, <1>6, <1>7, <1>8, <1>9, <1>10, <1>11, <1>12, <1>13

\* The fields of an answer.
LEMMA CarAnswered ==
    ASSUME NEW s, NEW w \in CarAnswers(s), NEW l, l = Metered(s),
           NEW low, low = Trunc(s.pct, 10), NEW high, high = Trunc(s.pct + 9, 10)
    PROVE  /\ w.state = "online" /\ w.loc = s.loc /\ w.range = KmToMiles(s.km)
           /\ w.config = <<s.kind, s.trim>> /\ w.panel = EncodePanel(s.panel)
           /\ w.shift = Letter[s.gear] \/ (s.gear = "park" /\ w.shift = "")
           /\ w.level \in {low, high}
           /\ w.live = [power |-> Round(l.kw, 10), fast |-> l.fast, energy |-> l.energy,
                        amps |-> Some(l.amps)]
           /\ w.charging = "Charging" \/ ~(l.kw > 0)
  <1>1. PICK letters : letters = {Letter[s.gear]} \union (IF s.gear = "park" THEN {""} ELSE {})
    OBVIOUS
  <1>2. PICK words : words = {"Charging"} \union
                               (IF l.kw > 0 THEN {}
                                ELSE {"Stopped", "Complete", "NoPower", "Starting", "Disconnected"})
    OBVIOUS
  <1>3. PICK live : live = [power |-> Round(l.kw, 10), fast |-> l.fast, energy |-> l.energy,
                            amps |-> Some(l.amps)]
    OBVIOUS
  <1>4. PICK miles, panel, config :
          miles = KmToMiles(s.km) /\ panel = EncodePanel(s.panel) /\ config = <<s.kind, s.trim>>
    OBVIOUS
  <1>5. CarAnswers(s) = [state: {"online"}, shift: letters, loc: {s.loc}, range: {miles},
                         level: {low, high}, charging: words, live: {live}, config: {config},
                         panel: {panel}]
    BY <1>1, <1>2, <1>3, <1>4 DEF CarAnswers
  <1>6. /\ w.state = "online" /\ w.loc = s.loc /\ w.range = miles /\ w.config = config
        /\ w.panel = panel /\ w.shift \in letters /\ w.level \in {low, high}
        /\ w.live = live /\ w.charging \in words
    BY <1>5
  <1>7. w.shift = Letter[s.gear] \/ (s.gear = "park" /\ w.shift = "")
    BY <1>1, <1>6
  <1>8. w.charging = "Charging" \/ ~(l.kw > 0)
    BY <1>2, <1>6
  <1> QED
    BY <1>3, <1>4, <1>6, <1>7, <1>8

\* What the poll source makes of an answer.
PolledAs(s, g, pct, ch, pl, live, p) ==
    [power |-> "online", gear |-> g, loc |-> s.loc, km |-> s.km, pct |-> pct, charger |-> ch,
     plug |-> pl, live |-> live, kind |-> s.kind, trim |-> s.trim, panel |-> p]

PolledSession(l) ==
    [kw |-> 10 * Round(l.kw, 10), fast |-> l.fast, energy |-> l.energy, amps |-> l.amps]

TellsOf(polled, s, w, l, p, g, pct, live) ==
    /\ polled = PolledAs(s, g, pct, ChargerFromTesla(w.charging), PlugFromTesla(w.charging), live, p)
    /\ g = s.gear \/ (g = "unknown" /\ w.shift = "" /\ s.gear = "park")
    /\ s.pct - pct \in -9..9
    /\ w.charging = "Charging" => live = {PolledSession(l)}
    /\ w.charging # "Charging" => live = {} /\ ~(l.kw > 0)

LEMMA CarPolled ==
    ASSUME NEW s \in Snapshot, s.gear # "unknown", NEW w \in CarAnswers(s),
           NEW polled, polled = DecodeVehicleData(w), NEW l, l = Metered(s),
           NEW p, p = DecodePanel(EncodePanel(s.panel))
    PROVE  \E g, pct, live : TellsOf(polled, s, w, l, p, g, pct, live)
  <1>1. PICK low, high : low = Trunc(s.pct, 10) /\ high = Trunc(s.pct + 9, 10)
    OBVIOUS
  <1>2. /\ w.state = "online" /\ w.loc = s.loc /\ w.range = KmToMiles(s.km)
        /\ w.config = <<s.kind, s.trim>> /\ w.panel = EncodePanel(s.panel)
    BY <1>1, CarAnswered
  <1>3. w.shift = Letter[s.gear] \/ (s.gear = "park" /\ w.shift = "")
    BY <1>1, CarAnswered
  <1>4. w.level = low \/ w.level = high
    <2>1. w.level \in {low, high}
      BY <1>1, CarAnswered
    <2> QED
      BY <2>1
  <1>5. w.live = [power |-> Round(l.kw, 10), fast |-> l.fast, energy |-> l.energy,
                  amps |-> Some(l.amps)]
    BY <1>1, CarAnswered
  <1>6. w.charging = "Charging" \/ ~(l.kw > 0)
    BY <1>1, CarAnswered
  <1>7. PICK g, pct, live : /\ g = GearFromTesla(w.shift) /\ pct = 10 * w.level
                            /\ live = DecodeLive(w.charging, w.live)
    OBVIOUS
  <1>8. g = s.gear \/ (g = "unknown" /\ w.shift = "" /\ s.gear = "park")
    <2>1. s.gear \in {"park", "drive", "reverse", "neutral"}
      BY SnapshotFields
    <2>2. GearFromTesla(Letter[s.gear]) = s.gear
      BY <2>1 DEF Letter, GearFromTesla
    <2>3. GearFromTesla("") = "unknown"
      BY DEF GearFromTesla
    <2> QED
      BY <1>3, <1>7, <2>2, <2>3
  <1>9. s.pct - pct \in -9..9
    <2>1. PICK n \in Nat : n = s.pct
      BY SnapshotFields
    <2>2. n - 10 * Trunc(n, 10) \in -9..9 /\ n - 10 * Trunc(n + 9, 10) \in -9..9
      BY DEF Trunc
    <2>3. pct = 10 * Trunc(n, 10) \/ pct = 10 * Trunc(n + 9, 10)
      BY <1>1, <1>4, <1>7, <2>1
    <2> QED
      BY <2>1, <2>2, <2>3
  <1>10. PICK r, fa, en, am : r = Round(l.kw, 10) /\ fa = l.fast /\ en = l.energy /\ am = l.amps
    OBVIOUS
  <1>11. PICK x : x = [power |-> r, fast |-> fa, energy |-> en, amps |-> Some(am)]
    OBVIOUS
  <1>12. live = DecodeLive(w.charging, x)
    BY <1>5, <1>7, <1>10, <1>11
  <1>13. w.charging = "Charging" => live = {[kw |-> 10 * r, fast |-> fa, energy |-> en, amps |-> am]}
    <2>1. The(x.amps, 0) = am /\ x.power = r /\ x.fast = fa /\ x.energy = en
      BY <1>11, TheOne
    <2> QED
      BY <1>12, <2>1 DEF DecodeLive, Some
  <1>14. w.charging # "Charging" => live = {}
    BY <1>12 DEF DecodeLive, Nil
  <1>15. PICK ch, pl : ch = ChargerFromTesla(w.charging) /\ pl = PlugFromTesla(w.charging)
    OBVIOUS
  <1>16. polled = [power |-> "online", gear |-> g, loc |-> s.loc, km |-> s.km,
                   pct |-> pct, charger |-> ch, plug |-> pl, live |-> live,
                   kind |-> s.kind, trim |-> s.trim, panel |-> p]
    <2>1. MilesToKm(w.range) = s.km
      BY <1>2, SnapshotFields, MilesInverse
    <2>2. w.config[1] = s.kind /\ w.config[2] = s.trim
      BY <1>2
    <2>3. PowerFromTesla(w.state) = "online"
      BY <1>2 DEF PowerFromTesla
    <2>4. DecodePanel(w.panel) = p
      BY <1>2
    <2>5. polled = [power |-> PowerFromTesla(w.state), gear |-> g, loc |-> w.loc,
                    km |-> MilesToKm(w.range), pct |-> pct, charger |-> ch, plug |-> pl,
                    live |-> live, kind |-> w.config[1], trim |-> w.config[2],
                    panel |-> DecodePanel(w.panel)]
      BY <1>7, <1>15 DEF DecodeVehicleData
    <2> QED
      BY <1>2, <2>1, <2>2, <2>3, <2>4, <2>5
  <1>17. w.charging = "Charging" => live = {PolledSession(l)}
    BY <1>10, <1>13 DEF PolledSession
  <1>18. polled = PolledAs(s, g, pct, ch, pl, live, p)
    BY <1>16 DEF PolledAs
  <1> QED
    BY <1>6, <1>8, <1>9, <1>14, <1>17, <1>18, <1>15 DEF TellsOf

\* The overlay, field by field.
OverlaidAs(s, f) ==
    [power |-> IF s.power \in {"unknown", "offline"} THEN "online" ELSE s.power,
     gear |-> The(f.gear, s.gear), loc |-> IF f.loc = Nil THEN s.loc ELSE f.loc,
     km |-> The(f.km, s.km), pct |-> The(f.pct, s.pct),
     charger |-> The(f.charger, s.charger), plug |-> The(f.plug, s.plug),
     live |-> MergeLive(s.live, f), kind |-> s.kind, trim |-> s.trim,
     panel |-> [s.panel EXCEPT !.locks = [d \in DOMAIN s.panel.locks |->
                                            The(f.locked, s.panel.locks[d])],
                               !.guard = The(f.guard, s.panel.guard)]]

LEMMA OverlaidFields ==
    ASSUME NEW s, NEW f,
           DOMAIN s = {"power", "gear", "loc", "km", "pct", "charger", "plug", "live", "kind",
                       "trim", "panel"},
           DOMAIN s.panel = {"seat", "wheel", "precond", "guard", "tpms", "locks", "door", "ota"}
    PROVE  Overlaid(s, f) = OverlaidAs(s, f)
  <1>1. DOMAIN s = {"power", "gear", "loc", "km", "pct", "charger", "plug", "live", "kind",
                    "trim", "panel"}
        /\ DOMAIN s.panel = {"seat", "wheel", "precond", "guard", "tpms", "locks", "door", "ota"}
    OBVIOUS
  <1>2. PICK ge, km, pc, ch, pl, li, gu :
          /\ ge = The(f.gear, s.gear) /\ km = The(f.km, s.km) /\ pc = The(f.pct, s.pct)
          /\ ch = The(f.charger, s.charger) /\ pl = The(f.plug, s.plug)
          /\ li = MergeLive(s.live, f) /\ gu = The(f.guard, s.panel.guard)
    OBVIOUS
  <1>3. PICK lo, ls, po :
          /\ lo = IF f.loc = Nil THEN s.loc ELSE f.loc
          /\ ls = [d \in DOMAIN s.panel.locks |-> The(f.locked, s.panel.locks[d])]
          /\ po = IF s.power \in {"unknown", "offline"} THEN "online" ELSE s.power
    OBVIOUS
  <1>4. Overlaid(s, f) = [s EXCEPT !.gear = ge, !.loc = lo, !.km = km, !.pct = pc,
                                   !.charger = ch, !.plug = pl, !.live = li,
                                   !.panel.locks = ls, !.panel.guard = gu, !.power = po]
    BY <1>1, <1>2, <1>3 DEF Overlaid
  <1>5. [s EXCEPT !.gear = ge, !.loc = lo, !.km = km, !.pct = pc,
                  !.charger = ch, !.plug = pl, !.live = li,
                  !.panel.locks = ls, !.panel.guard = gu, !.power = po]
          = [power |-> po, gear |-> ge, loc |-> lo, km |-> km, pct |-> pc, charger |-> ch,
             plug |-> pl, live |-> li, kind |-> s.kind, trim |-> s.trim,
             panel |-> [s.panel EXCEPT !.locks = ls, !.guard = gu]]
    <2> DEFINE m == [s EXCEPT !.gear = ge, !.loc = lo, !.km = km, !.pct = pc,
                              !.charger = ch, !.plug = pl, !.live = li,
                              !.panel.locks = ls, !.panel.guard = gu, !.power = po]
    <2>1. m = [x \in DOMAIN m |-> m[x]] /\ DOMAIN m = DOMAIN s
      <3>1. DOMAIN m = DOMAIN s
        OBVIOUS
      <3>2. m = [x \in DOMAIN m |-> m[x]]
        OBVIOUS
      <3> QED
        BY <3>1, <3>2
    <2>2. /\ m.power = po /\ m.gear = ge /\ m.loc = lo /\ m.km = km /\ m.pct = pc
          /\ m.charger = ch /\ m.plug = pl /\ m.live = li
      <3>1. m.power = po /\ m.gear = ge
        BY <1>1
      <3>2. m.loc = lo /\ m.km = km
        BY <1>1
      <3>3. m.pct = pc /\ m.charger = ch
        BY <1>1
      <3>4. m.plug = pl /\ m.live = li
        BY <1>1
      <3> QED
        BY <3>1, <3>2, <3>3, <3>4
    <2>3. m.kind = s.kind /\ m.trim = s.trim
          /\ m.panel = [s.panel EXCEPT !.locks = ls, !.guard = gu]
      BY <1>1
    <2> HIDE DEF m
    <2>4. PICK pa : pa = [s.panel EXCEPT !.locks = ls, !.guard = gu]
      OBVIOUS
    <2>5. m = [power |-> po, gear |-> ge, loc |-> lo, km |-> km, pct |-> pc, charger |-> ch,
               plug |-> pl, live |-> li, kind |-> s.kind, trim |-> s.trim, panel |-> pa]
      BY <1>1, <2>1, <2>2, <2>3, <2>4
    <2> QED
      BY <2>4, <2>5 DEF m
  <1> QED
    BY <1>2, <1>3, <1>4, <1>5 DEF OverlaidAs

LEMMA PanelOverlaid ==
    ASSUME NEW p \in Panel, NEW locked, NEW guard
    PROVE  [p EXCEPT !.locks = [d \in DOMAIN p.locks |-> The(locked, p.locks[d])],
                     !.guard = The(guard, p.guard)]
             = [seat |-> p.seat, wheel |-> p.wheel, precond |-> p.precond,
                guard |-> The(guard, p.guard), tpms |-> p.tpms,
                locks |-> [front |-> The(locked, p.locks.front), rear |-> The(locked, p.locks.rear)],
                door |-> p.door, ota |-> p.ota]
  <1>1. DOMAIN p = {"seat", "wheel", "precond", "guard", "tpms", "locks", "door", "ota"}
        /\ DOMAIN p.locks = {"front", "rear"}
    BY DEF Panel
  <1>2. [d \in DOMAIN p.locks |-> The(locked, p.locks[d])]
          = [front |-> The(locked, p.locks.front), rear |-> The(locked, p.locks.rear)]
    BY <1>1
  <1>3. PICK ls : ls = [d \in DOMAIN p.locks |-> The(locked, p.locks[d])]
    OBVIOUS
  <1>4. PICK g : g = The(guard, p.guard)
    OBVIOUS
  <1>5. [p EXCEPT !.locks = ls, !.guard = g]
          = [seat |-> p.seat, wheel |-> p.wheel, precond |-> p.precond, guard |-> g,
             tpms |-> p.tpms, locks |-> ls, door |-> p.door, ota |-> p.ota]
    <2> DEFINE m == [p EXCEPT !.locks = ls, !.guard = g]
    <2>1. /\ m = [x \in DOMAIN m |-> m[x]] /\ DOMAIN m = DOMAIN p
          /\ m.locks = ls /\ m.guard = g
          /\ \A x \in DOMAIN p \ {"locks", "guard"} : m[x] = p[x]
      BY <1>1
    <2> HIDE DEF m
    <2>2. m = [seat |-> p.seat, wheel |-> p.wheel, precond |-> p.precond, guard |-> g,
               tpms |-> p.tpms, locks |-> ls, door |-> p.door, ota |-> p.ota]
      BY <1>1, <2>1
    <2> QED
      BY <2>2 DEF m
  <1> QED
    BY <1>2, <1>3, <1>4, <1>5

\* The session after the frame, if the car says it charges: the same, but for the tenths.
LEMMA SessionFramed ==
    ASSUME NEW l \in Session, NEW p, p = PolledSession(l),
           NEW f, f.kw = {l.kw}, f.energy = {l.energy}, f.amps = {l.amps}
    PROVE  \E m \in MergeLive({p}, f) : m = [p EXCEPT !.kw = m.kw] /\ m.kw - p.kw \in -5..5
  <1>1. PICK k \in Nat, e \in Nat, a \in Nat : k = l.kw /\ e = l.energy /\ a = l.amps
    BY DEF Session
  <1>2. p.kw = 10 * Round(k, 10) /\ p.energy = e /\ p.amps = a
        /\ DOMAIN p = {"kw", "fast", "energy", "amps"}
    BY <1>1 DEF PolledSession
  <1>3. PICK K : K = The({k} \ {0}, p.kw)
    OBVIOUS
  <1>4. K - p.kw \in -5..5
    <2>1. CASE k = 0
      <3>1. {k} \ {0} = Nil
        BY <2>1 DEF Nil
      <3>2. The(Nil, p.kw) = p.kw
        BY TheOne
      <3>3. 10 * Round(k, 10) \in Nat
        BY DEF Round
      <3>4. K = p.kw /\ p.kw \in Nat
        BY <1>2, <1>3, <3>1, <3>2, <3>3
      <3> QED
        BY <3>4
    <2>2. CASE k # 0
      <3>1. {k} \ {0} = Some(k)
        BY <2>2 DEF Some
      <3>2. K = k
        BY <1>3, <3>1, TheOne
      <3>3. k - 10 * Round(k, 10) \in -5..5
        BY DEF Round
      <3> QED
        BY <1>2, <3>2, <3>3
    <2> QED
      BY <2>1, <2>2
  <1>5. The(f.amps, p.amps) = a /\ The(f.energy, p.energy) = e
    <2>1. f.amps = Some(a) /\ f.energy = Some(e)
      BY <1>1 DEF Some
    <2> QED
      BY <2>1, TheOne
  <1>7. PICK m : m \in MergeLive({p}, f) /\ m = [p EXCEPT !.kw = K, !.amps = a, !.energy = e]
    <2>1. {p} # Nil /\ f.amps # Nil
      BY <1>1 DEF Nil
    <2>2. MergeLive({p}, f) = {[x EXCEPT !.kw = The(f.kw \ {0}, @), !.amps = The(f.amps, @),
                                        !.energy = The(f.energy, @)] : x \in {p}}
      BY <2>1 DEF MergeLive
    <2>3. PICK y : y = [p EXCEPT !.kw = The(f.kw \ {0}, p.kw), !.amps = The(f.amps, p.amps),
                                 !.energy = The(f.energy, p.energy)]
      OBVIOUS
    <2>4. y \in MergeLive({p}, f)
      BY <2>2, <2>3
    <2>5. The(f.kw \ {0}, p.kw) = K
      BY <1>1, <1>3
    <2>6. y = [p EXCEPT !.kw = K, !.amps = a, !.energy = e]
      BY <1>5, <2>3, <2>5
    <2> QED
      BY <2>4, <2>6
  <1>8. m = [p EXCEPT !.kw = m.kw] /\ m.kw = K
    <2>1. m.kw = K /\ m.amps = a /\ m.energy = e /\ m.fast = p.fast
      BY <1>2, <1>7
    <2>2. m = [kw |-> K, fast |-> p.fast, energy |-> e, amps |-> a]
      BY <1>2, <1>7
    <2>3. [p EXCEPT !.kw = K] = [kw |-> K, fast |-> p.fast, energy |-> e, amps |-> a]
      BY <1>2
    <2> QED
      BY <2>1, <2>2, <2>3
  <1> QED
    BY <1>4, <1>7, <1>8

\* A payload laid over an answer of the same car.
LEMMA CarAgrees ==
    ASSUME NEW s \in Snapshot, s.gear # "unknown", NEW w \in CarAnswers(s),
           NEW typed \in BOOLEAN, NEW polled, polled = DecodeVehicleData(w),
           NEW frame, frame = DecodePayload(CarPayload(s, w.charging, typed)),
           NEW framed, framed = Overlaid(polled, frame)
    PROVE  /\ framed = [polled EXCEPT !.gear = s.gear, !.pct = s.pct, !.live = framed.live]
           /\ polled.gear # s.gear =>
                 /\ w.shift = "" /\ polled.gear \notin {"drive", "reverse", "neutral"}
                 /\ framed.gear \notin {"drive", "reverse", "neutral"}
           /\ s.pct - polled.pct \in -9..9
           /\ Metered(s).kw \notin 1..4 =>
                 ((\E l \in polled.live : l.kw > 0) <=> \E kw \in frame.kw : kw > 0)
           /\ w.charging = "Charging" =>
                 \E l \in polled.live, m \in framed.live :
                    m = [l EXCEPT !.kw = m.kw] /\ m.kw - l.kw \in -5..5
  <1>1. PICK l \in Session : l = Metered(s)
    <2>1. PICK none : none = [kw |-> 0, energy |-> 0, fast |-> FALSE, amps |-> 0]
      OBVIOUS
    <2>2. none \in Session
      BY <2>1 DEF Session
    <2>3. The(s.live, none) \in Session
      BY <2>2, SnapshotFields, TheTyped
    <2> QED
      BY <2>1, <2>3 DEF Metered
  <1>2. PICK p \in Panel : p = DecodePanel(EncodePanel(s.panel))
    BY SnapshotFields, PanelTyped, PanelDecoded
  <1>3. PICK ch, pl : ch = ChargerFromTesla(w.charging) /\ pl = PlugFromTesla(w.charging)
    OBVIOUS
  <1>4. PICK g, pct, lv : TellsOf(polled, s, w, l, p, g, pct, lv)
    BY <1>1, <1>2, CarPolled
  <1>5. /\ polled = PolledAs(s, g, pct, ch, pl, lv, p)
        /\ g = s.gear \/ (g = "unknown" /\ w.shift = "" /\ s.gear = "park")
        /\ s.pct - pct \in -9..9
        /\ w.charging = "Charging" => lv = {PolledSession(l)}
        /\ w.charging # "Charging" => lv = {} /\ ~(l.kw > 0)
    BY <1>3, <1>4 DEF TellsOf
  <1>6. /\ frame.gear = {s.gear} /\ frame.loc = s.loc /\ frame.km = {s.km} /\ frame.pct = {s.pct}
        /\ frame.charger = {ch} /\ frame.plug = {pl}
        /\ frame.kw = {l.kw} /\ frame.energy = {l.energy} /\ frame.amps = {l.amps}
        /\ frame.locked = {p.locks.front} /\ frame.locked = {p.locks.rear}
        /\ frame.guard = {p.guard}
    BY <1>1, <1>2, <1>3, CarFramed
  <1>7. PICK live : live = MergeLive(lv, frame)
    OBVIOUS
  <1>8. /\ DOMAIN polled = {"power", "gear", "loc", "km", "pct", "charger", "plug", "live", "kind",
                           "trim", "panel"}
        /\ polled.power = "online" /\ polled.gear = g /\ polled.loc = s.loc /\ polled.km = s.km
        /\ polled.pct = pct /\ polled.charger = ch /\ polled.plug = pl /\ polled.live = lv
        /\ polled.kind = s.kind /\ polled.trim = s.trim /\ polled.panel = p
    <2>1. polled = PolledAs(s, g, pct, ch, pl, lv, p)
      BY <1>5
    <2> QED
      BY <2>1 DEF PolledAs
  <1>9. framed = [power |-> "online", gear |-> s.gear, loc |-> s.loc, km |-> s.km,
                  pct |-> s.pct, charger |-> ch, plug |-> pl, live |-> live,
                  kind |-> s.kind, trim |-> s.trim, panel |-> p]
    <2>2. DOMAIN p = {"seat", "wheel", "precond", "guard", "tpms", "locks", "door", "ota"}
      BY DEF Panel
    <2>3. PICK panel : panel = [p EXCEPT !.locks = [d \in DOMAIN p.locks |->
                                                      The(frame.locked, p.locks[d])],
                                         !.guard = The(frame.guard, p.guard)]
      OBVIOUS
    <2>4. panel = p
      <3>1. PICK locked, guard : locked = frame.locked /\ guard = frame.guard
        OBVIOUS
      <3>2. locked = Some(p.locks.front) /\ locked = Some(p.locks.rear) /\ guard = Some(p.guard)
        BY <1>6, <3>1 DEF Some
      <3>3. /\ The(locked, p.locks.front) = p.locks.front /\ The(locked, p.locks.rear) = p.locks.rear
            /\ The(guard, p.guard) = p.guard
        BY <3>2, TheOne
      <3>4. panel = [seat |-> p.seat, wheel |-> p.wheel, precond |-> p.precond,
                     guard |-> The(guard, p.guard), tpms |-> p.tpms,
                     locks |-> [front |-> The(locked, p.locks.front),
                                rear |-> The(locked, p.locks.rear)],
                     door |-> p.door, ota |-> p.ota]
        BY <2>3, <3>1, PanelOverlaid
      <3>5. p = [seat |-> p.seat, wheel |-> p.wheel, precond |-> p.precond,
                 guard |-> p.guard, tpms |-> p.tpms,
                 locks |-> [front |-> p.locks.front, rear |-> p.locks.rear],
                 door |-> p.door, ota |-> p.ota]
        BY DEF Panel
      <3> QED
        BY <3>3, <3>4, <3>5
    <2>5. framed = [power |-> IF polled.power \in {"unknown", "offline"} THEN "online"
                              ELSE polled.power,
                    gear |-> The(frame.gear, polled.gear),
                    loc |-> IF frame.loc = Nil THEN polled.loc ELSE frame.loc,
                    km |-> The(frame.km, polled.km), pct |-> The(frame.pct, polled.pct),
                    charger |-> The(frame.charger, polled.charger),
                    plug |-> The(frame.plug, polled.plug),
                    live |-> MergeLive(polled.live, frame), kind |-> polled.kind,
                    trim |-> polled.trim, panel |-> panel]
      <3>1. DOMAIN polled.panel = {"seat", "wheel", "precond", "guard", "tpms", "locks", "door",
                                   "ota"}
        BY <1>8, <2>2
      <3>2. PICK po, lo : /\ po = IF polled.power \in {"unknown", "offline"} THEN "online"
                                 ELSE polled.power
                          /\ lo = IF frame.loc = Nil THEN polled.loc ELSE frame.loc
        OBVIOUS
      <3>3. DOMAIN polled = {"power", "gear", "loc", "km", "pct", "charger", "plug", "live",
                             "kind", "trim", "panel"}
        BY <1>8
      <3>4. PICK pa : pa = [polled.panel EXCEPT !.locks = [d \in DOMAIN polled.panel.locks |->
                                                             The(frame.locked, polled.panel.locks[d])],
                                                !.guard = The(frame.guard, polled.panel.guard)]
        OBVIOUS
      <3>5. Overlaid(polled, frame) =
              [power |-> po, gear |-> The(frame.gear, polled.gear), loc |-> lo,
               km |-> The(frame.km, polled.km), pct |-> The(frame.pct, polled.pct),
               charger |-> The(frame.charger, polled.charger),
               plug |-> The(frame.plug, polled.plug),
               live |-> MergeLive(polled.live, frame), kind |-> polled.kind,
               trim |-> polled.trim, panel |-> pa]
        <4>1. Overlaid(polled, frame) = OverlaidAs(polled, frame)
          BY <3>1, <3>3, OverlaidFields
        <4> QED
          BY <3>2, <3>4, <4>1 DEF OverlaidAs
      <3>6. pa = panel
        BY <1>8, <2>3, <3>4
      <3> QED
        BY <3>2, <3>5, <3>6
    <2>6. /\ The(frame.gear, polled.gear) = s.gear /\ The(frame.km, polled.km) = s.km
          /\ The(frame.pct, polled.pct) = s.pct /\ The(frame.charger, polled.charger) = ch
          /\ The(frame.plug, polled.plug) = pl
      <3>1. /\ frame.gear = Some(s.gear) /\ frame.km = Some(s.km) /\ frame.pct = Some(s.pct)
            /\ frame.charger = Some(ch) /\ frame.plug = Some(pl)
        BY <1>6 DEF Some
      <3> QED
        BY <3>1, TheOne
    <2> QED
      BY <1>6, <1>7, <1>8, <2>4, <2>5, <2>6
  <1>10. framed = [polled EXCEPT !.gear = s.gear, !.pct = s.pct, !.live = framed.live]
    <2>1. framed.live = live
      BY <1>9
    <2> DEFINE m == [polled EXCEPT !.gear = s.gear, !.pct = s.pct, !.live = live]
    <2>2. m = [x \in DOMAIN m |-> m[x]] /\ DOMAIN m = DOMAIN polled
      OBVIOUS
    <2>3. /\ m.gear = s.gear /\ m.pct = s.pct /\ m.live = live
          /\ \A x \in DOMAIN polled \ {"gear", "pct", "live"} : m[x] = polled[x]
      BY <1>8
    <2> HIDE DEF m
    <2>4. /\ m.power = polled.power /\ m.loc = polled.loc /\ m.km = polled.km
          /\ m.charger = polled.charger /\ m.plug = polled.plug /\ m.kind = polled.kind
          /\ m.trim = polled.trim /\ m.panel = polled.panel
      BY <1>8, <2>3
    <2>5. m = [power |-> "online", gear |-> s.gear, loc |-> s.loc, km |-> s.km, pct |-> s.pct,
               charger |-> ch, plug |-> pl, live |-> live, kind |-> s.kind, trim |-> s.trim,
               panel |-> p]
      BY <1>8, <2>2, <2>3, <2>4
    <2> QED
      BY <1>9, <2>1, <2>5 DEF m
  <1>11. framed.gear = s.gear /\ framed.live = live
    BY <1>9
  <1>12. Metered(s).kw \notin 1..4 =>
            ((\E x \in polled.live : x.kw > 0) <=> \E kw \in frame.kw : kw > 0)
    <2>1. l.kw \in Nat
      BY DEF Session
    <2>2. CASE w.charging = "Charging"
      <3>1. (\E x \in polled.live : x.kw > 0) <=> 10 * Round(l.kw, 10) > 0
        <4>1. polled.live = {PolledSession(l)}
          BY <1>5, <1>8, <2>2
        <4> QED
          BY <4>1 DEF PolledSession
      <3>2. (\E kw \in frame.kw : kw > 0) <=> l.kw > 0
        BY <1>6
      <3>3. l.kw \notin 1..4 => (10 * Round(l.kw, 10) > 0 <=> l.kw > 0)
        BY <2>1 DEF Round
      <3> QED
        BY <1>1, <3>1, <3>2, <3>3
    <2>3. CASE w.charging # "Charging"
      <3>1. polled.live = {} /\ ~(l.kw > 0)
        BY <1>5, <1>8, <2>3
      <3>2. ~ \E kw \in frame.kw : kw > 0
        BY <1>6, <3>1
      <3> QED
        BY <3>1, <3>2
    <2> QED
      BY <2>2, <2>3
  <1>13. ASSUME w.charging = "Charging"
         PROVE  \E x \in polled.live, m \in framed.live :
                   m = [x EXCEPT !.kw = m.kw] /\ m.kw - x.kw \in -5..5
    <2>1. PICK x : x = PolledSession(l)
      OBVIOUS
    <2>2. polled.live = {x}
      BY <1>5, <1>8, <1>13, <2>1
    <2>3. \E m \in MergeLive({x}, frame) : m = [x EXCEPT !.kw = m.kw] /\ m.kw - x.kw \in -5..5
      BY <1>6, <2>1, SessionFramed
    <2> QED
      BY <1>7, <1>8, <1>11, <2>2, <2>3
  <1>14. polled.gear # s.gear =>
            /\ w.shift = "" /\ polled.gear \notin {"drive", "reverse", "neutral"}
            /\ framed.gear \notin {"drive", "reverse", "neutral"}
    BY <1>5, <1>8, <1>11
  <1>15. s.pct - polled.pct \in -9..9
    BY <1>5, <1>8
  <1> QED
    BY <1>10, <1>12, <1>13, <1>14, <1>15

LEMMA SnapshotSourcesAgree ==
    ASSUME up \in Snapshot
    PROVE  SourcesAgree
  BY CarAgrees DEF SourcesAgree

\* What any payload of the stream is decoded to.
LEMMA PayloadTyped ==
    ASSUME NEW payload \in Stream
    PROVE  LET f == DecodePayload(payload)
           IN  /\ f.gear \in Optional({"unknown", "park", "drive", "reverse", "neutral"})
               /\ f.loc \in Optional(STRING) /\ f.km \in Optional(Nat) /\ f.pct \in Optional(Nat)
               /\ f.charger \in Optional({"unknown", "idle", "charging", "disconnect"})
               /\ f.plug \in Optional({"unknown", "connected", "disconnected"})
               /\ f.kw \in Optional(Nat) /\ f.energy \in Optional(Nat) /\ f.amps \in Optional(Nat)
               /\ f.locked \in Optional(Word) /\ f.guard \in Optional(Word)
  <1> DEFINE Value == {payload[i].value : i \in DOMAIN payload}
  <1>1. Len(payload) \in Nat /\ DOMAIN payload = 1..Len(payload)
        /\ \A i \in DOMAIN payload : Sane(payload[i])
    BY RelayAssumption
  <1>2. ASSUME NEW keys
        PROVE  Carried(payload, keys) = {} \/ \E v \in Value : Carried(payload, keys) = {v}
    BY <1>1, CarriedCases DEF Nil, Some
  <1>3. ASSUME NEW v \in Value
        PROVE  NumVal(v) \in Nat /\ (v.kind = "location" => v.is \in STRING)
    <2>1. PICK i \in DOMAIN payload : v = payload[i].value
      OBVIOUS
    <2>2. (v.kind \in Numeric => v.is \in Nat) /\ (v.kind = "location" => v.is \in STRING)
      BY <1>1, <2>1 DEF Sane
    <2> QED
      BY <2>2 DEF NumVal
  <1>4. Fixes(payload) = {} \/ \E v \in Value : v.kind = "location" /\ Fixes(payload) = {v}
    BY <1>1, FixesCases DEF Nil, Some
  <1> HIDE DEF Value
  <1>5. ASSUME NEW v \in Value
        PROVE  MilesToKm(NumVal(v)) \in Nat
    <2>1. PICK n \in Nat : n = NumVal(v)
      BY <1>3
    <2> QED
      BY <2>1 DEF MilesToKm, Round
  <1>6. ASSUME NEW x
        PROVE  /\ GearVal(x) \in {"unknown", "park", "drive", "reverse", "neutral"}
               /\ ChargerFromTesla(x) \in {"unknown", "idle", "charging", "disconnect"}
               /\ PlugFromTesla(x) \in {"unknown", "connected", "disconnected"}
    BY DEF GearVal, GearFromTesla, ChargerFromTesla, PlugFromTesla
  <1>7. ASSUME NEW x
        PROVE  LockedFromTesla(x) \in Word /\ GearGuardFromTesla(x) \in Word
    <2>1. LockedFromTesla(x) \in {"locked", "unlocked"}
          /\ GearGuardFromTesla(x) \in {"enabled", "disabled"}
      BY DEF LockedFromTesla, GearGuardFromTesla
    <2> QED
      BY <2>1, LiteralsAreStrings DEF Word, InvalidSensorStates
  <1> DEFINE f == DecodePayload(payload)
  <1>8. f.gear \in Optional({"unknown", "park", "drive", "reverse", "neutral"})
    BY <1>2, <1>6 DEF DecodePayload, Optional
  <1>9. f.loc \in Optional(STRING)
    BY <1>4, <1>3 DEF DecodePayload, Optional
  <1>10. f.km \in Optional(Nat)
    BY <1>2, <1>5 DEF DecodePayload, Optional
  <1>11. f.pct \in Optional(Nat) /\ f.amps \in Optional(Nat)
    BY <1>2, <1>3 DEF DecodePayload, Optional
  <1>12. f.kw \in Optional(Nat) /\ f.energy \in Optional(Nat)
    BY <1>2, <1>3 DEF DecodePayload, Optional
  <1>13. f.charger \in Optional({"unknown", "idle", "charging", "disconnect"})
         /\ f.plug \in Optional({"unknown", "connected", "disconnected"})
    BY <1>2, <1>6 DEF DecodePayload, Optional
  <1>14. f.locked \in Optional(Word) /\ f.guard \in Optional(Word)
    BY <1>2, <1>7 DEF DecodePayload, Optional, SentryVal
  <1> HIDE DEF f
  <1> QED
    BY <1>8, <1>9, <1>10, <1>11, <1>12, <1>13, <1>14 DEF f

\* A frame laid over a snapshot gives a snapshot.
LEMMA LiveMerged ==
    ASSUME NEW live \in Optional(Session), NEW f, f.kw \in Optional(Nat),
           f.energy \in Optional(Nat), f.amps \in Optional(Nat)
    PROVE  MergeLive(live, f) \in Optional(Session)
  <1>1. The(f.kw, 0) \in Nat /\ The(f.energy, 0) \in Nat /\ The(f.amps, 0) \in Nat
    BY TheTyped
  <1>2. CASE f.kw \subseteq {0} /\ f.amps = Nil /\ f.energy = Nil
    BY <1>2 DEF MergeLive
  <1>3. CASE ~(f.kw \subseteq {0} /\ f.amps = Nil /\ f.energy = Nil) /\ live = Nil
    <2>1. PICK l : l = [kw |-> The(f.kw, 0), energy |-> The(f.energy, 0),
                        amps |-> The(f.amps, 0), fast |-> FALSE]
      OBVIOUS
    <2>2. l \in Session
      BY <1>1, <2>1 DEF Session
    <2>3. MergeLive(live, f) = Some(l)
      BY <1>3, <2>1 DEF MergeLive
    <2> QED
      BY <2>2, <2>3, OptionalSome
  <1>4. CASE ~(f.kw \subseteq {0} /\ f.amps = Nil /\ f.energy = Nil) /\ live # Nil
    <2>1. PICK s \in Session : live = Some(s)
      BY <1>4, OptionalCases
    <2>2. f.kw \ {0} \in Optional(Nat)
      BY DEF Optional
    <2>3. s.kw \in Nat /\ s.amps \in Nat /\ s.energy \in Nat
      BY DEF Session
    <2>4. PICK kw \in Nat : kw = The(f.kw \ {0}, s.kw)
      BY <2>2, <2>3, TheTyped
    <2>5. PICK amps \in Nat : amps = The(f.amps, s.amps)
      BY <2>3, TheTyped
    <2>6. PICK energy \in Nat : energy = The(f.energy, s.energy)
      BY <2>3, TheTyped
    <2>7. MergeLive(live, f) = {[s EXCEPT !.kw = kw, !.amps = amps, !.energy = energy]}
      BY <1>4, <2>1, <2>4, <2>5, <2>6 DEF MergeLive, Some
    <2>8. [s EXCEPT !.kw = kw, !.amps = amps, !.energy = energy] \in Session
      BY DEF Session
    <2> QED
      BY <2>7, <2>8, OptionalSome DEF Some
  <1> QED
    BY <1>2, <1>3, <1>4

LEMMA OverlaidTyped ==
    ASSUME NEW s \in Snapshot, NEW payload \in Stream
    PROVE  Overlaid(s, DecodePayload(payload)) \in Snapshot
  <1>1. PICK f : f = DecodePayload(payload)
    OBVIOUS
  <1>2. /\ f.gear \in Optional({"unknown", "park", "drive", "reverse", "neutral"})
        /\ f.loc \in Optional(STRING) /\ f.km \in Optional(Nat) /\ f.pct \in Optional(Nat)
        /\ f.charger \in Optional({"unknown", "idle", "charging", "disconnect"})
        /\ f.plug \in Optional({"unknown", "connected", "disconnected"})
        /\ f.kw \in Optional(Nat) /\ f.energy \in Optional(Nat) /\ f.amps \in Optional(Nat)
        /\ f.locked \in Optional(Word) /\ f.guard \in Optional(Word)
    BY <1>1, PayloadTyped
  <1>3. PICK ge \in {"unknown", "park", "drive", "reverse", "neutral"} : ge = The(f.gear, s.gear)
    BY <1>2, SnapshotFields, TheTyped
  <1>4. PICK km \in Nat : km = The(f.km, s.km)
    BY <1>2, SnapshotFields, TheTyped
  <1>5. PICK pct \in Nat : pct = The(f.pct, s.pct)
    BY <1>2, SnapshotFields, TheTyped
  <1>6. PICK ch \in {"unknown", "idle", "charging", "disconnect"} : ch = The(f.charger, s.charger)
    BY <1>2, SnapshotFields, TheTyped
  <1>7. PICK pl \in {"unknown", "connected", "disconnected"} : pl = The(f.plug, s.plug)
    BY <1>2, SnapshotFields, TheTyped
  <1>8. PICK live \in Optional(Session) : live = MergeLive(s.live, f)
    BY <1>2, SnapshotFields, LiveMerged
  <1>9. PICK loc \in Optional(STRING) : loc = IF f.loc = Nil THEN s.loc ELSE f.loc
    BY <1>2, SnapshotFields
  <1>10. PICK p \in Panel : p = s.panel
    BY SnapshotFields
  <1>11. PICK panel \in Panel :
           panel = [p EXCEPT !.locks = [d \in DOMAIN p.locks |-> The(f.locked, p.locks[d])],
                             !.guard = The(f.guard, p.guard)]
    <2>1. PICK locked \in Optional(Word), guard \in Optional(Word) :
            locked = f.locked /\ guard = f.guard
      BY <1>2
    <2>2. /\ p.locks.front \in Word /\ p.locks.rear \in Word /\ p.guard \in Word
          /\ p.seat \in Word /\ p.wheel \in Word /\ p.precond \in Word /\ p.tpms \in Word
          /\ p.door \in Word /\ p.ota \in Word
      BY DEF Panel
    <2>3. /\ The(locked, p.locks.front) \in Word /\ The(locked, p.locks.rear) \in Word
          /\ The(guard, p.guard) \in Word
      BY <2>2, TheTyped
    <2>4. [p EXCEPT !.locks = [d \in DOMAIN p.locks |-> The(locked, p.locks[d])],
                    !.guard = The(guard, p.guard)]
            = [seat |-> p.seat, wheel |-> p.wheel, precond |-> p.precond,
               guard |-> The(guard, p.guard), tpms |-> p.tpms,
               locks |-> [front |-> The(locked, p.locks.front), rear |-> The(locked, p.locks.rear)],
               door |-> p.door, ota |-> p.ota]
      BY PanelOverlaid
    <2>5. [p EXCEPT !.locks = [d \in DOMAIN p.locks |-> The(locked, p.locks[d])],
                    !.guard = The(guard, p.guard)] \in Panel
      BY <2>2, <2>3, <2>4 DEF Panel
    <2> QED
      BY <2>1, <2>5
  <1>12. Overlaid(s, f)
           = [power |-> IF s.power \in {"unknown", "offline"} THEN "online" ELSE s.power,
              gear |-> ge, loc |-> loc, km |-> km, pct |-> pct, charger |-> ch, plug |-> pl,
              live |-> live, kind |-> s.kind, trim |-> s.trim, panel |-> panel]
    <2>1. /\ DOMAIN s = {"power", "gear", "loc", "km", "pct", "charger", "plug", "live", "kind",
                         "trim", "panel"}
          /\ DOMAIN s.panel = {"seat", "wheel", "precond", "guard", "tpms", "locks", "door", "ota"}
      BY DEF Snapshot
    <2>2. PICK po : po = IF s.power \in {"unknown", "offline"} THEN "online" ELSE s.power
      OBVIOUS
    <2>3. PICK pa : pa = [s.panel EXCEPT !.locks = [d \in DOMAIN s.panel.locks |->
                                                      The(f.locked, s.panel.locks[d])],
                                         !.guard = The(f.guard, s.panel.guard)]
      OBVIOUS
    <2>4. pa = panel
      BY <1>10, <1>11, <2>3
    <2>5. Overlaid(s, f) =
            [power |-> po, gear |-> The(f.gear, s.gear), loc |-> loc,
             km |-> The(f.km, s.km), pct |-> The(f.pct, s.pct),
             charger |-> The(f.charger, s.charger), plug |-> The(f.plug, s.plug),
             live |-> MergeLive(s.live, f), kind |-> s.kind, trim |-> s.trim, panel |-> pa]
      <3>1. Overlaid(s, f) = OverlaidAs(s, f)
        BY <2>1, OverlaidFields
      <3> QED
        BY <1>9, <2>2, <2>3, <3>1 DEF OverlaidAs
    <2> QED
      BY <1>3, <1>4, <1>5, <1>6, <1>7, <1>8, <2>2, <2>4, <2>5
  <1>13. PICK po \in {"unknown", "offline", "online", "sleep"} :
           po = IF s.power \in {"unknown", "offline"} THEN "online" ELSE s.power
    BY SnapshotFields
  <1>14. s.kind \in STRING /\ s.trim \in STRING
    BY SnapshotFields
  <1>15. Overlaid(s, f) \in Snapshot
    BY <1>12, <1>13, <1>14 DEF Snapshot, Session, Panel
  <1> QED
    BY <1>1, <1>15

-----------------------------------------------------------------------------
(* Two hubs.                                                                *)

\* What v knows of position, range and trim, w knows as well.
KnowsNoMore(v, w) ==
    /\ w.loc = Nil => v.loc = Nil
    /\ w.range = 0 => v.range = 0
    /\ w.config[2] = "" => v.config[2] = ""

\* The second hub has never been told what the first does not hold.  Without it the
\* second hub would go on serving a reading of its own where the first has none.
RelayInv ==
    /\ up \in Snapshot /\ body \in Optional(Wire) /\ down \in Optional(Wire)
    /\ \A v \in down : \E w \in body : KnowsNoMore(v, w)

\* A configuration is a type that can be rendered and a trim.
LEMMA PairParts ==
    ASSUME NEW A, NEW B, NEW c \in A \X B
    PROVE  c = <<c[1], c[2]>> /\ c[1] \in A /\ c[2] \in B
  OBVIOUS

LEMMA ConfigPair ==
    ASSUME NEW c \in Config
    PROVE  /\ c = <<c[1], c[2]>>
           /\ c[1] \notin DOMAIN Unrendered /\ c[1] # ""
  <1>1. PICK A : A = STRING \ (DOMAIN Unrendered \union {""})
    OBVIOUS
  <1>2. c \in A \X STRING
    BY <1>1 DEF Config
  <1>3. c = <<c[1], c[2]>> /\ c[1] \in A
    BY <1>2, PairParts
  <1> QED
    BY <1>1, <1>3

\* Such a pair is served as it is if the payload before has no trim of its own to add, ...
LEMMA ConfigPassed ==
    ASSUME NEW prev \in Optional(Wire), NEW kind, NEW trim,
           kind \notin DOMAIN Unrendered, kind # "",
           \A x \in prev : trim = "" => x.config[2] = ""
    PROVE  VehicleConfig(prev, kind, trim) = <<kind, trim>>
  <1>1. PICK before : before = The(prev, [config |-> <<"model3", "">>]).config
    OBVIOUS
  <1>2. trim = "" => before[2] = ""
    <2>1. CASE prev = Nil
      <3>1. before = <<"model3", "">>
        BY <1>1, <2>1 DEF The
      <3> QED
        BY <3>1
    <2>2. ASSUME NEW x \in Wire, prev = Some(x)
          PROVE  trim = "" => before[2] = ""
      BY <1>1, <2>2, TheOne DEF Some
    <2> QED
      BY <2>1, <2>2, OptionalCases
  <1>3. PICK badge : badge = IF trim # "" THEN trim ELSE before[2]
    OBVIOUS
  <1>4. badge = trim
    BY <1>2, <1>3
  <1>5. VehicleConfig(prev, kind, trim) = <<kind, badge>>
    BY <1>1, <1>3 DEF VehicleConfig
  <1> QED
    BY <1>4, <1>5

\* ... and is held when nothing is known of either.
LEMMA ConfigHeld ==
    ASSUME NEW x \in Wire
    PROVE  VehicleConfig(Some(x), "", "") = x.config
  <1>1. PICK before \in Config : before = x.config
    BY WireFields
  <1>2. The(Some(x), [config |-> <<"model3", "">>]).config = before
    BY <1>1, TheOne
  <1>3. PICK kind, trim : kind = before[1] /\ trim = before[2]
    OBVIOUS
  <1>4. before = <<kind, trim>> /\ kind \notin DOMAIN Unrendered
    BY <1>3, ConfigPair
  <1>5. VehicleConfig(Some(x), "", "") = <<kind, trim>>
    BY <1>2, <1>3, <1>4 DEF VehicleConfig
  <1> QED
    BY <1>1, <1>4, <1>5

\* A hub holds: the payload it serves next knows no less.
LEMMA ServedKnows ==
    ASSUME NEW x \in Wire, NEW s \in Snapshot
    PROVE  KnowsNoMore(x, VehicleData(Some(x), s))
  <1>1. PICK w : w = VehicleData(Some(x), s)
    OBVIOUS
  <1>2. /\ w.loc = IF s.loc = Nil THEN x.loc ELSE s.loc
        /\ w.range = IF s.km = 0 THEN x.range ELSE KmToMiles(s.km)
    BY <1>1, LaterServed
  <1>3. s.km \in Nat /\ s.kind \in STRING /\ s.trim \in STRING
    BY SnapshotFields
  <1>4. w.loc = Nil => x.loc = Nil
    BY <1>2
  <1>5. w.range = 0 => x.range = 0
    BY <1>2, <1>3, MilesInverse
  <1>6. w.config = VehicleConfig(Some(x), s.kind, s.trim)
    BY <1>1, AlwaysServed
  <1>7. w.config[2] = "" => x.config[2] = ""
    <2>1. The(Some(x), [config |-> <<"model3", "">>]).config = x.config
      BY TheOne
    <2>2. PICK type, badge :
            /\ type = IF s.kind # "" THEN s.kind ELSE x.config[1]
            /\ badge = IF s.trim # "" THEN s.trim ELSE x.config[2]
      OBVIOUS
    <2>3. w.config = IF type \in DOMAIN Unrendered THEN <<"model3", Unrendered[type]>>
                     ELSE <<type, badge>>
      BY <1>6, <2>1, <2>2 DEF VehicleConfig
    <2>4. CASE type \in DOMAIN Unrendered
      <3>1. PICK line : line = Unrendered[type]
        OBVIOUS
      <3>2. line # ""
        BY <2>4, <3>1, TrimOfUnrendered
      <3>3. w.config = <<"model3", line>>
        BY <2>3, <2>4, <3>1
      <3>4. w.config[2] = line
        BY <3>3
      <3> QED
        BY <3>2, <3>4
    <2>5. CASE type \notin DOMAIN Unrendered
      <3>1. w.config = <<type, badge>>
        BY <2>3, <2>5
      <3>2. w.config[2] = badge
        BY <3>1
      <3> QED
        BY <2>2, <3>2
    <2> QED
      BY <2>4, <2>5
  <1> QED
    BY <1>1, <1>4, <1>5, <1>7 DEF KnowsNoMore

\* What the second hub serves of a car that is online.
LEMMA HopServes ==
    ASSUME NEW w \in Wire, NEW prev \in Optional(Wire),
           \A x \in prev : KnowsNoMore(x, w),
           NEW v \in Wire, v = VehicleData(prev, DecodeVehicleData(w))
    PROVE  /\ v.shift = w.shift /\ v.loc = w.loc /\ v.range = w.range
           /\ v.charging = w.charging /\ v.config = w.config
           /\ v.level = w.level \/ (w.level = 0 /\ \E x \in prev : v.level = x.level)
           /\ v.state = TopState(PowerFromTesla(w.state))
           /\ v.panel = EncodePanel(DecodePanel(w.panel))
           /\ v.live = EncodeLive(prev, DecodeLive(w.charging, w.live))
  <1>1. PICK s \in Snapshot : s = DecodeVehicleData(w)
    BY DecodedTyped
  <1>2. /\ s.power = PowerFromTesla(w.state) /\ s.gear = GearFromTesla(w.shift)
        /\ s.loc = w.loc /\ s.km = MilesToKm(w.range) /\ s.pct = 10 * w.level
        /\ s.charger = ChargerFromTesla(w.charging) /\ s.plug = PlugFromTesla(w.charging)
        /\ s.live = DecodeLive(w.charging, w.live) /\ s.kind = w.config[1]
        /\ s.trim = w.config[2] /\ s.panel = DecodePanel(w.panel)
    BY <1>1 DEF DecodeVehicleData
  <1>3. /\ v.state = TopState(s.power) /\ v.charging = ChargingState(s.charger, s.plug)
        /\ v.live = EncodeLive(prev, s.live) /\ v.config = VehicleConfig(prev, s.kind, s.trim)
        /\ v.panel = EncodePanel(s.panel)
    BY <1>1, AlwaysServed
  <1>4. v.charging = w.charging
    <2>1. ASSUME NEW c \in {"Charging", "Stopped", "Disconnected"}
          PROVE  ChargingState(ChargerFromTesla(c), PlugFromTesla(c)) = c
      BY DEF ChargingState, ChargerFromTesla, PlugFromTesla
    <2> QED
      BY <1>2, <1>3, <2>1, WireFields
  <1>5. s.gear # "unknown" /\ ShiftState(s.gear) = w.shift
    BY <1>2, WireFields DEF ShiftState, GearFromTesla
  <1>6. KmToMiles(s.km) = w.range /\ (s.km = 0 <=> w.range = 0)
    <2>1. PICK km \in Nat : w.range = KmToMiles(km)
      BY WireFields
    <2> QED
      BY <1>2, <2>1, MilesInverse
  <1>7. Trunc(s.pct, 10) = w.level /\ (s.pct = 0 <=> w.level = 0)
    BY <1>2, WireFields, RoundTenths
  <1>8. w.config \in Config
    BY WireFields
  <1>9. PICK kind, trim : /\ kind \notin DOMAIN Unrendered /\ kind # ""
                         /\ w.config = <<kind, trim>> /\ s.kind = kind /\ s.trim = trim
    <2>1. PICK c \in Config : c = w.config
      BY <1>8
    <2>2. PICK kind, trim : kind = c[1] /\ trim = c[2]
      OBVIOUS
    <2>3. c = <<kind, trim>> /\ kind \notin DOMAIN Unrendered /\ kind # ""
      BY <2>1, <2>2, ConfigPair
    <2> QED
      BY <1>2, <2>1, <2>2, <2>3
  <1>10. CASE prev = Nil
    <2>1. v.shift = w.shift /\ v.loc = w.loc /\ v.range = w.range /\ v.level = w.level
      BY <1>1, <1>2, <1>5, <1>6, <1>7, <1>10, FirstServed
    <2>2. \A x \in prev : trim = "" => x.config[2] = ""
      BY <1>10 DEF Nil
    <2>3. VehicleConfig(prev, kind, trim) = <<kind, trim>>
      BY <1>9, <2>2, ConfigPassed
    <2>4. v.config = w.config
      BY <1>3, <1>9, <2>3
    <2> QED
      BY <1>2, <1>3, <1>4, <2>1, <2>4
  <1>11. ASSUME NEW x \in Wire, prev = Some(x)
         PROVE  /\ v.shift = w.shift /\ v.loc = w.loc /\ v.range = w.range
                /\ v.config = w.config
                /\ v.level = w.level \/ (w.level = 0 /\ v.level = x.level)
    <2>1. KnowsNoMore(x, w)
      BY <1>11 DEF Some
    <2>2. /\ v.shift = IF s.gear = "unknown" THEN x.shift ELSE ShiftState(s.gear)
          /\ v.loc = IF s.loc = Nil THEN x.loc ELSE s.loc
          /\ v.range = IF s.km = 0 THEN x.range ELSE KmToMiles(s.km)
          /\ v.level = IF s.pct = 0 THEN x.level ELSE Trunc(s.pct, 10)
      BY <1>1, <1>11, LaterServed
    <2>3. v.shift = w.shift /\ v.loc = w.loc /\ v.range = w.range
      BY <1>2, <1>5, <1>6, <2>1, <2>2 DEF KnowsNoMore
    <2>4. v.level = w.level \/ (w.level = 0 /\ v.level = x.level)
      BY <1>7, <2>2
    <2>5. w.config[2] = trim
      BY <1>2, <1>9
    <2>6. \A y \in prev : trim = "" => y.config[2] = ""
      BY <1>11, <2>1, <2>5 DEF KnowsNoMore, Some
    <2>7. VehicleConfig(prev, kind, trim) = <<kind, trim>>
      BY <1>9, <2>6, ConfigPassed
    <2>8. v.config = w.config
      BY <1>3, <1>9, <2>7
    <2> QED
      BY <2>3, <2>4, <2>8
  <1>12. CASE \E x \in Wire : prev = Some(x)
    <2>1. PICK x \in Wire : prev = Some(x)
      BY <1>12
    <2>2. x \in prev
      BY <2>1 DEF Some
    <2> QED
      BY <1>2, <1>3, <1>4, <1>11, <2>1, <2>2
  <1> QED
    BY <1>10, <1>12, OptionalCases

\* A panel decoded and encoded again differs at most in an update.
LEMMA PanelEssence ==
    ASSUME NEW w \in WirePanel, NEW v \in WirePanel, v = EncodePanel(DecodePanel(w))
    PROVE  [f \in DOMAIN v \ {"update"} |-> v[f]] = [f \in DOMAIN w \ {"update"} |-> w[f]]
  <1> DEFINE parts == {"seat", "wheel", "precond", "sentry", "tpms", "locked", "door"}
  <1>1. DOMAIN v \ {"update"} = parts /\ DOMAIN w \ {"update"} = parts
    BY DEF WirePanel
  <1>2. /\ v.seat = w.seat /\ v.wheel = w.wheel /\ v.precond = w.precond
        /\ v.sentry = w.sentry /\ v.tpms = w.tpms /\ v.locked = w.locked
        /\ v.door = w.door
    BY PanelSurvives
  <1>3. \A f \in parts : v[f] = w[f]
    BY <1>2
  <1> HIDE DEF parts
  <1> QED
    BY <1>1, <1>3

\* An AC session taken for a fast charger's.
LEMMA TakenForDC ==
    ASSUME NEW l \in WireLive
    PROVE  [l EXCEPT !.fast = TRUE, !.amps = Nil]
             = [power |-> l.power, fast |-> TRUE, energy |-> l.energy, amps |-> Nil]
  <1> DEFINE m == [l EXCEPT !.fast = TRUE, !.amps = Nil]
  <1>1. DOMAIN l = {"power", "fast", "energy", "amps"}
    BY DEF WireLive
  <1>2. /\ m = [x \in DOMAIN m |-> m[x]] /\ DOMAIN m = DOMAIN l
        /\ m.fast = TRUE /\ m.amps = Nil
        /\ \A x \in DOMAIN l \ {"fast", "amps"} : m[x] = l[x]
    BY <1>1
  <1> HIDE DEF m
  <1>3. m = [power |-> l.power, fast |-> TRUE, energy |-> l.energy, amps |-> Nil]
    BY <1>1, <1>2
  <1> QED
    BY <1>3 DEF m

\* The session of a car that charges, decoded and encoded again.
LEMMA LiveSurvives ==
    ASSUME NEW l \in WireLive, NEW prev
    PROVE  LET v == EncodeLive(prev, DecodeLive("Charging", l))
           IN  \/ v = l
               \/ /\ l.power = 25 /\ ~l.fast
                  /\ v = [power |-> l.power, fast |-> TRUE, energy |-> l.energy, amps |-> Nil]
  <1>0. PICK v : v = EncodeLive(prev, DecodeLive("Charging", l))
    OBVIOUS
  <1>1. PICK power \in Nat, fast \in BOOLEAN, energy \in Nat, amps \in Optional(Nat) :
          l = [power |-> power, fast |-> fast, energy |-> energy, amps |-> amps]
    BY DEF WireLive
  <1>2. IF fast THEN amps = Nil ELSE amps # Nil /\ power <= 25
    <2>1. IF l.fast THEN l.amps = Nil ELSE l.amps # Nil /\ l.power <= 25
      BY DEF WireLive
    <2> QED
      BY <1>1, <2>1
  <1>3. PICK s : s = [kw |-> 10 * power, fast |-> fast, energy |-> energy, amps |-> The(amps, 0)]
    OBVIOUS
  <1>4. s \in Session /\ s.kw = 10 * power /\ s.fast = fast /\ s.energy = energy
        /\ s.amps = The(amps, 0)
    BY <1>3, TheTyped DEF Session
  <1>5. DecodeLive("Charging", l) = Some(s)
    BY <1>1, <1>3 DEF DecodeLive
  <1>6. v = [power |-> Round(s.kw, 10), fast |-> s.fast \/ s.kw >= 250, energy |-> s.energy,
             amps |-> IF s.fast \/ s.kw >= 250 THEN Nil ELSE Some(s.amps)]
    BY <1>0, <1>4, <1>5, LiveEncoded
  <1>7. Round(10 * power, 10) = power
    BY RoundTenths
  <1>8. 10 * power >= 250 <=> power >= 25
    OBVIOUS
  <1>9. CASE fast
    <2>1. v = [power |-> power, fast |-> TRUE, energy |-> energy, amps |-> Nil]
      BY <1>4, <1>6, <1>7, <1>9
    <2>2. l = [power |-> power, fast |-> TRUE, energy |-> energy, amps |-> Nil]
      BY <1>1, <1>2, <1>9
    <2> QED
      BY <1>0, <2>1, <2>2
  <1>10. CASE ~fast /\ power < 25
    <2>1. ~(power >= 25)
      BY <1>10
    <2>2. v = [power |-> power, fast |-> FALSE, energy |-> energy, amps |-> Some(The(amps, 0))]
      BY <1>4, <1>6, <1>7, <1>8, <1>10, <2>1
    <2>3. Some(The(amps, 0)) = amps
      BY <1>2, <1>10, OptionalCases, TheOne
    <2>4. l = [power |-> power, fast |-> FALSE, energy |-> energy, amps |-> amps]
      BY <1>1, <1>10
    <2> QED
      BY <1>0, <2>2, <2>3, <2>4
  <1>11. CASE ~fast /\ power = 25
    <2>1. s.kw >= 250 /\ Round(s.kw, 10) = power
      BY <1>4, <1>7, <1>11
    <2>2. v = [power |-> power, fast |-> TRUE, energy |-> energy, amps |-> Nil]
      BY <1>4, <1>6, <2>1
    <2>3. l.power = 25 /\ ~l.fast /\ l.power = power /\ l.energy = energy
      BY <1>1, <1>11
    <2> QED
      BY <1>0, <2>2, <2>3
  <1> QED
    BY <1>0, <1>2, <1>9, <1>10, <1>11

\* A second hub is transparent for one payload, whatever it has been holding.
LEMMA PayloadPassed ==
    ASSUME NEW w \in Wire, w.state = "online", NEW prev \in Optional(Wire),
           \A x \in prev : KnowsNoMore(x, w),
           NEW v \in Wire, v = VehicleData(prev, DecodeVehicleData(w))
    PROVE  /\ Essence(v) = Essence(w)
           /\ \/ v.level = w.level
              \/ w.level = 0 /\ \E x \in prev : v.level = x.level
           /\ w.charging = "Charging" =>
                 \/ v.live = w.live
                 \/ /\ w.live.power = 25 /\ ~w.live.fast
                    /\ v.live = [power |-> w.live.power, fast |-> TRUE,
                                 energy |-> w.live.energy, amps |-> Nil]
  <1>1. /\ v.shift = w.shift /\ v.loc = w.loc /\ v.range = w.range
        /\ v.charging = w.charging /\ v.config = w.config
        /\ v.level = w.level \/ (w.level = 0 /\ \E x \in prev : v.level = x.level)
        /\ v.state = TopState(PowerFromTesla(w.state))
        /\ v.panel = EncodePanel(DecodePanel(w.panel))
        /\ v.live = EncodeLive(prev, DecodeLive(w.charging, w.live))
    BY HopServes
  <1>2. v.state = w.state
    BY <1>1 DEF TopState, PowerFromTesla
  <1>3. PICK p \in WirePanel, q \in WirePanel : p = w.panel /\ q = v.panel
    BY WireFields
  <1>4. [f \in DOMAIN q \ {"update"} |-> q[f]] = [f \in DOMAIN p \ {"update"} |-> p[f]]
    BY <1>1, <1>3, PanelEssence
  <1>5. Essence(v) = Essence(w)
    BY <1>1, <1>2, <1>3, <1>4 DEF Essence
  <1>6. ASSUME w.charging = "Charging"
        PROVE  \/ v.live = w.live
               \/ /\ w.live.power = 25 /\ ~w.live.fast
                  /\ v.live = [power |-> w.live.power, fast |-> TRUE,
                               energy |-> w.live.energy, amps |-> Nil]
    <2>1. PICK l \in WireLive : l = w.live
      BY WireFields
    <2>2. PICK m : m = EncodeLive(prev, DecodeLive("Charging", l))
      OBVIOUS
    <2>3. \/ m = l
          \/ /\ l.power = 25 /\ ~l.fast
             /\ m = [power |-> l.power, fast |-> TRUE, energy |-> l.energy, amps |-> Nil]
      BY <2>2, LiveSurvives
    <2>4. v.live = m
      BY <1>1, <1>6, <2>1, <2>2
    <2> QED
      BY <2>1, <2>3, <2>4
  <1> QED
    BY <1>1, <1>5, <1>6

\* Of a summary, a hub that has served something serves the liveness and holds the rest.
LEMMA SummaryHeld ==
    ASSUME NEW state \in {"asleep", "offline"}, NEW x \in Wire
    PROVE  LET w == VehicleData(Some(x), SummaryToSnapshot(state))
           IN  /\ w.state = state
               /\ w.shift = x.shift /\ w.loc = x.loc /\ w.range = x.range
               /\ w.level = x.level /\ w.config = x.config
               /\ w.live.energy = x.live.energy
  <1>1. PICK w : w = VehicleData(Some(x), SummaryToSnapshot(state))
    OBVIOUS
  <1>2. PICK s : s = SummaryToSnapshot(state)
    OBVIOUS
  <1>3. /\ s.power = PowerFromTesla(state) /\ s.gear = "unknown" /\ s.loc = Nil /\ s.km = 0
        /\ s.pct = 0 /\ s.live = Nil /\ s.kind = "" /\ s.trim = ""
    BY <1>2 DEF SummaryToSnapshot
  <1>4. /\ w.state = TopState(s.power) /\ w.live = EncodeLive(Some(x), s.live)
        /\ w.config = VehicleConfig(Some(x), s.kind, s.trim)
    BY <1>1, <1>2, AlwaysServed
  <1>5. w.shift = x.shift /\ w.loc = x.loc /\ w.range = x.range /\ w.level = x.level
    BY <1>1, <1>2, <1>3, LaterServed
  <1>6. w.state = state
    BY <1>3, <1>4 DEF TopState, PowerFromTesla
  <1>7. w.config = x.config
    BY <1>3, <1>4, ConfigHeld
  <1>8. w.live.energy = x.live.energy
    <2>1. PICK prev \in Optional(Wire) : prev = Some(x)
      BY OptionalSome
    <2>2. prev # Nil /\ The(prev, Nil) = x
      BY <2>1, TheOne
    <2>3. PICK e : e = IF prev = Nil THEN 0 ELSE The(prev, Nil).live.energy
      OBVIOUS
    <2>4. EncodeLive(prev, Nil) = [power |-> 0, fast |-> FALSE, amps |-> Some(0), energy |-> e]
      BY <2>3, NoLiveEncoded
    <2>5. w.live = EncodeLive(prev, Nil)
      BY <1>3, <1>4, <2>1
    <2> QED
      BY <2>2, <2>3, <2>4, <2>5
  <1> QED
    BY <1>1, <1>5, <1>6, <1>7, <1>8

\* Of a summary, a hub that has served nothing knows nothing.
LEMMA SummaryFirst ==
    ASSUME NEW state
    PROVE  LET w == VehicleData(Nil, SummaryToSnapshot(state))
           IN  w.loc = Nil /\ w.range = 0 /\ w.config[2] = ""
  <1>1. PICK w : w = VehicleData(Nil, SummaryToSnapshot(state))
    OBVIOUS
  <1>2. PICK s : s = SummaryToSnapshot(state)
    OBVIOUS
  <1>3. s.loc = Nil /\ s.km = 0 /\ s.kind = "" /\ s.trim = ""
    BY <1>2 DEF SummaryToSnapshot
  <1>4. w.loc = Nil /\ w.range = KmToMiles(0)
    BY <1>1, <1>2, <1>3, FirstServed
  <1>5. w.range = 0
    BY <1>4 DEF KmToMiles
  <1>6. w.config = VehicleConfig(Nil, "", "")
    BY <1>1, <1>2, <1>3, AlwaysServed
  <1>7. PICK kind, trim : kind = "model3" /\ trim = ""
    OBVIOUS
  <1>8. w.config = <<kind, trim>>
    BY <1>6, <1>7 DEF VehicleConfig, The, Unrendered
  <1>9. w.config[2] = trim
    BY <1>8
  <1> QED
    BY <1>1, <1>4, <1>5, <1>7, <1>9

\* The next payload of the first hub, of a snapshot s, knows what the second one knows.
LEMMA NextPayload ==
    ASSUME RelayInv, NEW s \in Snapshot
    PROVE  /\ VehicleData(body, s) \in Wire
           /\ \A v \in down : KnowsNoMore(v, VehicleData(body, s))
  <1>1. PICK w \in Wire : w = VehicleData(body, s)
    BY ServedTyped DEF RelayInv
  <1>2. ASSUME NEW v \in down
        PROVE  KnowsNoMore(v, w)
    <2>1. PICK b \in body : KnowsNoMore(v, b)
      BY DEF RelayInv
    <2>2. b \in Wire /\ body = Some(b)
      BY DEF RelayInv, Optional, Some
    <2>3. KnowsNoMore(b, w)
      BY <1>1, <2>2, ServedKnows
    <2> QED
      BY <2>1, <2>3 DEF KnowsNoMore
  <1> QED
    BY <1>1, <1>2

LEMMA RelayInvInit ==
    ASSUME Init
    PROVE  RelayInv
  <1>1. up \in Snapshot
    BY RelayAssumption DEF Init
  <1>2. Nil \in Optional(Wire)
    BY DEF Nil, Optional
  <1> QED
    BY <1>1, <1>2 DEF Init, RelayInv, Nil

\* A consumer reads the first hub after its snapshot changed.
LEMMA ReadKeepsRelayInv ==
    ASSUME RelayInv, NEW s \in Snapshot,
           up' = s, body' = Some(VehicleData(body, s)), UNCHANGED down
    PROVE  RelayInv'
  <1>1. PICK w \in Wire : w = VehicleData(body, s)
    BY NextPayload
  <1>2. body' \in Optional(Wire) /\ w \in body'
    BY <1>1, OptionalSome DEF Some
  <1>3. \A v \in down' : KnowsNoMore(v, w)
    BY <1>1, NextPayload
  <1> QED
    BY <1>2, <1>3 DEF RelayInv

\* What a hop does: a payload goes through, or only the liveness does.
LEMMA HopOnline ==
    ASSUME RelayInv, Hop, TopState(up.power) = "online"
    PROVE  \E w \in Wire, v \in Wire :
              /\ w.state = "online" /\ body' = Some(w) /\ down' = Some(v)
              /\ v = VehicleData(down, DecodeVehicleData(w))
              /\ \A x \in down : KnowsNoMore(x, w)
  <1>1. up \in Snapshot /\ down \in Optional(Wire)
    BY DEF RelayInv
  <1>2. PICK w \in Wire : w = VehicleData(body, up)
    BY <1>1, NextPayload
  <1>3. w.state = "online"
    BY <1>2, AlwaysServed
  <1>4. PICK s \in Snapshot : s = DecodeVehicleData(w)
    BY DecodedTyped
  <1>5. PICK v \in Wire : v = VehicleData(down, s)
    BY <1>1, ServedTyped
  <1>6. body' = Some(w) /\ down' = Some(v)
    BY <1>2, <1>3, <1>4, <1>5 DEF Hop, Polled
  <1>7. \A x \in down : KnowsNoMore(x, w)
    BY <1>1, <1>2, NextPayload
  <1> QED
    BY <1>3, <1>4, <1>5, <1>6, <1>7

LEMMA HopOffline ==
    ASSUME RelayInv, Hop, TopState(up.power) # "online"
    PROVE  \E v \in Wire :
              /\ TopState(up.power) \in {"asleep", "offline"}
              /\ UNCHANGED body /\ down' = Some(v)
              /\ v = VehicleData(down, SummaryToSnapshot(TopState(up.power)))
  <1>1. up \in Snapshot /\ down \in Optional(Wire)
    BY DEF RelayInv
  <1>2. PICK state : state = TopState(up.power)
    OBVIOUS
  <1>3. state \in {"asleep", "offline"}
    BY <1>2 DEF TopState
  <1>4. PICK w : w = VehicleData(body, up)
    OBVIOUS
  <1>5. w.state = state
    BY <1>2, <1>4, AlwaysServed
  <1>6. PICK s \in Snapshot : s = SummaryToSnapshot(state)
    BY SummaryTyped
  <1>7. PICK v \in Wire : v = VehicleData(down, s)
    BY <1>1, ServedTyped
  <1>8. UNCHANGED body /\ down' = Some(v)
    BY <1>2, <1>4, <1>5, <1>6, <1>7 DEF Hop, Polled
  <1> QED
    BY <1>2, <1>3, <1>6, <1>7, <1>8

LEMMA HopKeepsRelayInv ==
    ASSUME RelayInv, Hop
    PROVE  RelayInv'
  <1>1. up' \in Snapshot /\ down \in Optional(Wire) /\ body \in Optional(Wire) /\ body # Nil
    BY DEF RelayInv, Hop
  <1>2. CASE TopState(up.power) = "online"
    <2>1. PICK w \in Wire, v \in Wire :
            /\ w.state = "online" /\ body' = Some(w) /\ down' = Some(v)
            /\ v = VehicleData(down, DecodeVehicleData(w))
            /\ \A x \in down : KnowsNoMore(x, w)
      BY <1>2, HopOnline
    <2>2. v.loc = w.loc /\ v.range = w.range /\ v.config = w.config
      BY <1>1, <2>1, HopServes
    <2>3. KnowsNoMore(v, w)
      BY <2>2 DEF KnowsNoMore
    <2>4. body' \in Optional(Wire) /\ down' \in Optional(Wire)
      BY <2>1, OptionalSome
    <2> QED
      BY <1>1, <2>1, <2>3, <2>4 DEF RelayInv, Some
  <1>3. CASE TopState(up.power) # "online"
    <2>1. PICK v \in Wire :
            /\ TopState(up.power) \in {"asleep", "offline"}
            /\ UNCHANGED body /\ down' = Some(v)
            /\ v = VehicleData(down, SummaryToSnapshot(TopState(up.power)))
      BY <1>3, HopOffline
    <2>2. PICK b \in Wire : body = Some(b)
      BY <1>1, OptionalCases
    <2>3. KnowsNoMore(v, b)
      <3>1. CASE down = Nil
        <4>1. v.loc = Nil /\ v.range = 0 /\ v.config[2] = ""
          BY <2>1, <3>1, SummaryFirst
        <4> QED
          BY <4>1 DEF KnowsNoMore
      <3>2. ASSUME NEW x \in Wire, down = Some(x)
            PROVE  KnowsNoMore(v, b)
        <4>1. v.loc = x.loc /\ v.range = x.range /\ v.config = x.config
          BY <2>1, <3>2, SummaryHeld
        <4>2. KnowsNoMore(x, b)
          BY <2>2, <3>2 DEF RelayInv, Some
        <4> QED
          BY <4>1, <4>2 DEF KnowsNoMore
      <3> QED
        BY <1>1, <3>1, <3>2, OptionalCases
    <2>4. body' \in Optional(Wire) /\ down' \in Optional(Wire)
      BY <1>1, <2>1, OptionalSome
    <2> QED
      BY <1>1, <2>1, <2>2, <2>3, <2>4 DEF RelayInv, Some
  <1> QED
    BY <1>2, <1>3

\* Every step keeps it.
LEMMA StepKeepsRelayInv ==
    ASSUME RelayInv, [Next]_vars
    PROVE  RelayInv'
  <1>1. CASE Hop
    BY <1>1, HopKeepsRelayInv
  <1>2. ASSUME NEW s \in Life, Report(s)
        PROVE  RelayInv'
    <2>1. s \in Snapshot
      BY RelayAssumption
    <2> QED
      BY <1>2, <2>1, ReadKeepsRelayInv DEF Report
  <1>3. ASSUME NEW payload \in Stream, Put(payload)
        PROVE  RelayInv'
    <2>1. PICK s \in Snapshot : s = Overlaid(up, DecodePayload(payload))
      BY OverlaidTyped DEF RelayInv
    <2>2. up' = s /\ body' = Some(VehicleData(body, s)) /\ UNCHANGED down
      BY <1>3, <2>1 DEF Put
    <2> QED
      BY <2>2, ReadKeepsRelayInv
  <1>4. CASE UNCHANGED vars
    BY <1>4 DEF vars, RelayInv
  <1> QED
    BY <1>1, <1>2, <1>3, <1>4 DEF Next

-----------------------------------------------------------------------------
(* The theorems.                                                            *)

\* Whatever the first hub is told, through vehicle_data or through Fleet Telemetry, both
\* hubs serve payloads of the format, and the second never knows a position, a range or a
\* trim the first has not: the hold-last-known of sink_mapping.go cannot bring back what
\* was never served.
THEOREM HubsInStep == Spec => []RelayInv
  <1>1. Init => RelayInv
    BY RelayInvInit
  <1>2. RelayInv /\ [Next]_vars => RelayInv'
    BY StepKeepsRelayInv
  <1> QED
    BY <1>1, <1>2, PTL DEF Spec

\* No encoder and no decoder (vehicle_data, data:update, TeslaFi, Rivian) makes up a drive,
\* a charge or an online car, of any snapshot a hub may hold.
THEOREM NoPhantomHolds == Spec => []NoPhantom
  <1>1. RelayInv => NoPhantom
    BY SnapshotNoPhantom DEF RelayInv
  <1> QED
    BY <1>1, HubsInStep, PTL

\* A Fleet Telemetry payload of what vehicle_data has just said changes nothing, of any
\* snapshot: the keys and units of the two Tesla sources agree.
THEOREM SourcesAgreeHolds == Spec => []SourcesAgree
  <1>1. RelayInv => SourcesAgree
    BY SnapshotSourcesAgree DEF RelayInv
  <1> QED
    BY <1>1, HubsInStep, PTL

\* The readings survive the four formats, of any snapshot, and the Rivian sink is the
\* inverse of the Rivian source.
THEOREM ReadingsSurviveHolds == Spec => []ReadingsSurvive
  <1>1. RelayInv => ReadingsSurvive
    BY SnapshotReadingsSurvive DEF RelayInv
  <1> QED
    BY <1>1, HubsInStep, PTL

\* A second hub serves of an online car what the first serves, whatever both have been
\* holding, but for the two readings at a boundary that HopIsTransparent names.
THEOREM HopIsTransparentHolds == Spec => HopIsTransparent
  <1> DEFINE Transparent ==
        \E w \in body', v \in down' :
            /\ Essence(v) = Essence(w)
            /\ \/ v.level = w.level
               \/ w.level = 0 /\ \E before \in down : v.level = before.level
            /\ w.charging = "Charging" =>
                  \/ v.live = w.live
                  \/ /\ w.live.power = 25 /\ ~w.live.fast
                     /\ v.live = [w.live EXCEPT !.fast = TRUE, !.amps = Nil]
  <1>1. ASSUME RelayInv, Hop, TopState(up.power) = "online"
        PROVE  Transparent
    <2>1. PICK w \in Wire, v \in Wire :
            /\ w.state = "online" /\ body' = Some(w) /\ down' = Some(v)
            /\ v = VehicleData(down, DecodeVehicleData(w))
            /\ \A x \in down : KnowsNoMore(x, w)
      BY <1>1, HopOnline
    <2>2. w \in body' /\ v \in down'
      BY <2>1 DEF Some
    <2>3. down \in Optional(Wire)
      BY <1>1 DEF RelayInv
    <2>4. PICK dc : dc = [power |-> w.live.power, fast |-> TRUE,
                          energy |-> w.live.energy, amps |-> Nil]
      OBVIOUS
    <2>5. /\ Essence(v) = Essence(w)
          /\ v.level = w.level \/ (w.level = 0 /\ \E x \in down : v.level = x.level)
          /\ w.charging = "Charging" =>
                v.live = w.live \/ (w.live.power = 25 /\ ~w.live.fast /\ v.live = dc)
      BY <2>1, <2>3, <2>4, PayloadPassed
    <2>6. PICK l \in WireLive : l = w.live
      BY WireFields
    <2>7. [w.live EXCEPT !.fast = TRUE, !.amps = Nil] = dc
      BY <2>4, <2>6, TakenForDC
    <2> QED
      BY <2>2, <2>5, <2>7, Zenon
  <1>2. RelayInv /\ [Next]_vars => [Hop /\ TopState(up.power) = "online" => Transparent]_vars
    BY <1>1
  <1> QED
    BY <1>2, HubsInStep, PTL DEF Spec, HopIsTransparent

\* Of a car that is not online a second hub serves the liveness and forgets nothing, from
\* the summary alone.
THEOREM SleepHoldsDownstreamHolds == Spec => SleepHoldsDownstream
  <1> DEFINE Holds ==
        \E v \in down, w \in down' :
            /\ w.state = TopState(up.power)
            /\ <<w.shift, w.loc, w.range, w.level, w.config, w.live.energy>>
                 = <<v.shift, v.loc, v.range, v.level, v.config, v.live.energy>>
  <1>1. ASSUME RelayInv, Hop, TopState(up.power) # "online", down # Nil
        PROVE  Holds
    <2>1. PICK w \in Wire :
            /\ TopState(up.power) \in {"asleep", "offline"}
            /\ UNCHANGED body /\ down' = Some(w)
            /\ w = VehicleData(down, SummaryToSnapshot(TopState(up.power)))
      BY <1>1, HopOffline
    <2>2. PICK x \in Wire : down = Some(x)
      BY <1>1, OptionalCases DEF RelayInv
    <2>3. /\ w.state = TopState(up.power)
          /\ w.shift = x.shift /\ w.loc = x.loc /\ w.range = x.range
          /\ w.level = x.level /\ w.config = x.config
          /\ w.live.energy = x.live.energy
      BY <2>1, <2>2, SummaryHeld
    <2>4. x \in down /\ w \in down'
      BY <2>1, <2>2 DEF Some
    <2> QED
      BY <2>3, <2>4
  <1>2. RelayInv /\ [Next]_vars
          => [Hop /\ TopState(up.power) # "online" /\ down # Nil => Holds]_vars
    BY <1>1
  <1> QED
    BY <1>2, HubsInStep, PTL DEF Spec, SleepHoldsDownstream
=============================================================================
