------------------------------ MODULE RestSink ------------------------------
(***************************************************************************)
(* The Tesla Fleet API sink (internal/protocol/tesla/fleet/poll/v1:         *)
(* server.go, adapter.go, sink_mapping.go) for one served vehicle and any   *)
(* number of consumers that poll it at once.  The Owner API sink is the     *)
(* same server under another name.                                          *)
(*                                                                          *)
(* A handler reads Latest, and only then takes the entry's mutex to         *)
(* translate: two steps, so an older snapshot may be translated after a     *)
(* newer one.  The entry keeps the last body (prev), from which values the  *)
(* snapshot lacks are held, and the last body together with its AsOf, which *)
(* is served again without translating while AsOf has not moved.            *)
(*                                                                          *)
(* A value is the instant it was observed, 0 when the state has none: the   *)
(* sink never looks at a value except to see whether it is zero.  How large  *)
(* a reading is, the model leaves open: it may be told as zero where the     *)
(* code can make a zero of it (MayBeZero).                                   *)
(***************************************************************************)
EXTENDS Register

CONSTANTS
    Unheld,      \* the fields of climate_state, which pass through
    Whole,       \* the fields told as whole numbers: the level and the limit
    Consumers,
    StaleAfter   \* poll.stale_after; 0 disables the guard

ASSUME RestAssumption ==
    /\ Unheld \subseteq Fields /\ Whole \subseteq Fields \ Unheld
    /\ "energy" \notin Fields /\ "shift" \notin Fields
    /\ StaleAfter \in Nat

\* Held when the state has no value: the location (drive_state), the level, the limit
\* and the range (charge_state), the odometer and the version (vehicle_state), the car
\* type and the trim (vehicle_config).
HeldFields == Fields \ Unheld

VARIABLES
    prev,    \* vehicleEntry.prev
    cached,  \* vehicleEntry.cached with cachedAsOf
    req,     \* vehicle_data requests: the snapshot each has read, or none
    answer,  \* history: what the last step told a consumer, if it did
    seen,    \* history: the time of the last body each consumer was given; 0 for the
             \*   body of a car never heard from, which is stamped with the request's
    told     \* history: the values told to some consumer, and not told as zero since by a
             \*   snapshot with a reading of its own

entry    == <<prev, cached>>
history  == <<seen, told>>
restVars == <<clock, snap, prev, cached, req, answer, seen, told>>

States == {"online", "asleep", "offline"}

\* A vehicle_data body.  nil is a shift_state that has never been known; energy says
\* whether charge_energy_added is more than zero.
Body == [state: States, shift: {"nil", "P", "D"}, at: [Fields -> 0..MaxClock],
         energy: BOOLEAN, charging: BOOLEAN, time: 0..MaxClock]

NoBody    == [state |-> "none"]
NoRequest == [asked |-> FALSE, snap |-> Nothing]
NoAnswer  == [state |-> "none", asOf |-> 0, known |-> {}]

Told == Fields \union {"energy", "shift"}

TypeOK ==
    /\ clock \in Floor + 1..MaxClock /\ snap \in Snapshot
    /\ prev \in Body \union {NoBody}
    /\ cached \in [body: Body \union {NoBody}, asOf: 0..MaxClock]
    /\ req \in [Consumers -> [asked: BOOLEAN, snap: Snapshot]]
    /\ answer \in [state: States \union {"none"}, asOf: 0..MaxClock, known: SUBSET Told]
    /\ seen \in [Consumers -> 0..MaxClock] /\ told \subseteq Told

-----------------------------------------------------------------------------
(* sink_mapping.go.                                                         *)

TopState(p) == CASE p = "online" -> "online" [] p = "asleep" -> "asleep"
                 [] OTHER -> "offline"

\* State: an unknown car is asleep.
State(s) == IF s.state THEN TopState(s.power) ELSE "asleep"

\* driveState: an unknown gear keeps the last shift state; without one it is park.
Shift(p, s) ==
    IF s.gear = "none" /\ p # NoBody /\ p.shift # "nil" THEN p.shift
    ELSE IF s.gear = "drive" THEN "D" ELSE "P"

\* Faulty variant: a state without the value says so.
HoldNothing(p, s, f) == s.at[f]

\* Hold-last-known.
Hold(p, s, f) ==
    IF s.at[f] = 0 /\ f \in HeldFields /\ p # NoBody THEN p.at[f] ELSE s.at[f]

\* The readings of a snapshot that may be told as zero.  A level or a limit is held by a
\* test of the reading and told without its fraction, so one below 1 % is told as 0; the
\* energy of a live session is told as it is, and a session that has just begun, or that
\* a frame without energy has started, has none yet.
MayBeZero(s) ==
    {f \in Whole : s.at[f] # 0} \union (IF s.live # "none" THEN {"energy"} ELSE {})

\* chargeState: the metered energy of the live session, or the last one.
Energy(p, s, zero) ==
    IF s.live # "none" THEN "energy" \notin zero ELSE p # NoBody /\ p.energy

\* Faulty variant: a body is stamped with the time of its own data.
SnapTimeOfData(s) ==
    IF \E f \in Fields : s.at[f] # 0
    THEN CHOOSE t \in 1..MaxClock : /\ \E f \in Fields : s.at[f] = t
                                    /\ \A f \in Fields : s.at[f] <= t
    ELSE s.asOf

\* The timestamps of all sub-objects.
SnapTime(s) == s.asOf

\* asleepFallback: without a state, the last body or an empty one, stamped now.
AsleepFallback(p) ==
    IF p # NoBody THEN [p EXCEPT !.state = "asleep"]
    ELSE [state |-> "asleep", shift |-> "nil", at |-> [f \in Fields |-> 0],
          energy |-> FALSE, charging |-> FALSE, time |-> clock]

\* VehicleData, of a snapshot whose readings zero are told as zero.
VehicleData(p, s, zero) ==
    IF ~s.state THEN AsleepFallback(p)
    ELSE [state    |-> TopState(s.power),
          shift    |-> Shift(p, s),
          at       |-> [f \in Fields |-> IF f \in zero THEN 0 ELSE Hold(p, s, f)],
          energy   |-> Energy(p, s, zero),
          charging |-> s.live = "charging",
          time     |-> SnapTime(s)]

-----------------------------------------------------------------------------
(* adapter.go.                                                              *)

IsStale(asOf) == StaleAfter > 0 /\ asOf # 0 /\ clock - asOf > StaleAfter

LostState(driving) == IF driving THEN "offline" ELSE "asleep"

\* Faulty variant: the cached body is served as it is.
DegradeUnlessCached(b, asOf) ==
    IF IsStale(asOf) /\ asOf # cached.asOf
    THEN [b EXCEPT !.state = LostState(b.shift = "D")] ELSE b

DegradeIfStale(b, asOf) ==
    IF IsStale(asOf) THEN [b EXCEPT !.state = LostState(b.shift = "D")] ELSE b

\* currentState, the whole answer of products, summary and status.
CurrentState(s) == IF IsStale(s.asOf) THEN LostState(s.gear = "drive") ELSE State(s)

\* handleVehicleData: Latest is read before the mutex is taken.
ReadLatest(c) ==
    /\ ~req[c].asked
    /\ req' = [req EXCEPT ![c] = [asked |-> TRUE, snap |-> snap]]
    /\ answer' = NoAnswer
    /\ UNCHANGED <<clock, snap, entry, history>>

FastPath(s) == cached.body # NoBody /\ s.asOf # 0 /\ s.asOf = cached.asOf

Known(b) == {f \in Fields : b.at[f] # 0}
              \union (IF b.energy THEN {"energy"} ELSE {})
              \union (IF b.shift # "nil" THEN {"shift"} ELSE {})

Respond(c, b) ==
    /\ answer' = [state |-> b.state, asOf |-> req[c].snap.asOf, known |-> Known(b)]
    /\ seen' = [seen EXCEPT ![c] = IF b.shift = "nil" THEN 0 ELSE b.time]
    /\ told' = (told \ MayBeZero(req[c].snap)) \union Known(b)
    /\ req' = [req EXCEPT ![c] = NoRequest]

\* translate, with the mutex: the cached body, or a translation that replaces it.
Translate(c) ==
    LET s == req[c].snap
    IN  /\ req[c].asked
        /\ IF FastPath(s)
           THEN /\ Respond(c, DegradeIfStale(cached.body, s.asOf))
                /\ UNCHANGED entry
           ELSE \E zero \in SUBSET MayBeZero(s) :
                   LET out == VehicleData(prev, s, zero)
                   IN  /\ prev' = out
                       /\ cached' = IF s.asOf = 0 THEN cached
                                    ELSE [body |-> out, asOf |-> s.asOf]
                       /\ Respond(c, DegradeIfStale(out, s.asOf))
        /\ UNCHANGED <<clock, snap>>

\* handleSummary, handleProducts and handleStatus: the state alone, which touches
\* neither prev nor the cache.
Summary ==
    /\ answer' = [state |-> CurrentState(snap), asOf |-> snap.asOf, known |-> {}]
    /\ UNCHANGED <<clock, snap, entry, req, history>>

RestInit ==
    /\ Init
    /\ prev = NoBody /\ cached = [body |-> NoBody, asOf |-> 0]
    /\ req = [c \in Consumers |-> NoRequest]
    /\ answer = NoAnswer
    /\ seen = [c \in Consumers |-> 0] /\ told = {}

\* Register's Merge, with the snapshot it may store spelled out for enumeration: one
\* of content k whose fields were observed at obs, emitted as of t.
Write ==
    \E k \in Contents, t \in Floor + 1..clock : \E obs \in [k.has -> Floor + 1..t] :
        /\ snap' = [state |-> TRUE, power |-> k.power, gear |-> k.gear,
                    at |-> [f \in Fields |-> IF f \in k.has THEN obs[f] ELSE 0],
                    live |-> k.live, asOf |-> t]
        /\ Merge

Serve == Summary \/ \E c \in Consumers : ReadLatest(c) \/ Translate(c)

RestNext ==
    \/ Write /\ answer' = NoAnswer /\ UNCHANGED <<entry, req, history>>
    \/ Tick /\ answer' = NoAnswer /\ UNCHANGED <<entry, req, history>>
    \/ Serve

RestSpec == RestInit /\ [][RestNext]_restVars

-----------------------------------------------------------------------------
(* Properties.                                                              *)

\* A consumer has just been given a body.
Bodied(c) == req[c].asked /\ ~req'[c].asked

\* A value that any consumer has been told of is told as zero or null again only by a
\* snapshot that has a reading of it, never for the want of one, although answers are
\* computed from snapshots in another order than they were read, some of them without the
\* value and the oldest without any state.
HeldNeverForgotten ==
    [][\A c \in Consumers :
         Bodied(c) => told \ (Unheld \union MayBeZero(req[c].snap)) \subseteq answer'.known
      ]_restVars

\* A car that nobody has heard from for longer than StaleAfter is not said to be
\* online, on any route and by the cached body neither: the cache itself says so
\* only at its next merge, which may never come.
LostIsNotOnline ==
    answer.state = "online" => StaleAfter = 0 \/ clock - answer.asOf <= StaleAfter

\* Successive bodies to one consumer do not go back in time, whatever the requests
\* of the others left in the entry.
TimeNeverRegresses == [][\A c \in Consumers : seen'[c] >= seen[c]]_restVars

\* What the comment on translate says of its fast path: while AsOf has not advanced
\* the encoded body cannot have changed, so translating again would give it again.
CachedIsCurrent ==
    \A c \in Consumers :
        LET s == req[c].snap
        IN  req[c].asked /\ s.state /\ FastPath(s)
              => \E zero \in SUBSET MayBeZero(s) : VehicleData(prev, s, zero) = cached.body
=============================================================================
