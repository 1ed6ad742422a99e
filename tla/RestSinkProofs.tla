--------------------------- MODULE RestSinkProofs ---------------------------
(***************************************************************************)
(* Proofs about RestSink, for any register the cache may implement, any    *)
(* number of consumers, any fields and any stale guard.                    *)
(*                                                                         *)
(* Requests translate snapshots in another order than they read them; the  *)
(* invariant relates what the entry holds (prev, cached) to what has been  *)
(* told, and every request under way to what its consumer has seen.        *)
(***************************************************************************)
EXTENDS RestSink, TLAPS

Bodies == Body \union {NoBody}

\* A snapshot with a state has an emitted time of this process; one without has the
\* time the restart began from.
Emitted(s) == IF s.state THEN s.asOf > Floor ELSE s.asOf = Floor

\* What a request has read is no newer than what Latest returns.
RequestsPast ==
    \A c \in Consumers :
        req[c].asked => /\ Emitted(req[c].snap) /\ req[c].snap.asOf <= snap.asOf
                        /\ req[c].snap.state => snap.state

\* A body of the entry that has a shift state was made after there was a state, and is no
\* newer than what Latest returns.
BodyPast(b) ==
    b # NoBody /\ b.shift # "nil" => snap.state /\ b.time <= snap.asOf

\* A cached body whose AsOf is that of a state was made from a state.
CachedStamped ==
    cached.body # NoBody /\ cached.asOf > Floor
        => cached.body.shift # "nil" /\ cached.body.time = cached.asOf

\* What a consumer has been given is not newer than what Latest returns, nor than what a
\* request of its own has read; before there is a state it has been given no time.
SeenPast ==
    \A c \in Consumers :
        /\ seen[c] <= snap.asOf /\ (~snap.state => seen[c] = 0)
        /\ req[c].asked => \/ req[c].snap.state /\ seen[c] <= req[c].snap.asOf
                           \/ ~req[c].snap.state /\ seen[c] = 0

\* The entry knows what has been told, but for climate_state, and has told what it knows.
EntryKnows(b) ==
    IF b = NoBody THEN TRUE ELSE told \ Unheld \subseteq Known(b) /\ Known(b) \subseteq told

Remembered ==
    /\ EntryKnows(prev) /\ EntryKnows(cached.body)
    /\ prev = NoBody => told = {} /\ cached.body = NoBody

RestInv ==
    /\ TypeOK /\ Emitted(snap) /\ RequestsPast
    /\ BodyPast(prev) /\ BodyPast(cached.body) /\ CachedStamped
    /\ SeenPast /\ Remembered /\ LostIsNotOnline

-----------------------------------------------------------------------------
(* What a translation is.                                                   *)

\* The times, which every proof uses.
LEMMA Instants ==
    ASSUME TypeOK
    PROVE  /\ Floor \in Nat /\ MaxClock \in Nat /\ clock \in Nat /\ Floor < clock
           /\ clock <= MaxClock /\ snap.asOf \in Nat /\ StaleAfter \in Nat
           /\ \A c \in Consumers : req[c].snap \in Snapshot /\ req[c].snap.asOf \in Nat
                                   /\ seen[c] \in Nat /\ req[c].asked \in BOOLEAN
  <1>1. Floor \in Nat /\ MaxClock \in Nat /\ Floor < MaxClock /\ StaleAfter \in Nat
    BY RegisterAssumption, RestAssumption
  <1>2. clock \in Floor + 1..MaxClock /\ snap \in Snapshot
    BY DEF TypeOK
  <1>3. \A c \in Consumers : req[c].snap \in Snapshot /\ seen[c] \in 0..MaxClock
                             /\ req[c].asked \in BOOLEAN
    BY DEF TypeOK
  <1>4. \A t \in Snapshot : t.asOf \in 0..MaxClock
    BY DEF Snapshot
  <1> QED
    BY <1>1, <1>2, <1>3, <1>4

LEMMA BodyIsBody == \A b \in Body : b # NoBody
  BY DEF Body, NoBody, States

LEMMA NothingTyped == Nothing \in Snapshot /\ NoRequest.asked = FALSE /\ NoRequest.snap = Nothing
  <1>1. 0 \in 0..MaxClock /\ Floor \in 0..MaxClock /\ "unknown" \in Powers
        /\ "none" \in Gears /\ "none" \in Lives
    BY RegisterAssumption
  <1> QED
    BY <1>1 DEF Nothing, Snapshot, NoRequest

\* asleepFallback makes a body that knows what the last one did.
LEMMA FallbackIsBody ==
    ASSUME TypeOK, NEW p \in Bodies
    PROVE  /\ AsleepFallback(p) \in Body /\ AsleepFallback(p).state = "asleep"
           /\ p # NoBody => /\ AsleepFallback(p).shift = p.shift
                            /\ AsleepFallback(p).time = p.time
                            /\ Known(AsleepFallback(p)) = Known(p)
           /\ p = NoBody => /\ AsleepFallback(p).shift = "nil"
                            /\ Known(AsleepFallback(p)) = {}
  <1>1. CASE p # NoBody
    <2>1. p \in Body
      BY <1>1 DEF Bodies
    <2>2. AsleepFallback(p) = [p EXCEPT !.state = "asleep"]
      BY <1>1 DEF AsleepFallback
    <2>3. /\ [p EXCEPT !.state = "asleep"] \in Body
          /\ [p EXCEPT !.state = "asleep"].state = "asleep"
          /\ [p EXCEPT !.state = "asleep"].shift = p.shift
          /\ [p EXCEPT !.state = "asleep"].time = p.time
          /\ [p EXCEPT !.state = "asleep"].at = p.at
          /\ [p EXCEPT !.state = "asleep"].energy = p.energy
      BY <2>1 DEF Body, States
    <2> QED
      BY <1>1, <2>2, <2>3 DEF Known
  <1>2. CASE p = NoBody
    <2> DEFINE e == [state |-> "asleep", shift |-> "nil", at |-> [f \in Fields |-> 0],
                     energy |-> FALSE, charging |-> FALSE, time |-> clock]
    <2>1. AsleepFallback(p) = e
      BY <1>2 DEF AsleepFallback
    <2>2. 0 \in 0..MaxClock /\ clock \in 0..MaxClock
      BY Instants
    <2>3. e \in Body
      BY <2>2 DEF Body, States
    <2>4. Known(e) = {} /\ e.shift = "nil" /\ e.state = "asleep"
      BY DEF Known
    <2> HIDE DEF e
    <2> QED
      BY <1>2, <2>1, <2>3, <2>4
  <1> QED
    BY <1>1, <1>2

\* What may be told as zero is held.
LEMMA ZeroIsHeld == ASSUME NEW s PROVE MayBeZero(s) \intersect Unheld = {}
  BY RestAssumption DEF MayBeZero

\* The translation of a state: a body of that time, with a shift state, that still knows
\* what the last one did, but for climate_state and what it tells as zero.
LEMMA StateIsBody ==
    ASSUME TypeOK, NEW p \in Bodies, NEW s \in Snapshot, s.state, s.asOf # 0,
           NEW zero \in SUBSET MayBeZero(s)
    PROVE  /\ VehicleData(p, s, zero) \in Body
           /\ VehicleData(p, s, zero).shift # "nil" /\ VehicleData(p, s, zero).time = s.asOf
           /\ p # NoBody
                => Known(p) \ (Unheld \union zero) \subseteq Known(VehicleData(p, s, zero))
  <1> DEFINE at == [f \in Fields |-> IF f \in zero THEN 0 ELSE Hold(p, s, f)]
             b == VehicleData(p, s, zero)
  <1>1. b = [state |-> TopState(s.power), shift |-> Shift(p, s), at |-> at,
             energy |-> Energy(p, s, zero), charging |-> s.live = "charging",
             time |-> SnapTime(s)]
    BY DEF VehicleData
  <1>2. /\ s.at \in [Fields -> 0..MaxClock] /\ s.asOf \in 0..MaxClock /\ 0 \in 0..MaxClock
        /\ p # NoBody => /\ p.at \in [Fields -> 0..MaxClock] /\ p.energy \in BOOLEAN
                         /\ p.shift \in {"nil", "P", "D"}
    BY Instants DEF Snapshot, Bodies, Body
  <1>3. TopState(s.power) \in States
    BY DEF TopState, States
  <1>4. Shift(p, s) \in {"P", "D"}
    BY <1>2 DEF Shift
  <1>5. ASSUME NEW f \in Fields
        PROVE  /\ at[f] \in 0..MaxClock
               /\ p # NoBody /\ f \notin Unheld \union zero /\ p.at[f] # 0 => at[f] # 0
    BY <1>2 DEF Hold, HeldFields
  <1>6. /\ Energy(p, s, zero) \in BOOLEAN
        /\ p # NoBody /\ p.energy /\ "energy" \notin zero => Energy(p, s, zero)
    BY <1>2 DEF Energy
  <1>7. b \in Body
    BY <1>1, <1>2, <1>3, <1>4, <1>5, <1>6 DEF Body, SnapTime
  <1>8. b.shift = Shift(p, s) /\ b.time = s.asOf /\ b.energy = Energy(p, s, zero) /\ b.at = at
    BY <1>1 DEF SnapTime
  <1> HIDE DEF b, at
  <1>9. ASSUME p # NoBody, NEW f \in Known(p) \ (Unheld \union zero) PROVE f \in Known(b)
    BY <1>4, <1>5, <1>6, <1>8, <1>9 DEF Known
  <1> QED
    BY <1>4, <1>7, <1>8, <1>9 DEF b

\* A degraded body tells what the body does; it is not online when the data is stale.
LEMMA DegradedBody ==
    ASSUME TypeOK, NEW b \in Body, NEW t \in Nat
    PROVE  LET d == DegradeIfStale(b, t)
           IN  /\ d \in Body /\ d.shift = b.shift /\ d.time = b.time /\ Known(d) = Known(b)
               /\ d.state = "online" =>
                     b.state = "online" /\ (StaleAfter = 0 \/ t = 0 \/ clock - t <= StaleAfter)
  <1> DEFINE e == [b EXCEPT !.state = LostState(b.shift = "D")]
  <1>1. LostState(b.shift = "D") \in {"offline", "asleep"}
    BY DEF LostState
  <1>2. /\ e \in Body /\ e.shift = b.shift /\ e.time = b.time /\ e.at = b.at
        /\ e.energy = b.energy /\ e.state \in {"offline", "asleep"}
    BY <1>1 DEF Body, States
  <1>3. Known(e) = Known(b)
    BY <1>2 DEF Known
  <1> HIDE DEF e
  <1>4. CASE IsStale(t)
    <2>1. DegradeIfStale(b, t) = e
      BY <1>4 DEF DegradeIfStale, e
    <2> QED
      BY <1>2, <1>3, <2>1
  <1>5. CASE ~IsStale(t)
    <2>1. DegradeIfStale(b, t) = b
      BY <1>5 DEF DegradeIfStale
    <2>2. StaleAfter = 0 \/ t = 0 \/ clock - t <= StaleAfter
      BY <1>5, Instants DEF IsStale
    <2> QED
      BY <2>1, <2>2
  <1> QED
    BY <1>4, <1>5

-----------------------------------------------------------------------------
(* Steps.                                                                   *)

\* The sink has just started.
LEMMA RestInitInv == RestInit => RestInv
  <1> SUFFICES ASSUME RestInit PROVE RestInv
    OBVIOUS
  <1>1. /\ clock = Floor + 1 /\ snap = Nothing /\ prev = NoBody
        /\ cached = [body |-> NoBody, asOf |-> 0] /\ req = [c \in Consumers |-> NoRequest]
        /\ answer = NoAnswer /\ seen = [c \in Consumers |-> 0] /\ told = {}
    BY DEF RestInit, Init
  <1>2. 0 \in 0..MaxClock /\ Floor + 1 \in Floor + 1..MaxClock /\ Floor \in Nat
    BY RegisterAssumption
  <1>3. NoRequest \in [asked: BOOLEAN, snap: Snapshot]
    BY NothingTyped DEF NoRequest
  <1>4. NoAnswer \in [state: States \union {"none"}, asOf: 0..MaxClock, known: SUBSET Told]
    BY <1>2 DEF NoAnswer
  <1>5. TypeOK
    BY <1>1, <1>2, <1>3, <1>4, NothingTyped DEF TypeOK
  <1>6. Emitted(snap) /\ ~snap.state /\ snap.asOf = Floor
    BY <1>1 DEF Emitted, Nothing
  <1>7. RequestsPast /\ SeenPast
    BY <1>1, <1>2, <1>6, NothingTyped DEF RequestsPast, SeenPast
  <1>8. LostIsNotOnline
    BY <1>1 DEF LostIsNotOnline, NoAnswer
  <1> QED
    BY <1>1, <1>5, <1>6, <1>7, <1>8
       DEF RestInv, BodyPast, CachedStamped, Remembered, EntryKnows

\* A merge of the cache: the state stays, and the emitted time does not go back.
LEMMA WriteStep ==
    ASSUME RestInv, Write, answer' = NoAnswer, UNCHANGED <<entry, req, history>>
    PROVE  RestInv'
  <1>0. /\ TypeOK /\ UNCHANGED <<clock, prev, cached, req, seen, told>>
    BY DEF RestInv, Write, Merge, entry, history
  <1>1. snap' \in Snapshot /\ snap'.state /\ snap'.asOf > Floor /\ snap'.asOf >= snap.asOf
        /\ snap'.asOf \in Nat
    <2>1. PICK k \in Contents, t \in Floor + 1..clock : \E obs \in [k.has -> Floor + 1..t] :
            /\ snap' = [state |-> TRUE, power |-> k.power, gear |-> k.gear,
                        at |-> [f \in Fields |-> IF f \in k.has THEN obs[f] ELSE 0],
                        live |-> k.live, asOf |-> t]
            /\ Merge
      BY DEF Write
    <2>2. PICK obs \in [k.has -> Floor + 1..t] :
            snap' = [state |-> TRUE, power |-> k.power, gear |-> k.gear,
                     at |-> [f \in Fields |-> IF f \in k.has THEN obs[f] ELSE 0],
                     live |-> k.live, asOf |-> t]
      BY <2>1
    <2>3. /\ k.power \in Powers /\ k.gear \in Gears /\ k.live \in Lives
          /\ k.has \subseteq Fields
      BY RegisterAssumption
    <2>4. t \in 0..MaxClock /\ 0 \in 0..MaxClock /\ t > Floor
          /\ \A i \in Floor + 1..t : i \in 0..MaxClock
      BY <1>0, Instants
    <2>5. [f \in Fields |-> IF f \in k.has THEN obs[f] ELSE 0] \in [Fields -> 0..MaxClock]
      BY <2>4
    <2>6. snap' \in Snapshot /\ snap'.state /\ snap'.asOf = t
      BY <2>2, <2>3, <2>4, <2>5 DEF Snapshot
    <2>7. snap'.asOf >= snap.asOf
      BY <2>1 DEF Merge
    <2> QED
      BY <2>4, <2>6, <2>7
  <1>2. NoAnswer \in [state: States \union {"none"}, asOf: 0..MaxClock, known: SUBSET Told]
    BY RegisterAssumption DEF NoAnswer
  <1>3. TypeOK'
    BY <1>0, <1>1, <1>2 DEF TypeOK
  <1>4. Emitted(snap)'
    BY <1>1, RegisterAssumption DEF Emitted
  <1>5. RequestsPast'
    BY <1>0, <1>1, Instants DEF RestInv, RequestsPast, Emitted
  <1>6. BodyPast(prev)' /\ BodyPast(cached.body)'
    <2>1. ASSUME NEW b \in Bodies, BodyPast(b), b # NoBody, b.shift # "nil"
          PROVE  b.time <= snap'.asOf
      <3>1. b.time \in Nat
        BY <2>1 DEF Bodies, Body
      <3>2. b.time <= snap.asOf
        BY <2>1 DEF BodyPast
      <3> QED
        BY <1>0, <1>1, <3>1, <3>2, Instants
    <2>2. prev \in Bodies /\ cached.body \in Bodies
      BY <1>0 DEF TypeOK, Bodies
    <2> QED
      BY <1>0, <1>1, <2>1, <2>2 DEF RestInv, BodyPast
  <1>7. SeenPast'
    BY <1>0, <1>1, Instants DEF RestInv, SeenPast
  <1>8. CachedStamped' /\ Remembered' /\ LostIsNotOnline'
    BY <1>0 DEF RestInv, CachedStamped, Remembered, EntryKnows, Known, LostIsNotOnline, NoAnswer
  <1> QED
    BY <1>3, <1>4, <1>5, <1>6, <1>7, <1>8 DEF RestInv

\* Time passes.
LEMMA TickStep ==
    ASSUME RestInv, Tick, answer' = NoAnswer, UNCHANGED <<entry, req, history>>
    PROVE  RestInv'
  <1>0. TypeOK /\ UNCHANGED <<snap, prev, cached, req, seen, told>>
        /\ clock < MaxClock /\ clock' = clock + 1
    BY DEF RestInv, Tick, entry, history
  <1>1. clock' \in Floor + 1..MaxClock
    BY <1>0, Instants
  <1>2. NoAnswer \in [state: States \union {"none"}, asOf: 0..MaxClock, known: SUBSET Told]
    BY RegisterAssumption DEF NoAnswer
  <1>3. TypeOK'
    BY <1>0, <1>1, <1>2 DEF TypeOK
  <1>4. LostIsNotOnline'
    BY DEF LostIsNotOnline, NoAnswer
  <1> QED
    BY <1>0, <1>3, <1>4
       DEF RestInv, Emitted, RequestsPast, BodyPast, CachedStamped, SeenPast, Remembered,
           EntryKnows, Known

\* A handler reads Latest.
LEMMA ReadStep == ASSUME RestInv, NEW c \in Consumers, ReadLatest(c) PROVE RestInv'
  <1> DEFINE new == [asked |-> TRUE, snap |-> snap]
  <1>0. TypeOK /\ UNCHANGED <<clock, snap, prev, cached, seen, told>> /\ answer' = NoAnswer
        /\ req' = [req EXCEPT ![c] = new]
    BY DEF RestInv, ReadLatest, entry, history
  <1>1. /\ req' \in [Consumers -> [asked: BOOLEAN, snap: Snapshot]] /\ req'[c] = new
        /\ \A d \in Consumers \ {c} : req'[d] = req[d]
    BY <1>0 DEF TypeOK
  <1>2. NoAnswer \in [state: States \union {"none"}, asOf: 0..MaxClock, known: SUBSET Told]
    BY RegisterAssumption DEF NoAnswer
  <1>3. TypeOK'
    BY <1>0, <1>1, <1>2 DEF TypeOK
  <1>4. RequestsPast'
    BY <1>0, <1>1, Instants DEF RestInv, RequestsPast, Emitted
  <1>5. SeenPast'
    BY <1>0, <1>1, Instants DEF RestInv, SeenPast
  <1>6. LostIsNotOnline'
    BY <1>0 DEF LostIsNotOnline, NoAnswer
  <1> QED
    BY <1>0, <1>3, <1>4, <1>5, <1>6
       DEF RestInv, Emitted, BodyPast, CachedStamped, Remembered, EntryKnows, Known

\* The state alone.
LEMMA SummaryStep == ASSUME RestInv, Summary PROVE RestInv'
  <1>0. TypeOK /\ UNCHANGED <<clock, snap, prev, cached, req, seen, told>>
        /\ answer' = [state |-> CurrentState(snap), asOf |-> snap.asOf, known |-> {}]
        /\ Emitted(snap) /\ snap.asOf \in 0..MaxClock
    BY DEF RestInv, Summary, entry, history, TypeOK, Snapshot
  <1>1. CurrentState(snap) \in States
    BY DEF CurrentState, LostState, State, TopState, States
  <1>2. TypeOK'
    BY <1>0, <1>1 DEF TypeOK
  <1>3. ASSUME CurrentState(snap) = "online"
        PROVE  StaleAfter = 0 \/ clock - snap.asOf <= StaleAfter
    <2>1. ~IsStale(snap.asOf)
      BY <1>3 DEF CurrentState, LostState
    <2>2. snap.state
      BY <1>3, <2>1 DEF CurrentState, State
    <2>3. snap.asOf # 0
      BY <1>0, <2>2, Instants DEF Emitted
    <2> QED
      BY <1>0, <2>1, <2>3, Instants DEF IsStale
  <1>4. LostIsNotOnline'
    BY <1>0, <1>3 DEF LostIsNotOnline
  <1> QED
    BY <1>0, <1>2, <1>4
       DEF RestInv, Emitted, RequestsPast, BodyPast, CachedStamped, SeenPast, Remembered,
           EntryKnows, Known

\* What a body b must be for the answer with it to be right: it knows what has been told,
\* but for what the request's snapshot tells as zero, and if it has a time that is neither before the request's snapshot nor after the latest.
Answers(c, b) ==
    /\ b \in Body
    /\ told \ (Unheld \union MayBeZero(req[c].snap)) \subseteq Known(b)
    /\ IF b.shift = "nil" THEN ~req[c].snap.state
       ELSE /\ snap.state /\ b.time <= snap.asOf
            /\ req[c].snap.state => req[c].snap.asOf <= b.time
    /\ b.state = "online" => req[c].snap.asOf # 0

\* The answer with such a body: nothing forgotten, no time back, not online when stale.
LEMMA RespondStep ==
    ASSUME RestInv, NEW c \in Consumers, req[c].asked, NEW b, Answers(c, b),
           Respond(c, DegradeIfStale(b, req[c].snap.asOf)), UNCHANGED <<clock, snap>>
    PROVE  /\ req' \in [Consumers -> [asked: BOOLEAN, snap: Snapshot]]
           /\ answer' \in [state: States \union {"none"}, asOf: 0..MaxClock, known: SUBSET Told]
           /\ seen' \in [Consumers -> 0..MaxClock]
           /\ told' = (told \ MayBeZero(req[c].snap)) \union Known(b) /\ told' \subseteq Told
           /\ told \ (Unheld \union MayBeZero(req[c].snap)) \subseteq answer'.known
           /\ \A d \in Consumers : seen'[d] >= seen[d]
           /\ RequestsPast' /\ SeenPast' /\ LostIsNotOnline'
  <1> DEFINE t == req[c].snap.asOf
             d == DegradeIfStale(b, t)
  <1>0. TypeOK /\ b \in Body /\ t \in Nat /\ t \in 0..MaxClock
    BY Instants DEF RestInv, Answers, TypeOK, Snapshot
  <1>1. /\ d \in Body /\ d.shift = b.shift /\ d.time = b.time /\ Known(d) = Known(b)
        /\ d.state = "online" =>
              b.state = "online" /\ (StaleAfter = 0 \/ t = 0 \/ clock - t <= StaleAfter)
    BY <1>0, DegradedBody
  <1> HIDE DEF d
  <1>2. /\ answer' = [state |-> d.state, asOf |-> t, known |-> Known(b)]
        /\ seen' = [seen EXCEPT ![c] = IF b.shift = "nil" THEN 0 ELSE b.time]
        /\ told' = (told \ MayBeZero(req[c].snap)) \union Known(b)
        /\ req' = [req EXCEPT ![c] = NoRequest]
    BY <1>1 DEF Respond, d
  <1>3. Known(b) \subseteq Told /\ b.time \in 0..MaxClock /\ d.state \in States
    BY <1>0, <1>1 DEF Known, Told, Body
  <1>4. NoRequest \in [asked: BOOLEAN, snap: Snapshot] /\ ~NoRequest.asked
    BY NothingTyped DEF NoRequest
  <1>5. /\ req' \in [Consumers -> [asked: BOOLEAN, snap: Snapshot]] /\ ~req'[c].asked
        /\ \A e \in Consumers \ {c} : req'[e] = req[e]
    BY <1>0, <1>2, <1>4 DEF TypeOK
  <1>6. /\ seen' \in [Consumers -> 0..MaxClock]
        /\ seen'[c] = IF b.shift = "nil" THEN 0 ELSE b.time
        /\ \A e \in Consumers \ {c} : seen'[e] = seen[e]
    <2>1. 0 \in 0..MaxClock
      BY RegisterAssumption
    <2> QED
      BY <1>0, <1>2, <1>3, <2>1 DEF TypeOK
  <1>7. answer' \in [state: States \union {"none"}, asOf: 0..MaxClock, known: SUBSET Told]
    BY <1>0, <1>2, <1>3
  <1>8. told' \subseteq Told
        /\ told \ (Unheld \union MayBeZero(req[c].snap)) \subseteq answer'.known
    BY <1>0, <1>2, <1>3 DEF TypeOK, Answers
  <1>9. seen'[c] >= seen[c] /\ seen'[c] <= snap.asOf /\ (~snap.state => seen'[c] = 0)
    <2>1. /\ seen[c] \in Nat /\ b.time \in Nat /\ snap.asOf \in Nat /\ t \in Nat
      BY <1>0, <1>3, Instants
    <2>2. \/ req[c].snap.state /\ seen[c] <= t
          \/ ~req[c].snap.state /\ seen[c] = 0
      BY DEF RestInv, SeenPast
    <2>3. CASE b.shift = "nil"
      BY <1>6, <2>1, <2>2, <2>3 DEF Answers
    <2>4. CASE b.shift # "nil"
      BY <1>6, <2>1, <2>2, <2>4 DEF Answers
    <2> QED
      BY <2>3, <2>4
  <1>10. \A e \in Consumers : seen'[e] >= seen[e]
    BY <1>0, <1>6, <1>9, Instants
  <1>11. RequestsPast'
    BY <1>5 DEF RestInv, RequestsPast, Emitted
  <1>12. SeenPast'
    BY <1>5, <1>6, <1>9 DEF RestInv, SeenPast
  <1>13. LostIsNotOnline'
    BY <1>1, <1>2 DEF LostIsNotOnline, Answers
  <1> QED
    BY <1>2, <1>5, <1>6, <1>7, <1>8, <1>10, <1>11, <1>12, <1>13

\* translate, and what the consumer is told by it.
LEMMA TranslateStep ==
    ASSUME RestInv, NEW c \in Consumers, Translate(c)
    PROVE  /\ RestInv' /\ \A d \in Consumers : seen'[d] >= seen[d]
           /\ told \ (Unheld \union MayBeZero(req[c].snap)) \subseteq answer'.known
  <1> DEFINE s == req[c].snap
  <1>0. /\ TypeOK /\ req[c].asked /\ UNCHANGED <<clock, snap>> /\ s \in Snapshot
        /\ prev \in Bodies /\ cached.body \in Bodies /\ s.asOf \in Nat /\ Floor \in Nat
        /\ Emitted(s) /\ s.asOf <= snap.asOf /\ (s.state => snap.state)
        /\ cached.asOf \in 0..MaxClock
    BY Instants DEF RestInv, TypeOK, Translate, Bodies, RequestsPast
  <1>1. CASE FastPath(s)
    <2>1. /\ cached.body # NoBody /\ s.asOf # 0 /\ s.asOf = cached.asOf
      BY <1>1 DEF FastPath
    <2>2. Respond(c, DegradeIfStale(cached.body, s.asOf)) /\ UNCHANGED <<prev, cached>>
      BY <1>1 DEF Translate, entry
    <2>3. told \ Unheld \subseteq Known(cached.body) /\ Known(cached.body) \subseteq told
      BY <2>1 DEF RestInv, Remembered, EntryKnows
    <2>4. Answers(c, cached.body)
      <3>1. cached.body \in Body
        BY <1>0, <2>1 DEF Bodies
      <3>2. s.state => cached.body.shift # "nil" /\ cached.body.time = s.asOf
        BY <1>0, <2>1 DEF Emitted, RestInv, CachedStamped
      <3>3. cached.body.shift # "nil" => snap.state /\ cached.body.time <= snap.asOf
        BY <2>1 DEF RestInv, BodyPast
      <3> QED
        BY <1>0, <2>1, <2>3, <3>1, <3>2, <3>3 DEF Answers
    <2>5. /\ req' \in [Consumers -> [asked: BOOLEAN, snap: Snapshot]]
          /\ answer' \in [state: States \union {"none"}, asOf: 0..MaxClock, known: SUBSET Told]
          /\ seen' \in [Consumers -> 0..MaxClock]
          /\ told' = (told \ MayBeZero(s)) \union Known(cached.body) /\ told' \subseteq Told
          /\ told \ (Unheld \union MayBeZero(s)) \subseteq answer'.known
          /\ \A d \in Consumers : seen'[d] >= seen[d]
          /\ RequestsPast' /\ SeenPast' /\ LostIsNotOnline'
      BY <1>0, <2>2, <2>4, RespondStep
    <2>6. told' = told
      BY <2>3, <2>5, ZeroIsHeld
    <2>7. TypeOK'
      BY <1>0, <2>2, <2>5 DEF TypeOK
    <2>8. Emitted(snap)' /\ BodyPast(prev)' /\ BodyPast(cached.body)' /\ CachedStamped'
          /\ Remembered'
      BY <1>0, <2>2, <2>6
         DEF RestInv, Emitted, BodyPast, CachedStamped, Remembered, EntryKnows, Known
    <2> QED
      BY <2>5, <2>7, <2>8 DEF RestInv
  <1>2. CASE ~FastPath(s)
    <2>0. PICK zero \in SUBSET MayBeZero(s) :
             LET b == VehicleData(prev, s, zero)
             IN  /\ prev' = b
                 /\ cached' = IF s.asOf = 0 THEN cached ELSE [body |-> b, asOf |-> s.asOf]
                 /\ Respond(c, DegradeIfStale(b, s.asOf))
      BY <1>2 DEF Translate
    <2> DEFINE out == VehicleData(prev, s, zero)
    <2>1. /\ prev' = out /\ cached' = IF s.asOf = 0 THEN cached ELSE [body |-> out, asOf |-> s.asOf]
          /\ Respond(c, DegradeIfStale(out, s.asOf))
      BY <2>0
    <2>2. /\ out \in Body
          /\ IF s.state
             THEN /\ out.shift # "nil" /\ out.time = s.asOf /\ s.asOf > Floor
                  /\ prev # NoBody
                       => Known(prev) \ (Unheld \union MayBeZero(s)) \subseteq Known(out)
             ELSE /\ out.state = "asleep" /\ s.asOf = Floor
                  /\ prev # NoBody => /\ out.shift = prev.shift /\ out.time = prev.time
                                      /\ Known(out) = Known(prev)
                  /\ prev = NoBody => out.shift = "nil" /\ Known(out) = {}
      <3>1. CASE s.state
        BY <1>0, <3>1, StateIsBody DEF Emitted
      <3>2. CASE ~s.state
        <4>1. out = AsleepFallback(prev)
          BY <3>2 DEF VehicleData
        <4> HIDE DEF out
        <4> QED
          BY <1>0, <3>2, <4>1, FallbackIsBody DEF Emitted
      <3> QED
        BY <3>1, <3>2
    <2>3. /\ prev = NoBody => told = {} /\ cached.body = NoBody
          /\ prev # NoBody => told \ Unheld \subseteq Known(prev) /\ Known(prev) \subseteq told
      BY DEF RestInv, Remembered, EntryKnows
    <2> HIDE DEF out
    <2>4. told \ (Unheld \union MayBeZero(s)) \subseteq Known(out)
      BY <2>2, <2>3
    <2>5. out.shift # "nil" => snap.state /\ out.time <= snap.asOf
      BY <1>0, <2>2 DEF RestInv, BodyPast
    <2>6. Answers(c, out)
      BY <1>0, <2>2, <2>4, <2>5 DEF Answers
    <2>7. /\ req' \in [Consumers -> [asked: BOOLEAN, snap: Snapshot]]
          /\ answer' \in [state: States \union {"none"}, asOf: 0..MaxClock, known: SUBSET Told]
          /\ seen' \in [Consumers -> 0..MaxClock]
          /\ told' = (told \ MayBeZero(s)) \union Known(out) /\ told' \subseteq Told
          /\ told \ (Unheld \union MayBeZero(s)) \subseteq answer'.known
          /\ \A d \in Consumers : seen'[d] >= seen[d]
          /\ RequestsPast' /\ SeenPast' /\ LostIsNotOnline'
      BY <1>0, <2>1, <2>6, RespondStep
    <2>8. out # NoBody
      BY <2>2, BodyIsBody
    <2>9. TypeOK'
      <3>1. s.asOf \in 0..MaxClock
        BY <1>0 DEF Snapshot
      <3>2. cached' \in [body: Body \union {NoBody}, asOf: 0..MaxClock]
        BY <1>0, <2>1, <2>2, <3>1 DEF TypeOK
      <3> QED
        BY <1>0, <2>1, <2>2, <2>7, <3>2 DEF TypeOK
    <2>10. Emitted(snap)' /\ BodyPast(prev)'
      BY <1>0, <2>1, <2>5 DEF RestInv, Emitted, BodyPast
    <2>11. told' \ Unheld \subseteq Known(out) /\ Known(out) \subseteq told'
      BY <2>4, <2>7
    <2>12. CASE s.asOf = 0
      <3>1. cached' = cached /\ ~s.state
        BY <1>0, <2>1, <2>2, <2>12
      <3>2. told' = told
        BY <2>2, <2>3, <2>7, <3>1, ZeroIsHeld
      <3> QED
        BY <1>0, <2>1, <2>3, <2>7, <2>8, <2>9, <2>10, <2>11, <3>1, <3>2
           DEF RestInv, BodyPast, CachedStamped, Remembered, EntryKnows, Known
    <2>13. CASE s.asOf # 0
      <3>1. cached'.body = out /\ cached'.asOf = s.asOf
        BY <2>1, <2>13
      <3>2. BodyPast(cached.body)'
        BY <1>0, <2>5, <3>1 DEF BodyPast
      <3>3. CachedStamped'
        BY <1>0, <2>2, <3>1 DEF CachedStamped
      <3>4. Remembered'
        BY <2>1, <2>8, <2>11, <3>1 DEF Remembered, EntryKnows, Known
      <3> QED
        BY <2>7, <2>9, <2>10, <3>2, <3>3, <3>4 DEF RestInv
    <2> QED
      BY <2>12, <2>13
  <1> QED
    BY <1>1, <1>2

\* The body that c is being given knows what has been told, but for what its snapshot
\* tells as zero.
Kept(c) == told \ (Unheld \union MayBeZero(req[c].snap)) \subseteq answer'.known

\* Every step keeps the invariant, takes no consumer back in time and forgets nothing.
LEMMA RestStep ==
    RestInv /\ [RestNext]_restVars =>
        /\ RestInv' /\ \A c \in Consumers : seen'[c] >= seen[c]
        /\ \A c \in Consumers : Bodied(c) => Kept(c)
  <1> SUFFICES ASSUME RestInv, [RestNext]_restVars
               PROVE  /\ RestInv' /\ \A c \in Consumers : seen'[c] >= seen[c]
                      /\ \A c \in Consumers : Bodied(c) => Kept(c)
    OBVIOUS
  <1>0. TypeOK /\ \A c \in Consumers : seen[c] \in Nat
    BY Instants DEF RestInv
  <1>1. ASSUME RestInv', UNCHANGED <<seen, told>>,
               \A c \in Consumers : req[c].asked => req'[c].asked
        PROVE  /\ \A c \in Consumers : seen'[c] >= seen[c]
               /\ \A c \in Consumers : ~Bodied(c)
    BY <1>0, <1>1 DEF Bodied
  <1>2. CASE Write /\ answer' = NoAnswer /\ UNCHANGED <<entry, req, history>>
    BY <1>1, <1>2, WriteStep DEF history
  <1>3. CASE Tick /\ answer' = NoAnswer /\ UNCHANGED <<entry, req, history>>
    BY <1>1, <1>3, TickStep DEF history
  <1>4. CASE Summary
    BY <1>1, <1>4, SummaryStep DEF Summary, history
  <1>5. ASSUME NEW c \in Consumers, ReadLatest(c)
        PROVE  RestInv' /\ UNCHANGED <<seen, told>>
               /\ \A d \in Consumers : req[d].asked => req'[d].asked
    BY <1>0, <1>5, ReadStep DEF ReadLatest, history, TypeOK
  <1>6. ASSUME NEW c \in Consumers, Translate(c)
        PROVE  /\ RestInv' /\ \A d \in Consumers : seen'[d] >= seen[d]
               /\ \A d \in Consumers : Bodied(d) => Kept(d)
    <2>1. \A d \in Consumers \ {c} : req'[d] = req[d]
      BY <1>0, <1>6 DEF Translate, Respond, TypeOK
    <2>2. Kept(c)
      BY <1>6, TranslateStep DEF Kept
    <2>3. \A d \in Consumers : Bodied(d) => d = c
      BY <1>0, <2>1 DEF Bodied
    <2> QED
      BY <1>6, <2>2, <2>3, TranslateStep
  <1>7. CASE UNCHANGED restVars
    <2>1. RestInv'
      BY <1>7
         DEF restVars, RestInv, TypeOK, Emitted, RequestsPast, BodyPast, CachedStamped,
             SeenPast, Remembered, EntryKnows, Known, LostIsNotOnline
    <2> QED
      BY <1>1, <1>7, <2>1 DEF restVars
  <1>8. CASE Serve
    BY <1>1, <1>4, <1>5, <1>6, <1>8 DEF Serve
  <1> QED
    BY <1>2, <1>3, <1>7, <1>8 DEF RestNext

-----------------------------------------------------------------------------
(* Theorems.                                                                *)

\* The invariant holds.
LEMMA RestInvariant == RestSpec => []RestInv
  BY RestInitInv, RestStep, PTL DEF RestSpec

\* The entry, the requests and the answers keep their types.
THEOREM RestTyped == RestSpec => []TypeOK
  BY RestInvariant, PTL DEF RestInv

\* degradeIfStale and currentState: a car not heard from for longer than StaleAfter is not
\* said to be online, on any route, by a cached body neither.
THEOREM StaleIsNotOnline == RestSpec => []LostIsNotOnline
  BY RestInvariant, PTL DEF RestInv

\* Hold-last-known: no order in which concurrent requests read and translate makes a body
\* that lacks a value some consumer has been told of, unless the snapshot it is made of has
\* a reading of that value which is told as zero.
THEOREM NothingForgotten == RestSpec => HeldNeverForgotten
  BY RestInvariant, RestStep, PTL DEF RestSpec, HeldNeverForgotten, Kept

\* The bodies of one consumer do not go back in time.
THEOREM BodiesInOrder == RestSpec => TimeNeverRegresses
  BY RestInvariant, RestStep, PTL DEF RestSpec, TimeNeverRegresses
=============================================================================
