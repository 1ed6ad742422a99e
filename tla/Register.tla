------------------------------ MODULE Register ------------------------------
(***************************************************************************)
(* What the cache promises those who read it: the Provider a sink is built *)
(* on (internal/plugin/sink/sink.go).  One vehicle is one register that     *)
(* Latest returns whole.  Who wrote it, the poll loop or a stream, and how  *)
(* their observations were merged is left open; what a reader may rely on   *)
(* is that once there is a state there always is one, and that the one      *)
(* emitted time (AsOf) covers the data, is not in the future and never goes *)
(* back.                                                                    *)
(*                                                                          *)
(* It promises neither that a field once reported stays reported, nor that  *)
(* the data stays the same while AsOf does.                                 *)
(*                                                                          *)
(* The Merger implements this specification (Merger!ImplementsRegister);    *)
(* the REST sink is built on it (RestSink).                                 *)
(***************************************************************************)
EXTENDS Integers

CONSTANTS
    Fields,          \* the values of a state, each with the instant it was observed
    Powers, Gears, Lives, \* what Power, Gear and the live session may be
    Contents,        \* what a state may report: these, and which fields it has
    Floor,           \* the emitted time a restart begins from; 0 without one
    MaxClock         \* bound of the model: the last instant

ASSUME RegisterAssumption ==
    /\ Floor \in Nat /\ MaxClock \in Nat /\ Floor < MaxClock
    /\ "unknown" \in Powers /\ "none" \in Gears /\ "none" \in Lives
    /\ Contents \subseteq [power: Powers, gear: Gears, live: Lives, has: SUBSET Fields]

VARIABLES
    clock,
    snap    \* the snapshot Latest returns

register == <<clock, snap>>

Snapshot ==
    [state: BOOLEAN, power: Powers, gear: Gears, at: [Fields -> 0..MaxClock], live: Lives,
     asOf: 0..MaxClock]

\* No merge yet in this process: no state, and the emitted time of the last one.
Nothing ==
    [state |-> FALSE, power |-> "unknown", gear |-> "none", at |-> [f \in Fields |-> 0],
     live |-> "none", asOf |-> Floor]

Init == clock = Floor + 1 /\ snap = Nothing

Content(s) ==
    [power |-> s.power, gear |-> s.gear, live |-> s.live, has |-> {f \in Fields : s.at[f] # 0}]

\* A merge: any content, observed by this process, with an emitted time that covers
\* it and is not before the last one.
Merge ==
    /\ snap'.state /\ Content(snap') \in Contents
    /\ snap'.asOf \in Floor + 1..clock /\ snap'.asOf >= snap.asOf
    /\ snap'.at \in [Fields -> {0} \union Floor + 1..snap'.asOf]
    /\ UNCHANGED clock

Tick ==
    /\ clock < MaxClock
    /\ clock' = clock + 1
    /\ UNCHANGED snap

Next == Merge \/ Tick

Spec == Init /\ [][Next]_register
=============================================================================
