------------------------------- MODULE Dialer -------------------------------
(***************************************************************************)
(* The Tesla Owner stream source for one vehicle                            *)
(* (internal/protocol/tesla/owner/stream/v1): a supervisor that follows the *)
(* Power the cache serves, and the dialers it starts and cancels, each with *)
(* its connection, its reconnect backoff (internal/transport/wssutil) and   *)
(* the watcher that closes the connection on cancellation.                  *)
(*                                                                          *)
(* Cancelling a dialer does not wait for it, so one that is being replaced  *)
(* may still be dialing or reading while the next one runs.  A dialer is a  *)
(* slot of 1..Slots; slots are reused.                                      *)
(***************************************************************************)
EXTENDS Integers, FiniteSets

CONSTANTS
    Slots,      \* bound of the model: dialers alive at a time
    MaxFlaps,   \* bound of the model: changes of Power
    Initial,    \* ReconnectInitial
    MaxDelay    \* ReconnectMax

ASSUME DialerAssumption ==
    /\ Slots \in Nat /\ MaxFlaps \in Nat /\ MaxFlaps < 2 * Slots
    /\ Initial \in Nat \ {0} /\ MaxDelay \in Nat /\ Initial <= MaxDelay

\* What proofs use of exponentiation, of which the provers know nothing.
ASSUME PowersDouble == \A n \in 0..MaxDelay : 2 ^ n \in Nat /\ 2 ^ (n + 1) = 2 * 2 ^ n

VARIABLES
    online,     \* Latest(id).State.Power is online
    flaps,      \* the changes of Power so far
    event,      \* the subscription's channel (of capacity one) holds a token
    done,       \* the context of Run is cancelled
    super,      \* the supervisor
    running,    \* its flag
    connected,  \* SourceCounters: the connected gauge
    dialer      \* the dialers

vars == <<online, flaps, event, done, super, running, connected, dialer>>
cache == <<online, flaps, event, done>>
supervisor == <<super, running, connected>>

\* A dialer: where it is, whether its context lives, whether its session yielded a frame,
\* the interval and the delay of its backoff; how many sessions have yielded none in a row.
Dialers == [pc: {"none", "loop", "dialing", "open", "closed", "waiting"}, live: BOOLEAN,
            gotFrame: BOOLEAN, interval: Initial..MaxDelay, delay: 0..2 * MaxDelay,
            barren: 0..MaxDelay]

NoDialer == [pc |-> "none", live |-> FALSE, gotFrame |-> FALSE,
             interval |-> Initial, delay |-> 0, barren |-> 0]

TypeOK ==
    /\ online \in BOOLEAN /\ flaps \in 0..MaxFlaps /\ event \in BOOLEAN /\ done \in BOOLEAN
    /\ super \in {"evaluate", "select", "returned"} /\ running \in BOOLEAN
    /\ connected \in Int
    /\ dialer \in [1..Slots -> Dialers]

\* The least of a and MaxDelay.
Cap(a) == IF a < MaxDelay THEN a ELSE MaxDelay

-----------------------------------------------------------------------------
(* supervise.                                                               *)

Free == {d \in 1..Slots : dialer[d].pc = "none"}

\* Slots are alike, so which one a dialer takes does not matter.
Slot == CHOOSE d \in Free : TRUE

\* The start closure: a context, the gauge, and a dialer with a backoff of its own.
Start ==
    /\ Free # {}
    /\ running' = TRUE /\ connected' = connected + 1
    /\ dialer' = [dialer EXCEPT ![Slot] = [NoDialer EXCEPT !.pc = "loop", !.live = TRUE]]

\* Faulty variant: the gauge is left to the dialer that ends.
StopUncounted ==
    /\ running' = FALSE /\ UNCHANGED connected
    /\ dialer' = [d \in 1..Slots |-> [dialer[d] EXCEPT !.live = FALSE]]

\* The stop closure, of a running supervisor: its dialer's context is cancelled.
Stop ==
    /\ running' = FALSE /\ connected' = connected - 1
    /\ dialer' = [d \in 1..Slots |-> [dialer[d] EXCEPT !.live = FALSE]]

\* eval, once after Subscribe and once per token of the channel.
Evaluate ==
    /\ super = "evaluate" /\ super' = "select"
    /\ \/ online /\ ~running /\ Start
       \/ ~online /\ running /\ Stop
       \/ online = running /\ UNCHANGED <<running, connected, dialer>>
    /\ UNCHANGED cache

Notified ==
    /\ super = "select" /\ event
    /\ event' = FALSE /\ super' = "evaluate"
    /\ UNCHANGED <<online, flaps, done, running, connected, dialer>>

\* The context is done, or the subscription closed because it is.
SuperviseReturns ==
    /\ super = "select" /\ done
    /\ super' = "returned"
    /\ IF running THEN Stop ELSE UNCHANGED <<running, connected, dialer>>
    /\ UNCHANGED cache

-----------------------------------------------------------------------------
(* dialer.run and dialer.connect.                                           *)

Become(d, new) == dialer' = [dialer EXCEPT ![d] = new]

\* The head of the loop: a cancelled dialer ends, another one begins to dial.
Loop(d) ==
    /\ dialer[d].pc = "loop"
    /\ Become(d, IF dialer[d].live
                 THEN [dialer[d] EXCEPT !.pc = "dialing", !.gotFrame = FALSE] ELSE NoDialer)
    /\ UNCHANGED <<cache, supervisor>>

\* gws.NewClient knows no context: it ends with the handshake or its timeout.
Handshake(d) ==
    /\ dialer[d].pc = "dialing"
    /\ \E pc \in {"open", "closed"} : Become(d, [dialer[d] EXCEPT !.pc = pc])
    /\ UNCHANGED <<cache, supervisor>>

\* OnMessage of a frame that carries a field: it is put into the cache, which notifies
\* the subscribers.
OnMessage(d) ==
    /\ dialer[d].pc = "open"
    /\ Become(d, [dialer[d] EXCEPT !.gotFrame = TRUE])
    /\ event' = TRUE
    /\ UNCHANGED <<online, flaps, done, supervisor>>

\* The peer closes the connection, or the connection breaks.
PeerCloses(d) ==
    /\ dialer[d].pc = "open"
    /\ Become(d, [dialer[d] EXCEPT !.pc = "closed"])
    /\ UNCHANGED <<cache, supervisor>>

\* Faulty variant: the watcher only waits for the read loop.
WatcherIdle(d) ==
    /\ dialer[d].pc = "open" /\ ~dialer[d].live /\ done
    /\ Become(d, [dialer[d] EXCEPT !.pc = "closed"])
    /\ UNCHANGED <<cache, supervisor>>

\* The watcher sees the cancellation and closes the connection.
WatcherCloses(d) ==
    /\ dialer[d].pc = "open" /\ ~dialer[d].live
    /\ Become(d, [dialer[d] EXCEPT !.pc = "closed"])
    /\ UNCHANGED <<cache, supervisor>>

\* Faulty variant: any session that opened resets the backoff.
IntervalOfOpen(d) == Initial

\* NextDelay's interval: the current one, or the initial one after a Reset.
Interval(d) == IF dialer[d].gotFrame THEN Initial ELSE dialer[d].interval

\* RandomizationFactor: a delay is within a tenth of its interval, which may be the cap.
Jittered(i) == {w \in 0..2 * MaxDelay : 9 * i <= 10 * w /\ 10 * w <= 11 * i}

\* ReadLoop has returned or the dial has failed: end, or back off.
BackOff(d) ==
    /\ dialer[d].pc = "closed"
    /\ \/ ~dialer[d].live /\ Become(d, NoDialer)
       \/ /\ dialer[d].live
          /\ \E w \in Jittered(Interval(d)) :
                Become(d, [dialer[d] EXCEPT
                              !.pc = "waiting", !.delay = w, !.interval = Cap(2 * Interval(d)),
                              !.barren = IF dialer[d].gotFrame THEN 0 ELSE Cap(@ + 1)])
    /\ UNCHANGED <<cache, supervisor>>

\* The delay passes, or the wait is cancelled.
Wake(d) ==
    /\ dialer[d].pc = "waiting"
    /\ \/ Become(d, [dialer[d] EXCEPT !.pc = "loop", !.delay = 0])
       \/ ~dialer[d].live /\ Become(d, NoDialer)
    /\ UNCHANGED <<cache, supervisor>>

-----------------------------------------------------------------------------
(* The cache and the process.                                               *)

Flap ==
    /\ flaps < MaxFlaps /\ flaps' = flaps + 1
    /\ online' = ~online /\ event' = TRUE
    /\ UNCHANGED <<done, supervisor, dialer>>

Cancel ==
    /\ ~done /\ done' = TRUE
    /\ UNCHANGED <<online, flaps, event, supervisor, dialer>>

Init ==
    /\ online \in BOOLEAN /\ flaps = 0 /\ event = FALSE /\ done = FALSE
    /\ super = "evaluate" /\ running = FALSE /\ connected = 0
    /\ dialer = [d \in 1..Slots |-> NoDialer]

Supervise == Evaluate \/ Notified \/ SuperviseReturns
Step(d) == Loop(d) \/ Handshake(d) \/ WatcherCloses(d) \/ BackOff(d) \/ Wake(d)

Next ==
    \/ Supervise
    \/ \E d \in 1..Slots : Step(d) \/ OnMessage(d) \/ PeerCloses(d)
    \/ Flap \/ Cancel

\* Goroutines run, the handshake times out, timers fire.  Nothing is assumed of the peer,
\* of the vehicle or of the operator.
Fairness ==
    /\ WF_vars(Evaluate) /\ WF_vars(Notified) /\ SF_vars(SuperviseReturns)
    /\ \A d \in 1..Slots : WF_vars(Step(d))

Spec == Init /\ [][Next]_vars /\ Fairness

-----------------------------------------------------------------------------
(* Properties.                                                              *)

\* Dialers that have not been cancelled.
Serving == {d \in 1..Slots : dialer[d].live}

\* However quickly the car flaps, the connected gauge is the number of dialers that have
\* not been cancelled, and never more than one.
OneDialerServes == connected = Cardinality(Serving) /\ connected \in {0, 1}

\* A dialer whose sessions yield no frame waits twice as long each time, up to the cap and
\* but for the jitter; that a session opened is not enough to start over.
BarrenSessionsEscalate ==
    \A d \in 1..Slots :
        dialer[d].pc = "waiting" =>
            10 * dialer[d].delay >= 9 * Cap(Initial * (IF dialer[d].barren = 0 THEN 1
                                                       ELSE 2 ^ (dialer[d].barren - 1)))

\* The dialers follow the car, however the flaps and the cancellations interleave: in the
\* end there is one for a car that stays online, and no connection or goroutine is left of
\* those that were cancelled.
FollowsPower ==
    /\ <>[](online /\ ~done) => <>[](\E d \in Serving : Serving = {d})
    /\ <>[](~online \/ done) => <>[](Free = 1..Slots)
=============================================================================
