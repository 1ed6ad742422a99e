------------------------------- MODULE Poller -------------------------------
(***************************************************************************)
(* One vehicle's poll loop (internal/poll/poll.go): when the source is      *)
(* called, how long the loop waits after each answer, and the off-schedule  *)
(* polls that stream goroutines ask for.                                    *)
(*                                                                          *)
(* The loop is one goroutine: it polls, then selects between cancellation,  *)
(* its timer and the one-slot channel pollNow.  Any number of goroutines    *)
(* call triggerNow, which looks at the time of the last success under the   *)
(* read lock and sends after having released it: two steps.                 *)
(*                                                                          *)
(* Time is relative: every timer counts down to 0 and ages stop counting    *)
(* where the code no longer tells them apart, so no instant is bounded.     *)
(* A randomized delay is any value of its range.                            *)
(***************************************************************************)
EXTENDS Integers, FiniteSets

CONSTANTS
    Callers,        \* the goroutines that may call triggerNow
    Reports,        \* the derived states a poll may report (deriveState)
    Base,           \* the configured interval of each of them
    DrivingStreaming, \* drive cadence while a stream is fresh; 0 disables it
    MinInterval,    \* the floor
    AwakeBackoffCap, IdleGrace,
    Default, MaxBackoff,
    QuotaBlockFloor,
    RetryAfters,    \* the delays a server may ask for; 0: it asks for none
    JitterDiv,      \* a delay d varies by d \div JitterDiv either way
    IdleBound       \* bound of the model: idle polls are counted up to here

States == {"driving", "charging_dc", "charging_ac", "asleep", "online", "offline", "unknown"}

\* Only these have an interval that grows while the car sits idle.
Stretched == {"online", "offline", "unknown"}

ASSUME PollerAssumption ==
    /\ IsFiniteSet(Callers)
    /\ Reports \subseteq States /\ Base \in [Reports -> Nat \ {0}]
    /\ DrivingStreaming \in Nat
    /\ MinInterval \in Nat \ {0} /\ AwakeBackoffCap \in Nat \ {0} /\ IdleGrace \in Nat
    /\ Default \in Nat \ {0} /\ MaxBackoff \in Nat \ {0} /\ QuotaBlockFloor \in Nat \ {0}
    /\ RetryAfters \subseteq Nat /\ 0 \in RetryAfters
    /\ QuotaBlockFloor >= MinInterval \* the defaults, 1h and 5s; the code does not enforce it
    /\ JitterDiv \in Nat \ {0} /\ IdleBound \in Nat /\ IdleBound > IdleGrace

VARIABLES
    pc,        \* the loop: in the source's Poll, at the select, or returned
    due,       \* what is left of the timer of the select
    cancelled, \* the context
    pollNow,   \* the buffered channel
    caller,    \* triggerNow callers: idle, or past the check and about to send
    since,     \* age of lastSuccessAt; MinInterval stands for every larger age, or none
    eb,        \* the exponential backoff: the interval it will draw from next
    report,    \* derivedState of the last success; "none" before it
    idle,      \* consecutiveIdle
    status,    \* what Stats tells of the last polls
    asked,     \* history: what is left of the delay the server last asked for
    rest,      \* history: what is left of MinInterval since the last poll ended
    burst,     \* history: off-schedule polls begun since since was last MinInterval
    wanted,    \* history: a trigger was accepted and no poll has begun since
    warned     \* history: re-authentication messages logged since the last success

vars == <<pc, due, cancelled, pollNow, caller, since, eb, report, idle, status,
          asked, rest, burst, wanted, warned>>

Max2(a, b) == IF a > b THEN a ELSE b
Down(n) == IF n > 0 THEN n - 1 ELSE 0
Sum1(n, bound) == IF n < bound THEN n + 1 ELSE n

\* One trigger may wait in the channel and one more per caller may be past its
\* check when a poll succeeds.
BurstMax == Cardinality(Callers) + 1

TypeOK ==
    /\ pc \in {"polling", "waiting", "stopped"}
    /\ due \in Nat
    /\ cancelled \in BOOLEAN /\ pollNow \in BOOLEAN
    /\ caller \in [Callers -> {"idle", "passed"}]
    /\ since \in 0..MinInterval
    /\ eb \in 1..Max2(Default, MaxBackoff)
    /\ report \in Reports \union {"none"}
    /\ idle \in 0..IdleBound
    /\ status \in [failing: BOOLEAN, needsReauth: BOOLEAN, quota: BOOLEAN,
                   wiped: BOOLEAN, backoff: Nat]
    /\ asked \in Nat /\ rest \in 0..MinInterval
    /\ burst \in 0..BurstMax + 1
    /\ wanted \in BOOLEAN
    /\ warned \in 0..2

-----------------------------------------------------------------------------
(* Delays.                                                                  *)

Spread(d) == (d - d \div JitterDiv)..(d + d \div JitterDiv)

\* jitter: the floor is enforced before and after.
Jittered(d) == {Max2(x, MinInterval) : x \in Spread(Max2(d, MinInterval))}

\* stretch: doubled for each idle poll past the grace, up to the cap (or the
\* base, when that is longer).
Stretch(base, n) ==
    LET cap == Max2(AwakeBackoffCap, base)
        d   == base * 2 ^ (n - IdleGrace)
    IN  IF n <= IdleGrace THEN base ELSE IF d > cap THEN cap ELSE d

\* intervalFor, in derived state s with or without a fresh stream.
Interval(s, fresh, n) ==
    IF s = "driving" /\ fresh THEN DrivingStreaming
    ELSE IF s \in Stretched THEN Stretch(Base[s], n)
    ELSE Base[s]

\* NextBackOff draws around the current interval and doubles it.
Doubled == IF 2 * eb >= MaxBackoff THEN MaxBackoff ELSE 2 * eb

-----------------------------------------------------------------------------
(* The poll.                                                                *)

\* A caller's view in triggerNow: a poll succeeded less than MinInterval ago.
TooSoon == since < MinInterval

Healthy == [failing |-> FALSE, needsReauth |-> FALSE, quota |-> FALSE,
            wiped |-> FALSE, backoff |-> 0]

\* The failure state after a success.
Recovered == Healthy

\* The loop sleeps for d.
Wait(d, server) ==
    /\ pc' = "waiting"
    /\ due' = d
    /\ asked' = server
    /\ rest' = MinInterval

\* pollOnce, when the source answers with derived state s.  The derived state
\* does not move without the content except between the two kinds of charging,
\* which differ by power alone; the first answer is always a change.
PollSucceeds(s, fresh, contentChanged, synced) ==
    LET streak == IF contentChanged \/ synced THEN 0 ELSE Sum1(idle, IdleBound)
    IN  /\ pc = "polling"
        /\ ~contentChanged => /\ report # "none"
                              /\ \/ s = report
                                 \/ {s, report} = {"charging_ac", "charging_dc"}
        /\ fresh => DrivingStreaming > 0
        /\ eb' = Default
        /\ report' = s
        /\ idle' = streak
        /\ since' = 0
        /\ status' = Recovered
        /\ warned' = 0
        /\ \E d \in Jittered(Interval(s, fresh, streak)) : Wait(d, 0)
        /\ UNCHANGED <<cancelled, pollNow, caller, burst, wanted>>

\* Faulty variant: the server's delay is capped like our own.
ErrorDelayCapped(x, ra) ==
    IF ra > MaxBackoff THEN MaxBackoff ELSE Max2(Max2(x, MinInterval), ra)

\* handleError: our own backoff, at least the floor, or the server's when longer.
ErrorDelay(x, ra) == Max2(Max2(x, MinInterval), ra)

\* needsReauth after an error stays set until a success.
NeedsReauth(kind) == status.needsReauth \/ kind = "unauthenticated"

\* Faulty variant: dead credentials end the loop.
PollFailsGivesUp(kind, ra) ==
    /\ pc = "polling"
    /\ \E x \in Spread(eb) :
          /\ pc' = IF kind = "unauthenticated" THEN "stopped" ELSE "waiting"
          /\ due' = ErrorDelay(x, ra) /\ asked' = ra /\ rest' = MinInterval
          /\ status' = [status EXCEPT !.failing = TRUE, !.needsReauth = NeedsReauth(kind),
                                      !.backoff = ErrorDelay(x, ra)]
    /\ eb' = Doubled
    /\ warned' = IF kind = "unauthenticated" /\ ~status.needsReauth
                 THEN Sum1(warned, 2) ELSE warned
    /\ UNCHANGED <<cancelled, pollNow, caller, since, report, idle, burst, wanted>>

PollFails(kind, ra) ==
    /\ pc = "polling"
    /\ \E x \in Spread(eb) :
          /\ Wait(ErrorDelay(x, ra), ra)
          /\ status' = [status EXCEPT !.failing = TRUE, !.needsReauth = NeedsReauth(kind),
                                      !.backoff = ErrorDelay(x, ra)]
    /\ eb' = Doubled
    /\ warned' = IF kind = "unauthenticated" /\ ~status.needsReauth
                 THEN Sum1(warned, 2) ELSE warned
    /\ UNCHANGED <<cancelled, pollNow, caller, since, report, idle, burst, wanted>>

\* handleQuotaBlock: a fixed delay, without jitter and without ratcheting the
\* exponential backoff.
PollBlocked(ra, wiped) ==
    LET d == Max2(QuotaBlockFloor, ra)
    IN  /\ pc = "polling"
        /\ Wait(d, ra)
        /\ status' = [status EXCEPT !.failing = TRUE, !.quota = TRUE, !.wiped = wiped,
                                    !.backoff = d]
        /\ eb' = Default
        /\ UNCHANGED <<cancelled, pollNow, caller, since, report, idle, burst, wanted, warned>>

PollReturns ==
    \/ \E s \in Reports, fresh, contentChanged, synced \in BOOLEAN :
          PollSucceeds(s, fresh, contentChanged, synced)
    \/ \E kind \in {"unauthenticated", "rateLimited", "other"}, ra \in RetryAfters :
          PollFails(kind, ra)
    \/ \E ra \in RetryAfters, wiped \in BOOLEAN : PollBlocked(ra, wiped)

-----------------------------------------------------------------------------
(* The select of Run, and triggerNow.                                       *)

Scheduled ==
    /\ pc = "waiting" /\ due = 0
    /\ pc' = "polling"
    /\ wanted' = FALSE
    /\ UNCHANGED <<due, cancelled, pollNow, caller, since, eb, report, idle, status,
                   asked, rest, burst, warned>>

Boundary ==
    /\ pc = "waiting" /\ pollNow
    /\ pc' = "polling"
    /\ due' = 0
    /\ pollNow' = FALSE
    /\ wanted' = FALSE
    /\ burst' = IF TooSoon THEN Sum1(burst, BurstMax + 1) ELSE burst
    /\ UNCHANGED <<cancelled, caller, since, eb, report, idle, status, asked, rest, warned>>

\* Faulty variant: cancellation is seen only when no trigger waits.
StopWhenQuiet ==
    /\ pc = "waiting" /\ cancelled /\ ~pollNow
    /\ pc' = "stopped"
    /\ UNCHANGED <<due, cancelled, pollNow, caller, since, eb, report, idle, status,
                   asked, rest, burst, wanted, warned>>

Stop ==
    /\ pc = "waiting" /\ cancelled
    /\ pc' = "stopped"
    /\ UNCHANGED <<due, cancelled, pollNow, caller, since, eb, report, idle, status,
                   asked, rest, burst, wanted, warned>>

\* Faulty variant: the age of the last success is not looked at.
TriggerCheckNothing(c) ==
    /\ caller[c] = "idle"
    /\ caller' = [caller EXCEPT ![c] = "passed"]
    /\ UNCHANGED <<pc, due, cancelled, pollNow, since, eb, report, idle, status,
                   asked, rest, burst, wanted, warned>>

\* triggerNow up to the unlock, for a caller that is not turned away.
TriggerCheck(c) ==
    /\ caller[c] = "idle" /\ ~TooSoon
    /\ caller' = [caller EXCEPT ![c] = "passed"]
    /\ UNCHANGED <<pc, due, cancelled, pollNow, since, eb, report, idle, status,
                   asked, rest, burst, wanted, warned>>

\* Faulty variant: the channel has no buffer, and the loop is not at its select.
TriggerSendUnbuffered(c) ==
    /\ caller[c] = "passed"
    /\ caller' = [caller EXCEPT ![c] = "idle"]
    /\ pollNow' = (pc = "waiting")
    /\ wanted' = TRUE
    /\ UNCHANGED <<pc, due, cancelled, since, eb, report, idle, status, asked, rest,
                   burst, warned>>

\* ... and the send, which a full channel absorbs.
TriggerSend(c) ==
    /\ caller[c] = "passed"
    /\ caller' = [caller EXCEPT ![c] = "idle"]
    /\ pollNow' = TRUE
    /\ wanted' = TRUE
    /\ UNCHANGED <<pc, due, cancelled, since, eb, report, idle, status, asked, rest,
                   burst, warned>>

\* The process is asked to stop; the stream goroutines may go on for a while.
Cancel ==
    /\ ~cancelled
    /\ cancelled' = TRUE
    /\ UNCHANGED <<pc, due, pollNow, caller, since, eb, report, idle, status,
                   asked, rest, burst, wanted, warned>>

Tick ==
    /\ due' = Down(due) /\ asked' = Down(asked) /\ rest' = Down(rest)
    /\ since' = Sum1(since, MinInterval)
    /\ burst' = IF since' = MinInterval THEN 0 ELSE burst
    /\ UNCHANGED <<pc, cancelled, pollNow, caller, eb, report, idle, status, wanted, warned>>

Init ==
    /\ pc = "polling" /\ due = 0 /\ cancelled = FALSE
    /\ pollNow = FALSE /\ caller = [c \in Callers |-> "idle"]
    /\ since = MinInterval /\ eb = Default
    /\ report = "none" /\ idle = 0 /\ status = Healthy
    /\ asked = 0 /\ rest = 0 /\ burst = 0 /\ wanted = FALSE /\ warned = 0

Select == Scheduled \/ Boundary \/ Stop

Next ==
    \/ PollReturns
    \/ Scheduled \/ Boundary \/ Stop
    \/ \E c \in Callers : TriggerCheck(c) \/ TriggerSend(c)
    \/ Cancel
    \/ Tick

Spec == Init /\ [][Next]_vars

\* Time passes; a call of the source returns (every client has a request
\* timeout); the loop leaves its select when a case is ready, and since Go picks
\* among the ready cases at random, cancellation is not passed over for ever.
FairSpec == Spec /\ WF_vars(Tick) /\ WF_vars(PollReturns) /\ WF_vars(Select) /\ SF_vars(Stop)

-----------------------------------------------------------------------------
(* Properties.                                                              *)

Waiting == pc = "waiting"

\* The waits the loop chooses by itself, before jitter.
OwnWaits == {Default, MaxBackoff, QuotaBlockFloor, MinInterval, DrivingStreaming,
             AwakeBackoffCap} \union {Base[s] : s \in Reports}
Longest(d) == d + d \div JitterDiv

\* The timer never runs out before the server's delay or the floor has passed,
\* and nothing but a server makes the loop wait longer than its settings say.
WaitCovers ==
    Waiting => /\ due >= asked /\ due >= rest
               /\ \/ due <= asked
                  \/ \E w \in OwnWaits : due <= Longest(w)

\* A driving, charging or sleeping car is polled at its own cadence however long
\* nothing changes, and an idle one no later than the cap says.
CadenceWithinCeiling ==
    Waiting /\ ~status.failing =>
        LET top == IF report \in Stretched THEN Max2(Base[report], AwakeBackoffCap)
                   ELSE IF report = "driving" THEN Max2(Base[report], DrivingStreaming)
                   ELSE Base[report]
            d   == Max2(top, MinInterval)
        IN  due <= Longest(d)

\* A flapping stream cannot spam the source: in a spell in which polls keep
\* succeeding less than MinInterval ago, off-schedule polls are those that were
\* asked for before the spell, one in the channel and one for each caller.
BurstBounded == burst <= BurstMax

\* A trigger that was accepted while a poll was in flight is not lost with it.
NoTriggerLost == wanted => pollNow

\* The status reports no failure, re-authentication, block or backoff once a
\* poll has succeeded, and a backoff as long as polls fail.
StatusTellsOutage ==
    /\ ~status.failing => status = Healthy
    /\ status.failing => status.backoff >= MinInterval

\* Dead credentials are reported once per outage, whatever fails in between.
ReauthWarnedOnce == warned <= 1

\* Whatever the source answers and however often it fails, it is asked again.
KeepsPolling == ~cancelled ~> (pc = "polling" \/ cancelled)

\* The loop ends after a cancellation, even while triggers keep coming.
StopsWhenCancelled == cancelled ~> pc = "stopped"
=============================================================================
