----------------------------- MODULE PollerProofs -----------------------------
(***************************************************************************)
(* Theorems about Poller, for any callers, states, intervals, floors and    *)
(* delays a server may ask for.                                             *)
(***************************************************************************)
EXTENDS Poller, FiniteSetTheorems, TLAPS

-----------------------------------------------------------------------------
(* Delays.                                                                  *)

\* The part of a delay that jitter may take or add is between 0 and the delay.
LEMMA JitterPart == \A d \in Nat : d \div JitterDiv \in 0..d
  BY PollerAssumption

\* The longest jittered delay grows with the delay.
LEMMA LongestGrows ==
    ASSUME NEW a \in Nat, NEW b \in Nat, a <= b
    PROVE  Longest(a) <= Longest(b) /\ Longest(a) \in Nat /\ Longest(b) \in Nat
  <1>1. a \div JitterDiv \in 0..a /\ b \div JitterDiv \in 0..b
    BY JitterPart
  <1>2. a \div JitterDiv <= b \div JitterDiv
    <2> DEFINE q == a \div JitterDiv
               r == b \div JitterDiv
    <2>1. /\ q \in Nat /\ JitterDiv * q <= a
          /\ r \in Nat /\ b < JitterDiv * (r + 1)
      BY <1>1, PollerAssumption
    <2>2. JitterDiv * q < JitterDiv * (r + 1)
      BY <2>1, PollerAssumption
    <2>3. ~(q >= r + 1)
      BY <2>1, <2>2, PollerAssumption
    <2> QED
      BY <2>1, <2>3
  <1> QED
    BY <1>1, <1>2 DEF Longest

\* A jittered delay is at least the floor and at most the longest of the floored one.
LEMMA JitteredBounds ==
    ASSUME NEW d \in Int, NEW x \in Jittered(d)
    PROVE  /\ x \in Nat /\ x >= MinInterval
           /\ Max2(d, MinInterval) \in Nat /\ x <= Longest(Max2(d, MinInterval))
  <1> DEFINE m == Max2(d, MinInterval)
  <1>1. m \in Nat /\ m >= MinInterval
    BY PollerAssumption DEF Max2
  <1>2. m \div JitterDiv \in 0..m
    BY <1>1, JitterPart
  <1>3. PICK y \in Spread(m) : x = Max2(y, MinInterval)
    BY DEF Jittered
  <1>4. y \in Int /\ y <= Longest(m)
    BY <1>1, <1>2, <1>3 DEF Spread, Longest
  <1> QED
    BY <1>1, <1>2, <1>3, <1>4, PollerAssumption DEF Max2, Longest

\* An idle car's interval is at most the cap, or its base when that is longer.
LEMMA StretchBounds ==
    ASSUME NEW base \in Nat \ {0}, NEW n \in Nat
    PROVE  Stretch(base, n) \in Int /\ Stretch(base, n) <= Max2(AwakeBackoffCap, base)
  <1>1. n > IdleGrace => n - IdleGrace \in Nat
    BY PollerAssumption
  <1>2. n > IdleGrace => base * 2 ^ (n - IdleGrace) \in Int
    BY <1>1
  <1> QED
    BY <1>2, PollerAssumption DEF Stretch, Max2

\* The interval of a derived state is within the state's own ceiling.
Top(s) == IF s \in Stretched THEN Max2(Base[s], AwakeBackoffCap)
          ELSE IF s = "driving" THEN Max2(Base[s], DrivingStreaming)
          ELSE Base[s]

LEMMA IntervalBounds ==
    ASSUME NEW s \in Reports, NEW fresh \in BOOLEAN, NEW n \in Nat
    PROVE  /\ Interval(s, fresh, n) \in Int /\ Interval(s, fresh, n) <= Top(s)
           /\ Top(s) \in OwnWaits /\ Top(s) \in Nat
  <1>1. Base[s] \in Nat \ {0}
    BY PollerAssumption
  <1>2. Stretch(Base[s], n) \in Int /\ Stretch(Base[s], n) <= Max2(AwakeBackoffCap, Base[s])
    BY <1>1, StretchBounds
  <1> QED
    BY <1>1, <1>2, PollerAssumption DEF Interval, Top, Max2, OwnWaits, Stretched

\* An error's delay is at least the floor and the server's, and at most the
\* longest of them and of the backoff's.
LEMMA ErrorDelayBounds ==
    ASSUME TypeOK, NEW x \in Spread(eb), NEW ra \in RetryAfters
    PROVE  LET d == ErrorDelay(x, ra)
           IN  /\ d \in Nat /\ d >= MinInterval /\ d >= ra
               /\ d <= ra \/ \E w \in OwnWaits : w \in Nat /\ d <= Longest(w)
  <1>1. eb \in Nat /\ (eb <= Default \/ eb <= MaxBackoff)
    BY PollerAssumption DEF TypeOK, Max2
  <1>2. eb \div JitterDiv \in 0..eb
    BY <1>1, JitterPart
  <1>3. x \in Nat /\ x <= Longest(eb)
    BY <1>1, <1>2 DEF Spread, Longest
  <1>4. Longest(eb) <= Longest(Default) \/ Longest(eb) <= Longest(MaxBackoff)
    BY <1>1, LongestGrows, PollerAssumption
  <1>5. MinInterval <= Longest(MinInterval) /\ Longest(MinInterval) \in Nat
        /\ Longest(Default) \in Nat /\ Longest(MaxBackoff) \in Nat
    BY JitterPart, LongestGrows, PollerAssumption DEF Longest
  <1>6. {Default, MaxBackoff, MinInterval} \subseteq OwnWaits
    BY DEF OwnWaits
  <1>7. ra \in Nat /\ MinInterval \in Nat /\ Default \in Nat /\ MaxBackoff \in Nat
    BY PollerAssumption
  <1>8. Longest(eb) \in Nat
    BY <1>1, <1>2 DEF Longest
  <1> DEFINE d == ErrorDelay(x, ra)
  <1>9. d \in Nat /\ d >= MinInterval /\ d >= ra /\ (d = x \/ d = MinInterval \/ d = ra)
    BY <1>3, <1>7 DEF ErrorDelay, Max2
  <1>10. CASE d = x
    BY <1>3, <1>4, <1>5, <1>6, <1>7, <1>8, <1>9, <1>10
  <1>11. CASE d = MinInterval
    BY <1>5, <1>6, <1>7, <1>9, <1>11
  <1>12. CASE d = ra
    BY <1>7, <1>9, <1>12
  <1> QED
    BY <1>9, <1>10, <1>11, <1>12
-----------------------------------------------------------------------------
(* Type correctness.                                                        *)

\* One trigger per caller and one in the channel is a number.
LEMMA BurstMaxType == BurstMax \in Nat \ {0}
  BY PollerAssumption, FS_CardinalityType DEF BurstMax

\* Every loop starts with its variables in their types.
LEMMA TypeInit == Init => TypeOK
  <1> SUFFICES ASSUME Init PROVE TypeOK
    OBVIOUS
  <1>1. Healthy \in [failing: BOOLEAN, needsReauth: BOOLEAN, quota: BOOLEAN,
                     wiped: BOOLEAN, backoff: Nat]
    BY DEF Healthy
  <1>2. /\ since \in 0..MinInterval /\ eb \in 1..Max2(Default, MaxBackoff)
        /\ idle \in 0..IdleBound /\ rest \in 0..MinInterval
        /\ burst \in 0..BurstMax + 1 /\ due \in Nat /\ asked \in Nat /\ warned \in 0..2
    BY PollerAssumption, BurstMaxType DEF Init, Max2
  <1>3. caller \in [Callers -> {"idle", "passed"}] /\ report \in Reports \union {"none"}
    BY DEF Init
  <1> QED
    BY <1>1, <1>2, <1>3 DEF Init, TypeOK

\* No answer, trigger or tick takes a variable out of its type.
LEMMA TypeStep == TypeOK /\ [Next]_vars => TypeOK'
  <1> SUFFICES ASSUME TypeOK, [Next]_vars PROVE TypeOK'
    OBVIOUS
  <1> USE PollerAssumption, BurstMaxType
  <1>1. ASSUME NEW s \in Reports, NEW fresh \in BOOLEAN, NEW contentChanged \in BOOLEAN,
               NEW synced \in BOOLEAN, PollSucceeds(s, fresh, contentChanged, synced)
        PROVE  TypeOK'
    <2> DEFINE streak == IF contentChanged \/ synced THEN 0 ELSE Sum1(idle, IdleBound)
    <2>1. streak \in 0..IdleBound
      BY DEF TypeOK, Sum1
    <2>2. PICK d \in Jittered(Interval(s, fresh, streak)) : Wait(d, 0)
      BY <1>1 DEF PollSucceeds
    <2>3. d \in Nat
      BY <2>1, <2>2, IntervalBounds, JitteredBounds
    <2>4. /\ eb' = Default /\ report' = s /\ idle' = streak /\ since' = 0
          /\ status' = Healthy /\ warned' = 0
          /\ UNCHANGED <<cancelled, pollNow, caller, burst, wanted>>
      BY <1>1 DEF PollSucceeds, Recovered
    <2> HIDE DEF streak
    <2> QED
      BY <2>1, <2>2, <2>3, <2>4 DEF TypeOK, Wait, Healthy, Max2
  <1>2. ASSUME NEW kind \in {"unauthenticated", "rateLimited", "other"},
               NEW ra \in RetryAfters, PollFails(kind, ra)
        PROVE  TypeOK'
    <2>1. PICK x \in Spread(eb) :
             /\ Wait(ErrorDelay(x, ra), ra)
             /\ status' = [status EXCEPT !.failing = TRUE, !.needsReauth = NeedsReauth(kind),
                                         !.backoff = ErrorDelay(x, ra)]
      BY <1>2 DEF PollFails
    <2>2. ErrorDelay(x, ra) \in Nat
      BY <2>1, ErrorDelayBounds
    <2>3. NeedsReauth(kind) \in BOOLEAN
      BY DEF NeedsReauth, TypeOK
    <2>4. status' \in [failing: BOOLEAN, needsReauth: BOOLEAN, quota: BOOLEAN,
                       wiped: BOOLEAN, backoff: Nat]
      BY <2>1, <2>2, <2>3 DEF TypeOK
    <2>5. eb' \in 1..Max2(Default, MaxBackoff) /\ warned' \in 0..2
      BY <1>2 DEF PollFails, Doubled, TypeOK, Max2, Sum1
    <2>6. UNCHANGED <<cancelled, pollNow, caller, since, report, idle, burst, wanted>>
      BY <1>2 DEF PollFails
    <2>7. pc' = "waiting" /\ due' \in Nat /\ asked' \in Nat /\ rest' \in 0..MinInterval
      BY <2>1, <2>2 DEF Wait
    <2> QED
      BY <2>4, <2>5, <2>6, <2>7 DEF TypeOK
  <1>3. ASSUME NEW ra \in RetryAfters, NEW wiped \in BOOLEAN, PollBlocked(ra, wiped)
        PROVE  TypeOK'
    <2>1. Max2(QuotaBlockFloor, ra) \in Nat
      BY DEF Max2
    <2>2. status' \in [failing: BOOLEAN, needsReauth: BOOLEAN, quota: BOOLEAN,
                       wiped: BOOLEAN, backoff: Nat]
      BY <1>3, <2>1 DEF PollBlocked, TypeOK
    <2>3. pc' = "waiting" /\ due' \in Nat /\ asked' \in Nat /\ rest' \in 0..MinInterval
      BY <1>3, <2>1 DEF PollBlocked, Wait
    <2>4. eb' \in 1..Max2(Default, MaxBackoff)
      BY <1>3 DEF PollBlocked, Max2
    <2>5. UNCHANGED <<cancelled, pollNow, caller, since, report, idle, burst, wanted, warned>>
      BY <1>3 DEF PollBlocked
    <2> QED
      BY <2>2, <2>3, <2>4, <2>5 DEF TypeOK
  <1>4. CASE Scheduled
    BY <1>4 DEF Scheduled, TypeOK
  <1>5. CASE Boundary
    <2>1. burst' \in 0..BurstMax + 1
      BY <1>5 DEF Boundary, TypeOK, Sum1
    <2>2. /\ pc' = "polling" /\ due' = 0 /\ pollNow' = FALSE /\ wanted' = FALSE
          /\ UNCHANGED <<cancelled, caller, since, eb, report, idle, status, asked, rest, warned>>
      BY <1>5 DEF Boundary
    <2> QED
      BY <2>1, <2>2 DEF TypeOK
  <1>6. CASE Stop
    BY <1>6 DEF Stop, TypeOK
  <1>7. ASSUME NEW c \in Callers, TriggerCheck(c) \/ TriggerSend(c)
        PROVE  TypeOK'
    BY <1>7 DEF TriggerCheck, TriggerSend, TypeOK
  <1>8. CASE Cancel
    BY <1>8 DEF Cancel, TypeOK
  <1>9. CASE Tick
    BY <1>9 DEF Tick, TypeOK, Down, Sum1
  <1>10. CASE UNCHANGED vars
    BY <1>10 DEF vars, TypeOK
  <1> QED
    BY <1>1, <1>2, <1>3, <1>4, <1>5, <1>6, <1>7, <1>8, <1>9, <1>10 DEF Next, PollReturns

\* Every variable of the poll loop keeps its type, whatever the source answers:
\* no delay is negative, no backoff leaves its range.
THEOREM TypeCorrect == Spec => []TypeOK
  BY TypeInit, TypeStep, PTL DEF Spec
-----------------------------------------------------------------------------
(* The waits.                                                               *)

\* Without a failure to wait out, the loop waits for what a success reported.
WaitsForReport == Waiting /\ ~status.failing => report \in Reports

CadenceInv == WaitCovers /\ CadenceWithinCeiling /\ WaitsForReport

\* The loop's own waits are numbers.
LEMMA OwnWaitsType == \A w \in OwnWaits : w \in Nat /\ Longest(w) \in Nat
  <1> TAKE w \in OwnWaits
  <1>1. w \in Nat
    BY PollerAssumption DEF OwnWaits
  <1> QED
    BY <1>1, JitterPart DEF Longest

\* The wait after a success.
LEMMA WaitAfterSuccess ==
    ASSUME TypeOK, NEW s \in Reports, NEW fresh \in BOOLEAN, NEW contentChanged \in BOOLEAN,
           NEW synced \in BOOLEAN, PollSucceeds(s, fresh, contentChanged, synced)
    PROVE  CadenceInv'
  <1> DEFINE streak == IF contentChanged \/ synced THEN 0 ELSE Sum1(idle, IdleBound)
  <1>1. streak \in Nat
    BY PollerAssumption DEF TypeOK, Sum1
  <1>2. PICK d \in Jittered(Interval(s, fresh, streak)) : Wait(d, 0)
    BY DEF PollSucceeds
  <1> DEFINE i == Interval(s, fresh, streak)
             top == Max2(Top(s), MinInterval)
  <1>3. i \in Int /\ i <= Top(s) /\ Top(s) \in OwnWaits /\ Top(s) \in Nat
    BY <1>1, IntervalBounds
  <1>4. d \in Nat /\ d >= MinInterval /\ Max2(i, MinInterval) \in Nat
        /\ d <= Longest(Max2(i, MinInterval))
    BY <1>2, <1>3, JitteredBounds
  <1>5. top \in Nat /\ Max2(i, MinInterval) <= top /\ top \in OwnWaits
    BY <1>3, PollerAssumption DEF Max2, OwnWaits
  <1> HIDE DEF i, streak, top
  <1>6. d <= Longest(top)
    BY <1>4, <1>5, LongestGrows
  <1>7. pc' = "waiting" /\ due' = d /\ asked' = 0 /\ rest' = MinInterval /\ report' = s
    BY <1>2 DEF Wait, PollSucceeds
  <1>8. WaitCovers'
    BY <1>4, <1>5, <1>6, <1>7 DEF WaitCovers
  <1>9. CadenceWithinCeiling'
    BY <1>6, <1>7 DEF CadenceWithinCeiling, Top, top
  <1> QED
    BY <1>7, <1>8, <1>9 DEF CadenceInv, WaitsForReport

\* Every step keeps the waits within their bounds.
LEMMA CadenceStep == TypeOK /\ CadenceInv /\ [Next]_vars => CadenceInv'
  <1> SUFFICES ASSUME TypeOK, CadenceInv, [Next]_vars PROVE CadenceInv'
    OBVIOUS
  <1>1. ASSUME NEW s \in Reports, NEW fresh \in BOOLEAN, NEW contentChanged \in BOOLEAN,
               NEW synced \in BOOLEAN, PollSucceeds(s, fresh, contentChanged, synced)
        PROVE  CadenceInv'
    BY <1>1, WaitAfterSuccess
  <1>2. ASSUME NEW kind \in {"unauthenticated", "rateLimited", "other"},
               NEW ra \in RetryAfters, PollFails(kind, ra)
        PROVE  CadenceInv'
    <2>1. PICK x \in Spread(eb) :
             /\ Wait(ErrorDelay(x, ra), ra)
             /\ status' = [status EXCEPT !.failing = TRUE, !.needsReauth = NeedsReauth(kind),
                                         !.backoff = ErrorDelay(x, ra)]
      BY <1>2 DEF PollFails
    <2> DEFINE d == ErrorDelay(x, ra)
    <2>2. /\ d \in Nat /\ d >= MinInterval /\ d >= ra
          /\ d <= ra \/ \E w \in OwnWaits : w \in Nat /\ d <= Longest(w)
      BY <2>1, ErrorDelayBounds
    <2>3. status'.failing
      BY <2>1 DEF TypeOK
    <2>4. pc' = "waiting" /\ due' = d /\ asked' = ra /\ rest' = MinInterval
      BY <2>1 DEF Wait
    <2> HIDE DEF d
    <2>5. WaitCovers'
      BY <2>2, <2>4 DEF WaitCovers
    <2> QED
      BY <2>3, <2>5 DEF CadenceInv, CadenceWithinCeiling, WaitsForReport
  <1>3. ASSUME NEW ra \in RetryAfters, NEW wiped \in BOOLEAN, PollBlocked(ra, wiped)
        PROVE  CadenceInv'
    <2> DEFINE d == Max2(QuotaBlockFloor, ra)
    <2>1. pc' = "waiting" /\ due' = d /\ asked' = ra /\ rest' = MinInterval /\ status'.failing
      BY <1>3 DEF PollBlocked, Wait, TypeOK
    <2>2. d \in Nat /\ d >= ra /\ d >= MinInterval /\ (d = ra \/ d = QuotaBlockFloor)
      BY PollerAssumption DEF Max2
    <2>3. QuotaBlockFloor \in OwnWaits /\ QuotaBlockFloor <= Longest(QuotaBlockFloor)
      BY JitterPart, PollerAssumption DEF OwnWaits, Longest
    <2> HIDE DEF d
    <2>4. WaitCovers'
      BY <2>1, <2>2, <2>3 DEF WaitCovers
    <2> QED
      BY <2>1, <2>4 DEF CadenceInv, CadenceWithinCeiling, WaitsForReport
  <1>4. CASE Scheduled \/ Boundary \/ Stop
    BY <1>4 DEF Scheduled, Boundary, Stop, CadenceInv, WaitCovers, CadenceWithinCeiling,
               WaitsForReport, Waiting
  <1>5. ASSUME NEW c \in Callers, TriggerCheck(c) \/ TriggerSend(c)
        PROVE  CadenceInv'
    BY <1>5 DEF TriggerCheck, TriggerSend, CadenceInv, WaitCovers, CadenceWithinCeiling,
               WaitsForReport, Waiting
  <1>6. CASE Cancel
    BY <1>6 DEF Cancel, CadenceInv, WaitCovers, CadenceWithinCeiling,
               WaitsForReport, Waiting
  <1>7. CASE Tick
    <2>1. /\ due' \in Nat /\ due' <= due /\ (due = 0 => due' = 0) /\ (due > 0 => due' = due - 1)
          /\ asked' = Down(asked) /\ rest' = Down(rest)
          /\ UNCHANGED <<pc, report, status>>
      BY <1>7 DEF Tick, Down, TypeOK
    <2>2. ASSUME Waiting
          PROVE  /\ due' >= asked' /\ due' >= rest'
                 /\ \/ due' <= asked'
                    \/ \E w \in OwnWaits : due' <= Longest(w)
      <3>1. due >= asked /\ due >= rest
        BY <2>2 DEF CadenceInv, WaitCovers
      <3>2. due' >= asked' /\ due' >= rest'
        BY <2>1, <3>1 DEF Down, TypeOK
      <3>3. CASE due <= asked
        BY <2>1, <3>2, <3>3 DEF Down, TypeOK
      <3>4. ASSUME NEW w \in OwnWaits, due <= Longest(w) PROVE due' <= Longest(w)
        BY <2>1, <3>4, OwnWaitsType DEF TypeOK
      <3>5. due <= asked \/ \E w \in OwnWaits : due <= Longest(w)
        BY <2>2 DEF CadenceInv, WaitCovers
      <3>6. CASE \E w \in OwnWaits : due <= Longest(w)
        BY <3>2, <3>4, <3>6
      <3> QED
        BY <3>2, <3>3, <3>5, <3>6
    <2>3. CadenceWithinCeiling'
      <3>1. SUFFICES ASSUME Waiting, ~status.failing
                     PROVE  due' <= Longest(Max2(Top(report), MinInterval))
        BY <2>1 DEF CadenceWithinCeiling, Waiting, Top
      <3>2. due <= Longest(Max2(Top(report), MinInterval))
        BY <3>1 DEF CadenceInv, CadenceWithinCeiling, Top
      <3>3. Max2(Top(report), MinInterval) \in OwnWaits
        BY <3>1, IntervalBounds DEF CadenceInv, WaitsForReport, Max2, OwnWaits
      <3> QED
        BY <2>1, <3>2, <3>3, OwnWaitsType DEF TypeOK
    <2> QED
      BY <2>1, <2>2, <2>3 DEF CadenceInv, WaitCovers, WaitsForReport, Waiting
  <1>8. CASE UNCHANGED vars
    BY <1>8 DEF vars, CadenceInv, WaitCovers, CadenceWithinCeiling,
               WaitsForReport, Waiting
  <1> QED
    BY <1>1, <1>2, <1>3, <1>4, <1>5, <1>6, <1>7, <1>8 DEF Next, PollReturns

\* The loop waits at least what the floor and the server ask for, and at most
\* what the longest of its own settings says, whatever sequence of answers.
THEOREM Waits == Spec => []WaitCovers
  <1>1. Init => CadenceInv
    BY DEF Init, CadenceInv, WaitCovers, CadenceWithinCeiling, WaitsForReport, Waiting
  <1>2. CadenceInv => WaitCovers
    BY DEF CadenceInv
  <1> QED
    BY <1>1, <1>2, TypeInit, TypeStep, CadenceStep, PTL DEF Spec

\* No state is polled later than its own ceiling, however long nothing changes.
THEOREM Cadence == Spec => []CadenceWithinCeiling
  <1>1. Init => CadenceInv
    BY DEF Init, CadenceInv, WaitCovers, CadenceWithinCeiling, WaitsForReport, Waiting
  <1>2. CadenceInv => CadenceWithinCeiling
    BY DEF CadenceInv
  <1> QED
    BY <1>1, <1>2, TypeInit, TypeStep, CadenceStep, PTL DEF Spec
-----------------------------------------------------------------------------
(* Triggers.                                                                *)

\* Every off-schedule poll begun too soon after a success was asked for before
\* it: by the token in the channel, or by a caller already past its check.
Passed == {c \in Callers : caller[c] = "passed"}
Tokens == IF pollNow THEN 1 ELSE 0

TriggerInv ==
    /\ NoTriggerLost
    /\ since = MinInterval => burst = 0
    /\ burst + Tokens + Cardinality(Passed) <= BurstMax

\* The callers past their check are at most all of them.
LEMMA PassedSize ==
    /\ IsFiniteSet(Passed) /\ Cardinality(Passed) \in Nat
    /\ Cardinality(Passed) <= Cardinality(Callers) /\ Cardinality(Callers) \in Nat
  <1>1. Passed \subseteq Callers
    BY DEF Passed
  <1> QED
    BY <1>1, PollerAssumption, FS_Subset, FS_CardinalityType

\* Triggers, tokens and polls trade places, and a spell begins with none begun.
LEMMA TriggerStep == TypeOK /\ TriggerInv /\ [Next]_vars => TriggerInv'
  <1> SUFFICES ASSUME TypeOK, TriggerInv, [Next]_vars PROVE TriggerInv'
    OBVIOUS
  <1> USE PassedSize, BurstMaxType, PollerAssumption
  <1>1. CASE PollReturns
    <2>1. UNCHANGED <<pollNow, caller, burst, wanted>> /\ (since' = since \/ since' = 0)
      BY <1>1 DEF PollReturns, PollSucceeds, PollFails, PollBlocked
    <2> QED
      BY <2>1 DEF TriggerInv, NoTriggerLost, Passed, Tokens
  <1>2. CASE Scheduled \/ Stop \/ Cancel
    BY <1>2 DEF Scheduled, Stop, Cancel, TriggerInv, NoTriggerLost, Passed, Tokens
  <1>3. CASE Boundary
    <2>1. pollNow /\ ~pollNow' /\ ~wanted' /\ UNCHANGED <<caller, since>>
      BY <1>3 DEF Boundary
    <2>2. Tokens = 1 /\ Tokens' = 0 /\ Passed' = Passed
      BY <2>1 DEF Tokens, Passed
    <2>3. burst + 1 + Cardinality(Passed) <= BurstMax
      BY <2>2 DEF TriggerInv
    <2>4. /\ burst' <= burst + 1 /\ burst' \in Nat
          /\ since = MinInterval => burst' = burst
      BY <1>3 DEF Boundary, TooSoon, Sum1, TypeOK
    <2>5. burst' + Cardinality(Passed) <= BurstMax
      BY <2>3, <2>4 DEF TypeOK
    <2> QED
      BY <2>1, <2>2, <2>4, <2>5 DEF TriggerInv, NoTriggerLost
  <1>4. ASSUME NEW c \in Callers, TriggerCheck(c) PROVE TriggerInv'
    <2>1. burst = 0 /\ burst' = 0 /\ since' = since /\ pollNow' = pollNow /\ wanted' = wanted
      BY <1>4 DEF TriggerCheck, TooSoon, TriggerInv, TypeOK
    <2>2. Cardinality(Passed') <= Cardinality(Callers) /\ Cardinality(Passed') \in Nat
      <3>1. Passed' \subseteq Callers
        BY DEF Passed
      <3> QED
        BY <3>1, FS_Subset, FS_CardinalityType
    <2>3. Tokens' \in {0, 1}
      BY DEF Tokens
    <2>4. burst' + Tokens' + Cardinality(Passed') <= BurstMax
      BY <2>1, <2>2, <2>3 DEF BurstMax
    <2> QED
      BY <2>1, <2>4 DEF TriggerInv, NoTriggerLost
  <1>5. ASSUME NEW c \in Callers, TriggerSend(c) PROVE TriggerInv'
    <2>1. /\ caller[c] = "passed" /\ caller' = [caller EXCEPT ![c] = "idle"]
          /\ pollNow' = TRUE /\ UNCHANGED <<burst, since>>
      BY <1>5 DEF TriggerSend
    <2>2. Passed' = Passed \ {c} /\ c \in Passed
      BY <2>1 DEF Passed, TypeOK
    <2>3. Cardinality(Passed') = Cardinality(Passed) - 1
      BY <2>2, FS_RemoveElement
    <2>4. Tokens' = 1 /\ Tokens \in {0, 1}
      BY <2>1 DEF Tokens
    <2>5. burst' + Tokens' + Cardinality(Passed') <= BurstMax
      BY <2>1, <2>3, <2>4 DEF TriggerInv, TypeOK
    <2> QED
      BY <2>1, <2>5 DEF TriggerInv, NoTriggerLost
  <1>6. CASE Tick
    <2>1. UNCHANGED <<pollNow, caller, wanted>>
      BY <1>6 DEF Tick
    <2>2. (burst' = 0 \/ burst' = burst) /\ (since' = MinInterval => burst' = 0)
      BY <1>6 DEF Tick
    <2>3. Tokens' = Tokens /\ Passed' = Passed /\ Tokens \in {0, 1}
      BY <2>1 DEF Tokens, Passed
    <2>4. burst' + Tokens' + Cardinality(Passed') <= BurstMax
      BY <2>2, <2>3 DEF TriggerInv, TypeOK
    <2> QED
      BY <2>1, <2>2, <2>4 DEF TriggerInv, NoTriggerLost
  <1>7. CASE UNCHANGED vars
    BY <1>7 DEF vars, TriggerInv, NoTriggerLost, Passed, Tokens
  <1> QED
    BY <1>1, <1>2, <1>3, <1>4, <1>5, <1>6, <1>7 DEF Next

\* No trigger is queued, and no caller past its check, at the start.
LEMMA TriggerInit == Init => TriggerInv
  <1> SUFFICES ASSUME Init PROVE TriggerInv
    OBVIOUS
  <1>1. burst = 0 /\ Tokens = 0 /\ ~wanted
    BY DEF Init, Tokens
  <1> QED
    BY <1>1, PassedSize, BurstMaxType DEF TriggerInv, NoTriggerLost, BurstMax

\* However a stream flaps, the polls begun too soon after a success are one for
\* the channel and one for each goroutine that may trigger.
THEOREM BurstsBounded == Spec => []BurstBounded
  <1>1. TypeOK /\ TriggerInv => BurstBounded
    BY PassedSize, BurstMaxType DEF TypeOK, TriggerInv, BurstBounded, Tokens
  <1> QED
    BY <1>1, TypeInit, TypeStep, TriggerInit, TriggerStep, PTL DEF Spec

\* A trigger accepted while a poll is in flight is still in the channel after it.
THEOREM TriggersKept == Spec => []NoTriggerLost
  <1>1. TriggerInv => NoTriggerLost
    BY DEF TriggerInv
  <1> QED
    BY <1>1, TypeInit, TypeStep, TriggerInit, TriggerStep, PTL DEF Spec
-----------------------------------------------------------------------------
(* What the status and the log tell.                                        *)

\* The message is logged when the flag is set, and both are reset together.
StatusInv ==
    /\ StatusTellsOutage
    /\ warned <= IF status.needsReauth THEN 1 ELSE 0

\* Each error path reports its failure and delay; only a success clears them.
LEMMA StatusStep == TypeOK /\ StatusInv /\ [Next]_vars => StatusInv'
  <1> SUFFICES ASSUME TypeOK, StatusInv, [Next]_vars PROVE StatusInv'
    OBVIOUS
  <1>1. ASSUME NEW s \in Reports, NEW fresh \in BOOLEAN, NEW contentChanged \in BOOLEAN,
               NEW synced \in BOOLEAN, PollSucceeds(s, fresh, contentChanged, synced)
        PROVE  StatusInv'
    BY <1>1 DEF PollSucceeds, Recovered, Healthy, StatusInv, StatusTellsOutage
  <1>2. ASSUME NEW kind \in {"unauthenticated", "rateLimited", "other"},
               NEW ra \in RetryAfters, PollFails(kind, ra)
        PROVE  StatusInv'
    <2>1. PICK x \in Spread(eb) :
             status' = [status EXCEPT !.failing = TRUE, !.needsReauth = NeedsReauth(kind),
                                      !.backoff = ErrorDelay(x, ra)]
      BY <1>2 DEF PollFails
    <2>2. ErrorDelay(x, ra) >= MinInterval
      BY <2>1, ErrorDelayBounds
    <2>3. /\ status'.failing /\ status'.backoff >= MinInterval
          /\ status'.needsReauth <=> (status.needsReauth \/ kind = "unauthenticated")
      BY <2>1, <2>2 DEF TypeOK, NeedsReauth
    <2>4. warned' = IF kind = "unauthenticated" /\ ~status.needsReauth
                    THEN Sum1(warned, 2) ELSE warned
      BY <1>2 DEF PollFails
    <2>5. warned' <= IF status'.needsReauth THEN 1 ELSE 0
      <3>1. CASE kind = "unauthenticated" /\ ~status.needsReauth
        BY <2>3, <2>4, <3>1 DEF StatusInv, TypeOK, Sum1
      <3>2. CASE ~(kind = "unauthenticated" /\ ~status.needsReauth)
        BY <2>3, <2>4, <3>2 DEF StatusInv, TypeOK
      <3> QED
        BY <3>1, <3>2
    <2> QED
      BY <2>3, <2>5 DEF StatusInv, StatusTellsOutage
  <1>3. ASSUME NEW ra \in RetryAfters, NEW wiped \in BOOLEAN, PollBlocked(ra, wiped)
        PROVE  StatusInv'
    <2>1. /\ status'.failing /\ status'.needsReauth = status.needsReauth
          /\ status'.backoff = Max2(QuotaBlockFloor, ra) /\ warned' = warned
      BY <1>3 DEF PollBlocked, TypeOK
    <2>2. Max2(QuotaBlockFloor, ra) >= MinInterval
      BY PollerAssumption DEF Max2
    <2> QED
      BY <2>1, <2>2 DEF StatusInv, StatusTellsOutage
  <1>4. CASE UNCHANGED <<status, warned>>
    BY <1>4 DEF StatusInv, StatusTellsOutage
  <1>5. CASE Scheduled \/ Boundary \/ Stop \/ Cancel \/ Tick
    BY <1>4, <1>5 DEF Scheduled, Boundary, Stop, Cancel, Tick
  <1>6. ASSUME NEW c \in Callers, TriggerCheck(c) \/ TriggerSend(c)
        PROVE  StatusInv'
    BY <1>4, <1>6 DEF TriggerCheck, TriggerSend
  <1>7. CASE UNCHANGED vars
    BY <1>4, <1>7 DEF vars
  <1> QED
    BY <1>1, <1>2, <1>3, <1>5, <1>6, <1>7 DEF Next, PollReturns

\* The loop starts healthy and silent.
LEMMA StatusInit == Init => StatusInv
  BY DEF Init, Healthy, StatusInv, StatusTellsOutage

\* No failure outlives the success that ends it, and every failure tells its delay.
THEOREM StatusSound == Spec => []StatusTellsOutage
  <1>1. StatusInv => StatusTellsOutage
    BY DEF StatusInv
  <1> QED
    BY <1>1, TypeInit, TypeStep, StatusInit, StatusStep, PTL DEF Spec

\* Dead credentials are reported once per outage.
THEOREM OneWarning == Spec => []ReauthWarnedOnce
  <1>1. TypeOK /\ StatusInv => ReauthWarnedOnce
    BY DEF TypeOK, StatusInv, ReauthWarnedOnce
  <1> QED
    BY <1>1, TypeInit, TypeStep, StatusInit, StatusStep, PTL DEF Spec
=============================================================================
