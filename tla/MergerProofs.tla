---------------------------- MODULE MergerProofs ----------------------------
(***************************************************************************)
(* Proofs that the cache writer keeps its promises for every set of         *)
(* streamed fields, every set of poll answers and frames, and every value   *)
(* of its windows and thresholds.                                           *)
(***************************************************************************)
EXTENDS RestOverCache, TLAPS

-----------------------------------------------------------------------------
(* What the helpers return.                                                 *)

\* Later is the greater of two times.
LEMMA LaterIsMax ==
    ASSUME NEW a \in Nat, NEW b \in Nat
    PROVE  Later(a, b) \in Nat /\ Later(a, b) >= a /\ Later(a, b) >= b
           /\ (Later(a, b) = a \/ Later(a, b) = b)
  BY DEF Later

\* commit keeps a snapshot a snapshot and disturbs only the stamp, the presence
\* mask and the liveness, which it may only degrade from online to offline.
LEMMA CommittedFields ==
    ASSUME TypeOK, NEW s \in Snapshot
    PROVE  /\ Committed(s) \in Snapshot
           /\ Committed(s).state = s.state /\ Committed(s).gear = s.gear
           /\ Committed(s).at = s.at /\ Committed(s).live = s.live
           /\ Committed(s).fetchedAt = s.fetchedAt
           /\ Committed(s).streamFields = s.streamFields
           /\ Committed(s).asOf = Later(snap.asOf, Later(s.fetchedAt, s.streamFields))
           /\ Committed(s).present \in {s.present, {}}
           /\ Committed(s).power = "asleep" <=> s.power = "asleep"
  <1>1. snap.asOf \in Nat /\ s.fetchedAt \in Nat /\ s.streamFields \in Nat
    BY DEF TypeOK, Snapshot, Time
  <1>2. Later(snap.asOf, Later(s.fetchedAt, s.streamFields)) \in Nat
    BY <1>1, LaterIsMax
  <1> QED
    BY <1>2 DEF Committed, Snapshot, Time, Power

\* The merge of a poll's answer is a snapshot.
LEMMA MergedPollType ==
    ASSUME TypeOK, NEW r \in PollResults, pollAt # 0
    PROVE  MergedPoll(r, pollAt) \in Snapshot
  <1>1. r \in PollResult
    BY InputsAssumption
  <1>2. PollPower(r.power) \in Power
    BY <1>1 DEF PollPower, Power, PollResult
  <1>3. pollAt \in Nat
    BY BoundsAssumption DEF TypeOK
  <1> DEFINE at == [f \in Streamed |-> IF f \in Held(pollAt) THEN snap.at[f]
                                       ELSE IF f \in r.has THEN pollAt ELSE 0]
  <1>4. at \in [Streamed -> Nat]
    BY <1>3 DEF TypeOK, Snapshot, Time
  <1> QED
    BY <1>1, <1>2, <1>3, <1>4 DEF MergedPoll, TypeOK, Snapshot, Time, PollResult

\* The merge of a frame is a snapshot.
LEMMA MergedFrameType ==
    ASSUME TypeOK, NEW fr \in Frames, NEW refused, NEW t \in 1..clock
    PROVE  MergedFrame(fr, fr.has \ refused, t) \in Snapshot
  <1>1. fr \in Frame
    BY InputsAssumption
  <1>2. t \in Nat
    BY DEF TypeOK
  <1> DEFINE acc == fr.has \ refused
             first == [f \in Streamed |-> IF f \in acc THEN t ELSE 0]
             next == [f \in Streamed |-> IF f \in acc THEN t ELSE snap.at[f]]
  <1>3. first \in [Streamed -> Nat] /\ next \in [Streamed -> Nat]
    BY <1>2 DEF TypeOK, Snapshot, Time
  <1>4. FrameLive(fr) \in Live /\ MergedLive(fr) \in Live
    BY DEF FrameLive, MergedLive, Live, TypeOK, Snapshot
  <1>5. acc \subseteq Streamed
    BY <1>1 DEF Frame
  <1>6. CASE ~snap.state
    BY <1>1, <1>2, <1>3, <1>4, <1>5, <1>6
    DEF MergedFrame, Snapshot, Time, Power, Gear, Frame
  <1>7. CASE snap.state
    BY <1>1, <1>2, <1>3, <1>4, <1>5, <1>7
    DEF MergedFrame, TypeOK, Snapshot, Time, Power, Frame
  <1> QED
    BY <1>6, <1>7 DEF TypeOK, Snapshot

-----------------------------------------------------------------------------
(* Type correctness.                                                        *)

\* Storing a snapshot keeps the types of what it touches.
LEMMA StoreType ==
    ASSUME TypeOK, NEW new \in Snapshot, Store(new)
    PROVE  /\ snap' \in Snapshot
           /\ subs' \in [Subscribers -> [on: BOOLEAN, events: 0..SubBuf]]
           /\ reader' \in [Subscribers -> [woken: BOOLEAN, behind: BOOLEAN]]
  <1>1. Notified(new) \in [Subscribers -> [on: BOOLEAN, events: 0..SubBuf]]
    BY BoundsAssumption DEF Notified, TypeOK
  <1>2. ASSUME NEW s \in Subscribers
        PROVE  [reader[s] EXCEPT !.behind =
                  reader[s].behind \/ (subs[s].on /\ Changed(snap, new))]
               \in [woken: BOOLEAN, behind: BOOLEAN]
    BY DEF TypeOK
  <1>3. Behind(new) \in [Subscribers -> [woken: BOOLEAN, behind: BOOLEAN]]
    BY <1>2 DEF Behind
  <1> QED
    BY <1>1, <1>3 DEF Store
\* The helpers of a frame stay within their types.
LEMMA FrameHelperTypes ==
    ASSUME TypeOK, NEW fr \in Frames, NEW out, NEW t \in 1..clock
    PROVE  /\ DriveAfter(out, t) \in [class: BOOLEAN, at: Time, set: BOOLEAN]
           /\ WakeAfter(t) \in [count: 0..WakeFrames, first: Time, fired: BOOLEAN]
  <1>1. t \in Nat
    BY DEF TypeOK
  <1>2. DriveAfter(out, t) \in [class: BOOLEAN, at: Time, set: BOOLEAN]
    <2>1. InDrive(out.gear) \in BOOLEAN /\ DriveClass \in BOOLEAN
      BY DEF InDrive, DriveClass, TypeOK
    <2> QED
      BY <1>1, <2>1 DEF DriveAfter, TypeOK, Time
  <1>3. WakeRun(t) \in [count: 0..WakeFrames, first: Time, fired: BOOLEAN]
    BY <1>1, BoundsAssumption DEF WakeRun, TypeOK, Time
  <1>4. WakeFires(t) \in BOOLEAN
    BY DEF WakeFires
  <1>5. WakeAfter(t) \in [count: 0..WakeFrames, first: Time, fired: BOOLEAN]
    BY <1>3, <1>4, BoundsAssumption DEF WakeAfter, TypeOK
  <1> QED
    BY <1>2, <1>5

\* A process starts with every variable in its type (NewMerger, New).
LEMMA TypeInit == Init => TypeOK
  <1> SUFFICES ASSUME Init PROVE TypeOK
    OBVIOUS
  <1>1. Empty \in Snapshot
    BY DEF Empty, Snapshot, Time, Power, Gear, Live
  <1>2. anchor \in [Anchored -> Time]
    BY DEF Init, Time
  <1>3. drive \in [class: BOOLEAN, at: Time, set: BOOLEAN]
        /\ wake \in [count: 0..WakeFrames, first: Time, fired: BOOLEAN]
    BY BoundsAssumption DEF Init, Time
  <1>4. /\ subs \in [Subscribers -> [on: BOOLEAN, events: 0..SubBuf]]
        /\ reader \in [Subscribers -> [woken: BOOLEAN, behind: BOOLEAN]]
    BY BoundsAssumption DEF Init
  <1>5. /\ sessions \in [drives: Int, charges: (-ChargeBound)..ChargeBound]
        /\ offline \in [count: 0..SleepConfirm, driving: BOOLEAN]
        /\ clock \in 1..MaxClock /\ pollAt \in 0..MaxClock /\ woke \in 0..2
    BY BoundsAssumption DEF Init
  <1> QED
    BY <1>1, <1>2, <1>3, <1>4, <1>5 DEF Init, TypeOK

\* No merge, frame, signal or tick takes a variable out of its type.
LEMMA TypeStep == TypeOK /\ [Next]_vars => TypeOK'
  <1> SUFFICES ASSUME TypeOK, [Next]_vars PROVE TypeOK'
    OBVIOUS
  <1>1. CASE Tick
    BY <1>1, BoundsAssumption DEF Tick, TypeOK
  <1>2. CASE FetchPoll
    <2>1. pollAt' \in 0..MaxClock
      BY <1>2, BoundsAssumption DEF FetchPoll, TypeOK
    <2> QED
      BY <1>2, <2>1 DEF FetchPoll, TypeOK
  <1>3. ASSUME NEW r \in PollResults, MergePoll(r) PROVE TypeOK'
    <2>1. Committed(MergedPoll(r, pollAt)) \in Snapshot
      BY <1>3, MergedPollType, CommittedFields DEF MergePoll
    <2>2. /\ snap' \in Snapshot
          /\ subs' \in [Subscribers -> [on: BOOLEAN, events: 0..SubBuf]]
          /\ reader' \in [Subscribers -> [woken: BOOLEAN, behind: BOOLEAN]]
      BY <1>3, <2>1, StoreType DEF MergePoll
    <2>3. OfflineRun(r.power) \in [count: 0..SleepConfirm, driving: BOOLEAN]
      <3>1. InDrive(snap.gear) \in BOOLEAN
        BY DEF InDrive
      <3> QED
        BY <3>1, BoundsAssumption DEF OfflineRun, TypeOK
    <2>4. anchor' \in [Anchored -> Time]
      BY <1>3, BoundsAssumption DEF MergePoll, TypeOK, Time
    <2> QED
      BY <1>3, <2>2, <2>3, <2>4, BoundsAssumption DEF MergePoll, TypeOK
  <1>4. ASSUME NEW fr \in Frames, NEW t \in 1..clock, NEW refused, Put(fr, t, refused)
        PROVE  TypeOK'
    <2> DEFINE out == MergedFrame(fr, fr.has \ refused, t)
    <2>1. Committed(out) \in Snapshot
      BY MergedFrameType, CommittedFields
    <2>2. /\ snap' \in Snapshot
          /\ subs' \in [Subscribers -> [on: BOOLEAN, events: 0..SubBuf]]
          /\ reader' \in [Subscribers -> [woken: BOOLEAN, behind: BOOLEAN]]
      BY <1>4, <2>1, StoreType DEF Put
    <2>3. anchor' \in [Anchored -> Time]
      <3>1. t \in Nat
        BY DEF TypeOK
      <3> QED
        BY <1>4, <3>1 DEF Put, TypeOK, Time
    <2>4. /\ drive' \in [class: BOOLEAN, at: Time, set: BOOLEAN]
          /\ wake' \in [count: 0..WakeFrames, first: Time, fired: BOOLEAN]
      BY <1>4, FrameHelperTypes DEF Put, TypeOK
    <2>5. sessions' \in [drives: Int, charges: (-ChargeBound)..ChargeBound]
      BY <1>4 DEF Put, TypeOK
    <2>6. pollNow' \in BOOLEAN /\ woke' \in 0..2
      BY <1>4 DEF Put, TypeOK
    <2> QED
      BY <1>4, <2>2, <2>3, <2>4, <2>5, <2>6 DEF Put, TypeOK
  <1>5. ASSUME NEW fr \in Frames, MergeStream(fr) PROVE TypeOK'
    BY <1>4, <1>5 DEF MergeStream
  <1>6. CASE OnStreamDisconnect
    BY <1>6 DEF OnStreamDisconnect, TypeOK
  <1>7. ASSUME NEW s \in Subscribers,
               Subscribe(s) \/ Unsubscribe(s) \/ Receive(s) \/ Latest(s)
        PROVE  TypeOK'
    <2>1. CASE Subscribe(s)
      BY <2>1, BoundsAssumption DEF Subscribe, TypeOK
    <2>2. CASE Unsubscribe(s)
      BY <2>2, BoundsAssumption DEF Unsubscribe, TypeOK
    <2>3. CASE Receive(s)
      <3>1. [subs[s] EXCEPT !.events = subs[s].events - 1] \in [on: BOOLEAN, events: 0..SubBuf]
        BY <2>3, BoundsAssumption DEF Receive, TypeOK
      <3>2. /\ subs' \in [Subscribers -> [on: BOOLEAN, events: 0..SubBuf]]
            /\ reader' \in [Subscribers -> [woken: BOOLEAN, behind: BOOLEAN]]
        BY <2>3, <3>1 DEF Receive, TypeOK
      <3> QED
        BY <2>3, <3>2 DEF Receive, TypeOK
    <2>4. CASE Latest(s)
      BY <2>4 DEF Latest, TypeOK
    <2> QED
      BY <1>7, <2>1, <2>2, <2>3, <2>4
  <1>8. CASE UNCHANGED vars
    BY <1>8 DEF vars, TypeOK
  <1> QED
    BY <1>1, <1>2, <1>3, <1>5, <1>6, <1>7, <1>8 DEF Next

\* Every variable keeps its type, whatever the polls, frames and subscribers do.
THEOREM TypeCorrect == Spec => []TypeOK
  BY TypeInit, TypeStep, PTL DEF Spec
-----------------------------------------------------------------------------
(* The served time and the anchors.                                         *)

\* Before any data nothing is served.
EmptyUntilData == ~snap.state => \A f \in Streamed : snap.at[f] = 0

\* Nothing has been observed, or fetched, in the future.
TimeInv ==
    /\ EmptyUntilData
    /\ pollAt <= clock
    /\ ServedTimeCovers

\* What a merge of a poll serves was served before, or is the poll's own.
LEMMA MergedPollFields ==
    ASSUME TypeOK, NEW r \in PollResults, pollAt # 0
    PROVE  /\ MergedPoll(r, pollAt).state
           /\ MergedPoll(r, pollAt).fetchedAt = pollAt
           /\ MergedPoll(r, pollAt).streamFields = snap.streamFields
           /\ MergedPoll(r, pollAt).present = snap.present
           /\ \A f \in Streamed : MergedPoll(r, pollAt).at[f] =
                IF f \in Held(pollAt) THEN snap.at[f] ELSE IF f \in r.has THEN pollAt ELSE 0
  BY DEF MergedPoll

\* What a merge of a frame serves was served before, or is the frame's own.
LEMMA MergedFrameFields ==
    ASSUME TypeOK, EmptyUntilData, NEW fr \in Frames, NEW acc, NEW t \in 1..clock
    PROVE  /\ MergedFrame(fr, acc, t).state
           /\ MergedFrame(fr, acc, t).fetchedAt \in {snap.fetchedAt, t}
           /\ MergedFrame(fr, acc, t).streamFields = t
           /\ MergedFrame(fr, acc, t).present \in {acc, snap.present \union acc}
           /\ snap.state => MergedFrame(fr, acc, t).present = snap.present \union acc
           /\ \A f \in Streamed :
                MergedFrame(fr, acc, t).at[f] = IF f \in acc THEN t ELSE snap.at[f]
  <1>1. CASE ~snap.state
    BY <1>1 DEF MergedFrame, EmptyUntilData
  <1>2. CASE snap.state
    BY <1>2 DEF MergedFrame, TypeOK, Snapshot
  <1> QED
    BY <1>1, <1>2 DEF TypeOK, Snapshot

\* commit stamps a time that covers everything it stores and does not regress.
LEMMA StampCovers ==
    ASSUME TypeOK, NEW s \in Snapshot, s.fetchedAt <= clock, s.streamFields <= clock,
           snap.asOf <= clock
    PROVE  /\ Committed(s).asOf >= snap.asOf /\ Committed(s).asOf >= s.fetchedAt
           /\ Committed(s).asOf >= s.streamFields /\ Committed(s).asOf <= clock
  <1>1. snap.asOf \in Nat /\ s.fetchedAt \in Nat /\ s.streamFields \in Nat /\ clock \in Nat
    BY BoundsAssumption DEF TypeOK, Snapshot, Time
  <1> DEFINE newest == Later(s.fetchedAt, s.streamFields)
  <1>2. newest \in Nat /\ newest >= s.fetchedAt /\ newest >= s.streamFields /\ newest <= clock
    BY <1>1, LaterIsMax
  <1>3. Committed(s).asOf = Later(snap.asOf, newest)
    BY CommittedFields
  <1> HIDE DEF newest
  <1>4. /\ Later(snap.asOf, newest) \in Nat /\ Later(snap.asOf, newest) >= snap.asOf
        /\ Later(snap.asOf, newest) >= newest /\ Later(snap.asOf, newest) <= clock
    BY <1>1, <1>2, LaterIsMax
  <1> QED
    BY <1>1, <1>2, <1>3, <1>4

\* An empty snapshot serves nothing, so its served time covers it.
LEMMA TimeInit == Init => TimeInv
  BY DEF Init, Empty, TimeInv, EmptyUntilData, ServedTimeCovers

\* Every step keeps the served time above what it covers, and none lowers it.
LEMMA TimeStep ==
    TypeOK /\ TimeInv /\ [Next]_vars => TimeInv' /\ snap'.asOf >= snap.asOf
  <1> SUFFICES ASSUME TypeOK, TimeInv, [Next]_vars
               PROVE  TimeInv' /\ snap'.asOf >= snap.asOf
    OBVIOUS
  <1> USE DEF TimeInv, ServedTimeCovers
  <1>0. /\ clock \in Nat /\ pollAt \in Nat /\ snap.asOf \in Nat /\ snap.fetchedAt \in Nat
        /\ snap.streamFields \in Nat /\ \A f \in Streamed : snap.at[f] \in Nat
    BY BoundsAssumption DEF TypeOK, Snapshot, Time
  <1>1. CASE Tick
    BY <1>0, <1>1 DEF Tick, EmptyUntilData
  <1>2. CASE FetchPoll
    BY <1>0, <1>2 DEF FetchPoll, EmptyUntilData
  <1>3. ASSUME NEW r \in PollResults, MergePoll(r)
        PROVE  TimeInv' /\ snap'.asOf >= snap.asOf
    <2> DEFINE s == MergedPoll(r, pollAt)
    <2>1. /\ pollAt # 0 /\ snap' = Committed(s) /\ clock' = clock /\ pollAt' = 0
      BY <1>3 DEF MergePoll, Store
    <2>2. s \in Snapshot /\ s.state /\ s.fetchedAt = pollAt
          /\ s.streamFields = snap.streamFields
          /\ \A f \in Streamed : s.at[f] <= snap.at[f] \/ s.at[f] <= pollAt
      BY <1>0, <2>1, MergedPollType, MergedPollFields
    <2>3. /\ snap'.state /\ snap'.at = s.at /\ snap'.fetchedAt = s.fetchedAt
          /\ snap'.streamFields = s.streamFields
      BY <2>1, <2>2, CommittedFields
    <2>4. /\ snap'.asOf >= snap.asOf /\ snap'.asOf >= pollAt
          /\ snap'.asOf >= snap.streamFields /\ snap'.asOf <= clock /\ snap'.asOf \in Nat
      BY <1>0, <2>1, <2>2, StampCovers, CommittedFields DEF Snapshot, Time
    <2>5. \A f \in Streamed : s.at[f] \in Nat
      BY <2>2 DEF Snapshot, Time
    <2>6. \A f \in Streamed : snap'.at[f] <= snap'.asOf
      BY <1>0, <2>2, <2>3, <2>4, <2>5
    <2> QED
      BY <1>0, <2>1, <2>2, <2>3, <2>4, <2>6 DEF EmptyUntilData
  <1>4. ASSUME NEW fr \in Frames, NEW t \in 1..clock, NEW refused, Put(fr, t, refused)
        PROVE  TimeInv' /\ snap'.asOf >= snap.asOf
    <2> DEFINE s == MergedFrame(fr, fr.has \ refused, t)
    <2>1. snap' = Committed(s) /\ clock' = clock /\ pollAt' = pollAt
      BY <1>4 DEF Put, Store
    <2>2. /\ s \in Snapshot /\ s.state /\ s.fetchedAt \in {snap.fetchedAt, t}
          /\ s.streamFields = t
          /\ \A f \in Streamed : s.at[f] \in {snap.at[f], t}
      <3>1. s \in Snapshot
        BY MergedFrameType
      <3>2. /\ s.state /\ s.fetchedAt \in {snap.fetchedAt, t} /\ s.streamFields = t
            /\ \A f \in Streamed : s.at[f] = IF f \in fr.has \ refused THEN t ELSE snap.at[f]
        BY MergedFrameFields
      <3> QED
        BY <3>1, <3>2
    <2>3. /\ snap'.state /\ snap'.at = s.at /\ snap'.fetchedAt = s.fetchedAt
          /\ snap'.streamFields = s.streamFields
      BY <2>1, <2>2, CommittedFields
    <2>4. t \in Nat /\ t <= clock
      BY <1>0
    <2>5. /\ snap'.asOf >= snap.asOf /\ snap'.asOf >= s.fetchedAt
          /\ snap'.asOf >= t /\ snap'.asOf <= clock /\ snap'.asOf \in Nat
      <3>1. s.fetchedAt <= clock /\ s.streamFields <= clock
        BY <1>0, <2>2, <2>4
      <3>2. Committed(s) \in Snapshot
        BY <2>2, CommittedFields
      <3>3. snap.asOf <= clock
        BY <1>0
      <3> HIDE DEF s
      <3>4. /\ Committed(s).asOf >= snap.asOf /\ Committed(s).asOf >= s.fetchedAt
            /\ Committed(s).asOf >= s.streamFields /\ Committed(s).asOf <= clock
        BY <2>2, <3>1, <3>3, StampCovers
      <3> QED
        BY <2>1, <2>2, <3>2, <3>4 DEF Snapshot, Time
    <2>6. \A f \in Streamed : snap'.at[f] <= snap'.asOf
      <3> TAKE f \in Streamed
      <3>1. snap.at[f] <= snap.asOf /\ snap.at[f] \in Nat /\ snap.asOf \in Nat
        BY <1>0 DEF Snapshot, Time
      <3>2. snap'.at[f] \in {snap.at[f], t}
        BY <2>2, <2>3
      <3>3. CASE snap'.at[f] = snap.at[f]
        BY <2>5, <3>1, <3>3
      <3>4. CASE snap'.at[f] = t
        BY <2>5, <3>4
      <3> QED
        BY <3>2, <3>3, <3>4
    <2> QED
      BY <1>0, <2>1, <2>2, <2>3, <2>4, <2>5, <2>6 DEF EmptyUntilData
  <1>5. ASSUME NEW fr \in Frames, MergeStream(fr)
        PROVE  TimeInv' /\ snap'.asOf >= snap.asOf
    BY <1>4, <1>5 DEF MergeStream
  <1>6. ASSUME UNCHANGED <<clock, snap, pollAt>> PROVE TimeInv' /\ snap'.asOf >= snap.asOf
    BY <1>0, <1>6 DEF EmptyUntilData
  <1>7. CASE OnStreamDisconnect
    BY <1>6, <1>7 DEF OnStreamDisconnect
  <1>8. ASSUME NEW s \in Subscribers,
               Subscribe(s) \/ Unsubscribe(s) \/ Receive(s) \/ Latest(s)
        PROVE  TimeInv' /\ snap'.asOf >= snap.asOf
    BY <1>6, <1>8 DEF Subscribe, Unsubscribe, Receive, Latest
  <1>9. CASE UNCHANGED vars
    BY <1>6, <1>9 DEF vars
  <1> QED
    BY <1>1, <1>2, <1>3, <1>5, <1>7, <1>8, <1>9 DEF Next

\* The emitted time covers all that is served under it and never lies ahead of
\* the clock.
THEOREM ServedTime == Spec => []ServedTimeCovers
  <1>1. TimeInv => ServedTimeCovers
    BY DEF TimeInv
  <1> QED
    BY <1>1, TypeInit, TypeStep, TimeInit, TimeStep, PTL DEF Spec

\* No poll and no frame, however late, moves the emitted time backwards.
THEOREM ServedTimeMonotonic == Spec => ServedTimeNeverRegresses
  <1>1. TypeOK /\ TimeInv /\ [Next]_vars => [snap'.asOf >= snap.asOf]_vars
    BY TimeStep
  <1> QED
    BY <1>1, TypeInit, TypeStep, TimeInit, TimeStep, PTL DEF Spec, ServedTimeNeverRegresses
-----------------------------------------------------------------------------
(* The cache implements the register its readers rely on.                   *)

\* A merge that leaves a state, stamped no earlier than the first instant and than
\* the last stamp, is one write of the register.
LEMMA MergeWrites ==
    ASSUME TypeOK, TypeOK', TimeInv', snap'.state, snap'.asOf >= 1,
           snap'.asOf >= snap.asOf, clock' = clock
    PROVE  Reg!Merge
  <1>1. /\ snap' \in Snapshot /\ clock \in Nat /\ snap'.asOf \in Nat /\ snap'.asOf <= clock
        /\ \A f \in Streamed : snap'.at[f] \in Nat /\ snap'.at[f] <= snap'.asOf
    BY BoundsAssumption DEF TypeOK, Snapshot, Time, TimeInv, ServedTimeCovers
  <1>2. /\ Served'.state = snap'.state /\ Served'.at = snap'.at
        /\ Served'.power = snap'.power /\ Served'.gear = snap'.gear
        /\ Served'.live = snap'.live /\ Served'.asOf = snap'.asOf
        /\ Served.asOf = snap.asOf
    BY DEF Served
  <1>3. /\ snap'.power \in Power /\ snap'.gear \in Gear /\ snap'.live \in Live
        /\ snap'.at \in [Streamed -> Nat]
    BY <1>1 DEF Snapshot, Time
  <1>4. Reg!Content(Served') \in
          [power: Power, gear: Gear, live: Live, has: SUBSET Streamed]
    BY <1>2, <1>3 DEF Reg!Content
  <1>5. Served'.asOf \in 0 + 1..clock /\ Served'.asOf >= Served.asOf
    BY <1>1, <1>2
  <1>6. Served'.at \in [Streamed -> {0} \union 0 + 1..Served'.asOf]
    <2>1. \A f \in Streamed : snap'.at[f] \in {0} \union 0 + 1..snap'.asOf
      BY <1>1
    <2> QED
      BY <1>2, <1>3, <2>1
  <1> QED
    BY <1>2, <1>4, <1>5, <1>6 DEF Reg!Merge

\* Whatever the cache does is one write of the register, the passing of time, or
\* nothing its readers can see.
LEMMA RegisterStep ==
    TypeOK /\ TimeInv /\ [Next]_vars => [Reg!Next]_(Reg!register)
  <1> SUFFICES ASSUME TypeOK, TimeInv, [Next]_vars PROVE [Reg!Next]_(Reg!register)
    OBVIOUS
  <1>0. TypeOK' /\ TimeInv' /\ snap'.asOf >= snap.asOf
    BY TypeStep, TimeStep
  <1>1. CASE Tick
    BY <1>1 DEF Tick, Served, Reg!Next, Reg!Tick
  <1>2. ASSUME NEW r \in PollResults, MergePoll(r) PROVE Reg!Next
    <2>1. pollAt # 0 /\ snap' = Committed(MergedPoll(r, pollAt)) /\ clock' = clock
      BY <1>2 DEF MergePoll, Store
    <2>2. snap'.state /\ snap'.fetchedAt = pollAt
      BY <2>1, MergedPollType, MergedPollFields, CommittedFields
    <2>3. pollAt \in Nat /\ snap'.asOf \in Nat /\ snap'.fetchedAt <= snap'.asOf
      BY <1>0, BoundsAssumption DEF TypeOK, Snapshot, Time, TimeInv, ServedTimeCovers
    <2>4. snap'.asOf >= 1
      BY <2>1, <2>2, <2>3
    <2> QED
      BY <1>0, <2>1, <2>2, <2>4, MergeWrites DEF Reg!Next
  <1>3. ASSUME NEW fr \in Frames, NEW t \in 1..clock, NEW refused, Put(fr, t, refused)
        PROVE  Reg!Next
    <2> DEFINE s == MergedFrame(fr, fr.has \ refused, t)
    <2>1. snap' = Committed(s) /\ clock' = clock
      BY <1>3 DEF Put, Store
    <2>2. s \in Snapshot /\ s.state /\ s.streamFields = t
      <3>1. s \in Snapshot
        BY MergedFrameType
      <3>2. s.state /\ s.streamFields = t
        BY MergedFrameFields DEF TimeInv
      <3> QED
        BY <3>1, <3>2
    <2>3. snap'.state /\ snap'.streamFields = t
      BY <2>1, <2>2, CommittedFields
    <2>4. t \in Nat /\ t >= 1 /\ snap'.asOf \in Nat /\ snap'.streamFields <= snap'.asOf
      BY <1>0 DEF TypeOK, Snapshot, Time, TimeInv, ServedTimeCovers
    <2>5. snap'.asOf >= 1
      BY <2>3, <2>4
    <2> QED
      BY <1>0, <2>1, <2>3, <2>5, MergeWrites DEF Reg!Next
  <1>4. ASSUME UNCHANGED <<clock, snap>> PROVE UNCHANGED Reg!register
    BY <1>4 DEF Reg!register, Served
  <1>5. CASE FetchPoll
    BY <1>4, <1>5 DEF FetchPoll
  <1>6. CASE OnStreamDisconnect
    BY <1>4, <1>6 DEF OnStreamDisconnect
  <1>7. ASSUME NEW s \in Subscribers,
               Subscribe(s) \/ Unsubscribe(s) \/ Receive(s) \/ Latest(s)
        PROVE  UNCHANGED Reg!register
    BY <1>4, <1>7 DEF Subscribe, Unsubscribe, Receive, Latest
  <1>8. CASE UNCHANGED vars
    BY <1>4, <1>8 DEF vars
  <1>9. ASSUME NEW fr \in Frames, MergeStream(fr) PROVE Reg!Next
    BY <1>3, <1>9 DEF MergeStream
  <1> QED
    BY <1>1, <1>2, <1>5, <1>6, <1>7, <1>8, <1>9 DEF Next, Reg!Next

\* Polls and frames, in any interleaving and with any reordering of the read loops,
\* implement the register the sinks are built on.
THEOREM CacheIsRegister == Spec => ImplementsRegister
  <1>1. Init => Reg!Init
    BY DEF Init, Empty, Served, Reg!Init, Reg!Nothing
  <1> QED
    BY <1>1, RegisterStep, TypeInit, TypeStep, TimeInit, TimeStep, PTL
    DEF Spec, ImplementsRegister, Reg!Spec
-----------------------------------------------------------------------------
(* The steps that touch what the merge decides.                             *)

\* The served snapshot and what is remembered about it.
merged == <<snap, pollAt, anchor, offline, drive, wake, sessions, woke>>

\* Only an answer, a merge of a poll and a merge of a frame touch it.
LEMMA StepKinds ==
    ASSUME TypeOK, [Next]_vars
    PROVE  \/ \E r \in PollResults : MergePoll(r)
           \/ \E fr \in Frames, t \in 1..clock : \E refused \in SUBSET Refusable(fr) :
                clock - t <= MaxSkew /\ Put(fr, t, refused)
           \/ FetchPoll
           \/ UNCHANGED merged /\ clock' \in {clock, clock + 1}
  <1>1. CASE Tick
    BY <1>1 DEF Tick, merged
  <1>2. CASE OnStreamDisconnect
    BY <1>2 DEF OnStreamDisconnect, merged
  <1>3. ASSUME NEW s \in Subscribers,
               Subscribe(s) \/ Unsubscribe(s) \/ Receive(s) \/ Latest(s)
        PROVE  UNCHANGED merged /\ clock' = clock
    BY <1>3 DEF Subscribe, Unsubscribe, Receive, Latest, merged
  <1>4. CASE UNCHANGED vars
    BY <1>4 DEF vars, merged
  <1> QED
    BY <1>1, <1>2, <1>3, <1>4 DEF Next, MergeStream

\* The anchor of a served field is the time of the served observation.
LEMMA AnchorStep ==
    TypeOK /\ TimeInv /\ AnchorsMatchServed /\ [Next]_vars => AnchorsMatchServed'
  <1> SUFFICES ASSUME TypeOK, TimeInv, AnchorsMatchServed, [Next]_vars
               PROVE  AnchorsMatchServed'
    OBVIOUS
  <1> USE FieldsAssumption
  <1>1. ASSUME NEW r \in PollResults, MergePoll(r) PROVE AnchorsMatchServed'
    <2> DEFINE s == MergedPoll(r, pollAt)
    <2>1. pollAt # 0 /\ snap' = Committed(s)
      BY <1>1 DEF MergePoll, Store
    <2>2. snap'.at = s.at
      BY <2>1, MergedPollType, CommittedFields
    <2>3. \A f \in Streamed : snap'.at[f] =
             IF f \in Held(pollAt) THEN snap.at[f] ELSE IF f \in r.has THEN pollAt ELSE 0
      BY <2>1, <2>2, MergedPollFields
    <2>4. \A f \in Anchored : anchor'[f] =
             IF f \notin Held(pollAt) /\ f \in r.has THEN pollAt ELSE anchor[f]
      BY <1>1 DEF MergePoll
    <2> QED
      BY <2>3, <2>4 DEF AnchorsMatchServed
  <1>2. ASSUME NEW fr \in Frames, NEW t \in 1..clock, NEW refused, Put(fr, t, refused)
        PROVE  AnchorsMatchServed'
    <2> DEFINE s == MergedFrame(fr, fr.has \ refused, t)
    <2>1. snap' = Committed(s)
      BY <1>2 DEF Put, Store
    <2>2. snap'.at = s.at
      BY <2>1, MergedFrameType, CommittedFields
    <2>3. \A f \in Streamed :
             snap'.at[f] = IF f \in fr.has \ refused THEN t ELSE snap.at[f]
      <3>1. \A f \in Streamed : s.at[f] = IF f \in fr.has \ refused THEN t ELSE snap.at[f]
        BY MergedFrameFields DEF TimeInv
      <3> QED
        BY <2>2, <3>1
    <2>4. \A f \in Anchored :
             anchor'[f] = IF f \in fr.has \ refused THEN t ELSE anchor[f]
      BY <1>2 DEF Put
    <2> QED
      BY <2>3, <2>4 DEF AnchorsMatchServed
  <1>3. ASSUME UNCHANGED <<snap, anchor>> PROVE AnchorsMatchServed'
    BY <1>3 DEF AnchorsMatchServed
  <1>4. CASE FetchPoll
    BY <1>3, <1>4 DEF FetchPoll
  <1> QED
    BY <1>1, <1>2, <1>3, <1>4, StepKinds DEF merged

\* A velocity check always measures from the observation it compares with.
THEOREM AnchorsSound == Spec => []AnchorsMatchServed
  <1>1. Init => AnchorsMatchServed
    BY FieldsAssumption DEF Init, Empty, AnchorsMatchServed
  <1> QED
    BY <1>1, TypeInit, TypeStep, TimeInit, TimeStep, AnchorStep, PTL DEF Spec

-----------------------------------------------------------------------------
(* A poll in flight while frames arrive.                                    *)

\* While a poll is in flight, a value observed after it was answered belongs to
\* the stream, whose last frame is at most MaxSkew older than any other frame:
\* the merge will see the stream as fresher and hold the value.
FlightInv ==
    pollAt # 0 => \A f \in Streamed :
        \/ snap.at[f] <= pollAt
        \/ f \in snap.present /\ snap.at[f] <= snap.streamFields + MaxSkew

\* What the poll in flight may find served stays within MaxSkew of it or protected.
LEMMA FlightStep == TypeOK /\ TimeInv /\ FlightInv /\ [Next]_vars => FlightInv'
  <1> SUFFICES ASSUME TypeOK, TimeInv, FlightInv, [Next]_vars
               PROVE  FlightInv'
    OBVIOUS
  <1>0. /\ clock \in Nat /\ pollAt \in Nat /\ snap.streamFields \in Nat /\ MaxSkew \in Nat
        /\ StaleAfter \in Nat /\ \A f \in Streamed : snap.at[f] \in Nat
        /\ \A f \in Streamed : snap.at[f] <= clock
    BY BoundsAssumption DEF TypeOK, Snapshot, Time, TimeInv, ServedTimeCovers
  <1>1. ASSUME NEW r \in PollResults, MergePoll(r) PROVE FlightInv'
    BY <1>1 DEF MergePoll, FlightInv
  <1>2. ASSUME NEW fr \in Frames, NEW t \in 1..clock, NEW refused, Put(fr, t, refused),
               clock - t <= MaxSkew
        PROVE  FlightInv'
    <2> DEFINE s == MergedFrame(fr, fr.has \ refused, t)
    <2>1. snap' = Committed(s) /\ pollAt' = pollAt
      BY <1>2 DEF Put, Store
    <2>2. s \in Snapshot
      BY MergedFrameType
    <2>3. /\ s.streamFields = t
          /\ \A f \in Streamed : s.at[f] = IF f \in fr.has \ refused THEN t ELSE snap.at[f]
          /\ fr.has \ refused \subseteq s.present
          /\ \A f \in snap.present : snap.state => f \in s.present
      BY MergedFrameFields DEF TimeInv
    <2>4. t \in Nat /\ t <= clock
      BY <1>0
    <2>5. ~(StaleAfter > 0 /\ clock - t > StaleAfter)
      BY <1>0, <1>2, <2>4, BoundsAssumption
    <2>6. Committed(s).present = s.present
      BY <2>2, <2>3, <2>5 DEF Committed, Snapshot
    <2>7. snap'.at = s.at /\ snap'.streamFields = t /\ snap'.present = s.present
      BY <2>1, <2>2, <2>3, <2>6, CommittedFields
    <2> HIDE DEF s
    <2>8. ASSUME pollAt # 0, NEW f \in Streamed
          PROVE  \/ snap'.at[f] <= pollAt
                 \/ f \in snap'.present /\ snap'.at[f] <= t + MaxSkew
      <3>1. CASE f \in fr.has \ refused
        <4>1. snap'.at[f] = t /\ f \in snap'.present
          BY <2>3, <2>7, <3>1
        <4> QED
          BY <1>0, <2>4, <4>1
      <3>2. CASE f \notin fr.has \ refused
        <4>1. snap'.at[f] = snap.at[f] /\ snap.at[f] <= t + MaxSkew
          <5>1. snap'.at[f] = snap.at[f]
            BY <2>3, <2>7, <3>2
          <5>2. snap.at[f] \in Nat /\ snap.at[f] <= clock
            BY <1>0
          <5> QED
            BY <1>0, <1>2, <2>4, <5>1, <5>2
        <4>2. CASE snap.state
          BY <1>0, <2>3, <2>7, <2>8, <4>1, <4>2 DEF FlightInv
        <4>3. CASE ~snap.state
          BY <1>0, <4>1, <4>3 DEF TimeInv, EmptyUntilData
        <4> QED
          BY <4>2, <4>3
      <3> QED
        BY <3>1, <3>2
    <2> QED
      BY <2>1, <2>7, <2>8 DEF FlightInv
  <1>3. CASE FetchPoll
    BY <1>0, <1>3 DEF FetchPoll, FlightInv
  <1>4. CASE UNCHANGED merged
    BY <1>4 DEF merged, FlightInv
  <1> QED
    BY <1>1, <1>2, <1>3, <1>4, StepKinds

\* A merged poll replaces nothing newer than itself by more than MaxSkew.
LEMMA NoRegressionStep ==
    TypeOK /\ TimeInv /\ FlightInv /\ [Next]_vars =>
        (PollMerged => \A f \in Streamed :
            snap'.at[f] # 0 => snap'.at[f] + MaxSkew >= snap.at[f])
  <1> SUFFICES ASSUME TypeOK, TimeInv, FlightInv, [Next]_vars, PollMerged,
                      NEW f \in Streamed, snap'.at[f] # 0
               PROVE  snap'.at[f] + MaxSkew >= snap.at[f]
    OBVIOUS
  <1>0. /\ clock \in Nat /\ pollAt \in Nat /\ snap.streamFields \in Nat /\ MaxSkew \in Nat
        /\ snap.at[f] \in Nat /\ pollAt # 0 /\ pollAt' = 0
    BY BoundsAssumption DEF TypeOK, Snapshot, Time, PollMerged
  <1>1. PICK r \in PollResults : MergePoll(r)
    <2>1. CASE FetchPoll
      BY <1>0, <2>1 DEF FetchPoll
    <2>2. ASSUME NEW fr, NEW t, NEW refused, Put(fr, t, refused) PROVE FALSE
      BY <1>0, <2>2 DEF Put
    <2>3. CASE UNCHANGED merged
      BY <1>0, <2>3 DEF merged
    <2> QED
      BY <2>1, <2>2, <2>3, StepKinds
  <1>2. snap'.at = MergedPoll(r, pollAt).at
    BY <1>0, <1>1, MergedPollType, CommittedFields DEF MergePoll, Store
  <1>3. snap'.at[f] =
          IF f \in Held(pollAt) THEN snap.at[f] ELSE IF f \in r.has THEN pollAt ELSE 0
    BY <1>0, <1>2, MergedPollFields
  <1>4. CASE f \in Held(pollAt)
    BY <1>0, <1>3, <1>4
  <1>5. CASE f \notin Held(pollAt)
    <2>1. snap'.at[f] = pollAt
      BY <1>3, <1>5
    <2>2. \/ snap.at[f] <= pollAt
          \/ f \in snap.present /\ snap.at[f] <= snap.streamFields + MaxSkew
      BY <1>0 DEF FlightInv
    <2>3. CASE snap.at[f] <= pollAt
      BY <1>0, <2>1, <2>3
    <2>4. CASE snap.state /\ f \in snap.present /\ snap.at[f] <= snap.streamFields + MaxSkew
      <3>1. ~(snap.streamFields > pollAt)
        BY <1>5, <2>4 DEF Held, StreamFresher
      <3> QED
        BY <1>0, <2>1, <2>4, <3>1
    <2>5. CASE ~snap.state
      BY <1>0, <2>1, <2>5 DEF TimeInv, EmptyUntilData
    <2> QED
      BY <2>2, <2>3, <2>4, <2>5
  <1> QED
    BY <1>4, <1>5

\* A poll that overlaps the stream never serves an older observation than the one
\* it replaces, beyond the reordering of two overlapping read loops.
THEOREM PollSafe == Spec => PollNeverRegresses
  <1>1. Init => FlightInv
    BY DEF Init, FlightInv
  <1>2. TypeOK /\ TimeInv /\ FlightInv /\ [Next]_vars =>
          [PollMerged => \A f \in Streamed :
             snap'.at[f] # 0 => snap'.at[f] + MaxSkew >= snap.at[f]]_vars
    BY NoRegressionStep
  <1> QED
    BY <1>1, <1>2, TypeInit, TypeStep, TimeInit, TimeStep, FlightStep, PTL
    DEF Spec, PollNeverRegresses
-----------------------------------------------------------------------------
(* Sessions, sleep and the run of offline polls.                            *)

\* No boundary has fired before the class is seeded; the wake latch is set once
\* a wake poll was asked for in this sleep; a latched lost drive is a run of
\* offline polls that never reached asleep.
SessionInv ==
    /\ DriveCountersBalance
    /\ ~drive.set => sessions.drives = 0
    /\ OneWakePollPerSleep
    /\ woke > 0 => wake.fired
    /\ snap.power # "asleep" => woke = 0
    /\ offline.driving => offline.count > 0 /\ snap.power # "asleep"

LostDriveStep == offline.driving /\ offline'.count > 0 => snap'.power # "asleep"

\* No drive is open and no wake poll was asked for at the start.
LEMMA SessionInit == Init => SessionInv
  BY DEF Init, Empty, SessionInv, DriveCountersBalance, OneWakePollPerSleep

\* Every step keeps the counters, the debouncers and the offline run in agreement.
LEMMA SessionStep ==
    TypeOK /\ SessionInv /\ [Next]_vars => SessionInv' /\ LostDriveStep
  <1> SUFFICES ASSUME TypeOK, SessionInv, [Next]_vars
               PROVE  SessionInv' /\ LostDriveStep
    OBVIOUS
  <1>0. /\ sessions.drives \in Int /\ woke \in 0..2 /\ drive.class \in BOOLEAN
        /\ drive.set \in BOOLEAN /\ offline.driving \in BOOLEAN /\ wake.fired \in BOOLEAN
        /\ offline.count \in Nat
    BY BoundsAssumption DEF TypeOK
  <1>1. ASSUME NEW r \in PollResults, MergePoll(r) PROVE SessionInv' /\ LostDriveStep
    <2> DEFINE s == MergedPoll(r, pollAt)
               run == OfflineRun(r.power)
               p == PollPower(r.power)
    <2>1. /\ snap' = Committed(s) /\ offline' = run /\ UNCHANGED <<drive, wake, sessions>>
          /\ woke' = IF p = "asleep" THEN woke ELSE 0
          /\ s \in Snapshot
      BY <1>1, MergedPollType DEF MergePoll, Store
    <2>2. s.power = p
      BY DEF MergedPoll
    <2>3. snap'.power = "asleep" <=> p = "asleep"
      BY <2>1, <2>2, CommittedFields
    <2>4. run.driving => r.power = "offline"
      BY DEF OfflineRun
    <2>5. run.driving => p # "asleep"
      BY <2>4 DEF PollPower
    <2>6. run.driving => run.count > 0
      BY <1>0, <2>4, BoundsAssumption DEF OfflineRun
    <2>7. offline.driving /\ run.count > 0 => run.driving
      BY <1>0 DEF OfflineRun, SessionInv
    <2>8. LostDriveStep
      BY <2>1, <2>3, <2>5, <2>7 DEF LostDriveStep
    <2>9. (woke > 0 => wake.fired)' /\ OneWakePollPerSleep'
      BY <1>0, <2>1 DEF SessionInv, OneWakePollPerSleep
    <2>10. (snap.power # "asleep" => woke = 0)'
           /\ (offline.driving => offline.count > 0 /\ snap.power # "asleep")'
      BY <2>1, <2>3, <2>5, <2>6
    <2> QED
      BY <2>1, <2>8, <2>9, <2>10 DEF SessionInv, DriveCountersBalance
  <1>2. ASSUME NEW fr \in Frames, NEW t \in 1..clock, NEW refused, Put(fr, t, refused)
        PROVE  SessionInv' /\ LostDriveStep
    <2> DEFINE s == MergedFrame(fr, fr.has \ refused, t)
               fireWake == ~(DriveFires(s, t) \/ ChargeEnded(fr)) /\ WakeFires(t)
    <2>1. /\ snap' = Committed(s) /\ offline' = offline /\ drive' = DriveAfter(s, t)
          /\ wake' = IF DriveFires(s, t) \/ ChargeEnded(fr) THEN wake ELSE WakeAfter(t)
          /\ woke' = IF Committed(s).power # "asleep" THEN 0
                     ELSE IF fireWake /\ woke < 2 THEN woke + 1 ELSE woke
          /\ s \in Snapshot
      BY <1>2, MergedFrameType DEF Put, Store
    <2>2. sessions'.drives = sessions.drives +
            (IF ~DriveFires(s, t) THEN 0 ELSE IF InDrive(s.gear) THEN 1 ELSE -1)
      BY <1>2 DEF Put
    <2>3. s.power = "asleep" => snap.power = "asleep"
      BY DEF MergedFrame, TypeOK, Snapshot
    <2>4. snap'.power = "asleep" => snap.power = "asleep"
      BY <2>1, <2>3, CommittedFields
    <2>5. InDrive(s.gear) \in BOOLEAN /\ DriveClass \in BOOLEAN
      BY <1>0 DEF InDrive, DriveClass
    <2>6. sessions.drives \in IF DriveClass THEN {0, 1} ELSE {-1, 0}
      BY <1>0 DEF SessionInv, DriveCountersBalance, DriveClass
    <2>7. /\ drive'.set
          /\ DriveFires(s, t) => drive'.class = InDrive(s.gear) /\ InDrive(s.gear) # DriveClass
          /\ ~DriveFires(s, t) => drive'.class = DriveClass
      BY <2>1 DEF DriveAfter, DriveFires
    <2>8. DriveCountersBalance'
      <3>1. CASE DriveFires(s, t)
        BY <1>0, <2>2, <2>5, <2>6, <2>7, <3>1 DEF DriveCountersBalance
      <3>2. CASE ~DriveFires(s, t)
        BY <1>0, <2>2, <2>6, <2>7, <3>2 DEF DriveCountersBalance
      <3> QED
        BY <3>1, <3>2
    <2>9. fireWake => ~wake.fired /\ wake'.fired
      BY <2>1 DEF WakeFires, WakeAfter, WakeRun
    <2>10. snap.power = "asleep" /\ wake.fired => wake'.fired
      BY <2>1 DEF WakeAfter, WakeRun
    <2>11. (woke > 0 => wake.fired)' /\ OneWakePollPerSleep'
      BY <1>0, <2>1, <2>4, <2>9, <2>10 DEF SessionInv, OneWakePollPerSleep
    <2>12. (snap.power # "asleep" => woke = 0)'
      BY <2>1
    <2>13. (offline.driving => offline.count > 0 /\ snap.power # "asleep")'
      BY <2>1, <2>4 DEF SessionInv
    <2>14. LostDriveStep
      BY <2>1, <2>13 DEF LostDriveStep
    <2> QED
      BY <2>7, <2>8, <2>11, <2>12, <2>13, <2>14 DEF SessionInv
  <1>3. ASSUME UNCHANGED <<snap, offline, drive, wake, sessions, woke>>
        PROVE  SessionInv' /\ LostDriveStep
    BY <1>3 DEF SessionInv, LostDriveStep, DriveCountersBalance, OneWakePollPerSleep
  <1>4. CASE FetchPoll
    BY <1>3, <1>4 DEF FetchPoll
  <1> QED
    BY <1>1, <1>2, <1>3, <1>4, StepKinds DEF merged

\* Drives opened and drives closed never differ by more than the open drive.
THEOREM DrivesBalance == Spec => []DriveCountersBalance
  <1>1. SessionInv => DriveCountersBalance
    BY DEF SessionInv
  <1> QED
    BY <1>1, TypeInit, TypeStep, SessionInit, SessionStep, PTL DEF Spec

\* A spell of sleep asks for at most one wake poll.
THEOREM OneWake == Spec => []OneWakePollPerSleep
  <1>1. SessionInv => OneWakePollPerSleep
    BY DEF SessionInv
  <1> QED
    BY <1>1, TypeInit, TypeStep, SessionInit, SessionStep, PTL DEF Spec

\* A run of offline polls that began while driving never presents the car asleep.
THEOREM LostDriveKept == Spec => LostDriveHeldOffline
  <1>1. TypeOK /\ SessionInv /\ [Next]_vars =>
          [offline.driving /\ offline'.count > 0 => snap'.power # "asleep"]_vars
    BY SessionStep DEF LostDriveStep
  <1> QED
    BY <1>1, TypeInit, TypeStep, SessionInit, SessionStep, PTL
    DEF Spec, LostDriveHeldOffline

-----------------------------------------------------------------------------
(* Change notification.                                                     *)

\* Storing a snapshot leaves no subscriber behind without a signal.
LEMMA StoreSignals ==
    ASSUME TypeOK, NoChangeLost, NEW new, Store(new)
    PROVE  NoChangeLost'
  <1> SUFFICES ASSUME NEW s \in Subscribers, reader'[s].behind
               PROVE  subs'[s].events > 0 \/ reader'[s].woken
    BY DEF NoChangeLost
  <1>0. subs[s].events \in 0..SubBuf /\ SubBuf \in Nat \ {0}
    BY BoundsAssumption DEF TypeOK
  <1>1. /\ reader'[s].woken = reader[s].woken
        /\ reader[s].behind \/ (subs[s].on /\ Changed(snap, new))
    BY DEF Store, Behind, TypeOK
  <1>2. subs'[s].events >= subs[s].events
    BY <1>0 DEF Store, Notified, TypeOK
  <1>3. CASE reader[s].behind
    <2>1. subs[s].events > 0 \/ reader[s].woken
      BY <1>3 DEF NoChangeLost
    <2>2. subs'[s].events \in Nat
      BY <1>0 DEF Store, Notified, TypeOK
    <2> QED
      BY <1>0, <1>1, <1>2, <2>1, <2>2
  <1>4. CASE subs[s].on /\ Changed(snap, new)
    BY <1>0, <1>4 DEF Store, Notified, TypeOK
  <1> QED
    BY <1>1, <1>3, <1>4

\* Every step leaves a subscriber that is behind with a signal or about to read.
LEMMA SignalStep == TypeOK /\ NoChangeLost /\ [Next]_vars => NoChangeLost'
  <1> SUFFICES ASSUME TypeOK, NoChangeLost, [Next]_vars PROVE NoChangeLost'
    OBVIOUS
  <1>1. ASSUME UNCHANGED <<subs, reader>> PROVE NoChangeLost'
    BY <1>1 DEF NoChangeLost
  <1>2. CASE Tick \/ FetchPoll \/ OnStreamDisconnect \/ UNCHANGED vars
    BY <1>1, <1>2 DEF Tick, FetchPoll, OnStreamDisconnect, vars
  <1>3. ASSUME NEW r \in PollResults, MergePoll(r) PROVE NoChangeLost'
    BY <1>3, StoreSignals DEF MergePoll
  <1>4. ASSUME NEW fr \in Frames, MergeStream(fr) PROVE NoChangeLost'
    BY <1>4, StoreSignals DEF MergeStream, Put
  <1>5. ASSUME NEW s \in Subscribers,
               Subscribe(s) \/ Unsubscribe(s) \/ Receive(s) \/ Latest(s)
        PROVE  NoChangeLost'
    <2>1. CASE Subscribe(s) \/ Unsubscribe(s)
      BY <2>1 DEF Subscribe, Unsubscribe, NoChangeLost, TypeOK
    <2>2. CASE Receive(s)
      BY <2>2 DEF Receive, NoChangeLost, TypeOK
    <2>3. CASE Latest(s)
      BY <2>3 DEF Latest, NoChangeLost, TypeOK
    <2> QED
      BY <1>5, <2>1, <2>2, <2>3
  <1> QED
    BY <1>2, <1>3, <1>4, <1>5 DEF Next

\* A dropped signal loses no change: a subscriber that is behind is, or will be,
\* on its way to reading the latest snapshot.
THEOREM ChangesReachSubscribers == Spec => []NoChangeLost
  <1>1. Init => NoChangeLost
    BY DEF Init, NoChangeLost
  <1> QED
    BY <1>1, TypeInit, TypeStep, SignalStep, PTL DEF Spec

-----------------------------------------------------------------------------
(* The REST sink on the cache.                                              *)

\* A write of the register is one that the handlers' specification spells out.
LEMMA WriteSpelledOut == ASSUME TypeOK', Reg!Merge PROVE Rest!Write
  <1> DEFINE k == Rest!Content(Served')
             t == Served'.asOf
             obs == [f \in k.has |-> Served'.at[f]]
  <1>1. /\ Served'.state /\ t \in 0 + 1..clock /\ t >= Served.asOf /\ clock' = clock
        /\ Served'.at \in [Streamed -> {0} \union 0 + 1..t]
        /\ k \in [power: Power, gear: Gear, live: Live, has: SUBSET Streamed]
    BY DEF Reg!Merge, Reg!Content, Rest!Content
  <1>2. /\ Served'.state = TRUE /\ k.has = {f \in Streamed : Served'.at[f] # 0}
        /\ k.power = Served'.power /\ k.gear = Served'.gear /\ k.live = Served'.live
    <2>1. snap'.state \in BOOLEAN
      BY DEF TypeOK, Snapshot
    <2> QED
      BY <1>1, <2>1 DEF Served, Rest!Content
  <1>3. \A f \in k.has : Served'.at[f] \in 0 + 1..t
    BY <1>1, <1>2
  <1>4. obs \in [k.has -> 0 + 1..t]
    BY <1>3
  <1>5. Served'.at = [f \in Streamed |-> IF f \in k.has THEN obs[f] ELSE 0]
    <2> DEFINE at == [f \in Streamed |-> IF f \in k.has THEN obs[f] ELSE 0]
    <2>1. Served'.at = [f \in Streamed |-> Served'.at[f]]
      BY <1>1
    <2>2. \A f \in Streamed : Served'.at[f] = at[f]
      BY <1>2
    <2> HIDE DEF k, obs
    <2> QED
      BY <2>1, <2>2
  <1>6. Served' = [state |-> TRUE, power |-> k.power, gear |-> k.gear,
                   at |-> [f \in Streamed |-> IF f \in k.has THEN obs[f] ELSE 0],
                   live |-> k.live, asOf |-> t]
    <2>1. Served' = [state |-> Served'.state, power |-> Served'.power, gear |-> Served'.gear,
                     at |-> Served'.at, live |-> Served'.live, asOf |-> Served'.asOf]
      BY DEF Served
    <2> HIDE DEF k, obs, t
    <2> QED
      BY <2>1, <1>2, <1>5 DEF t
  <1>7. Rest!Merge
    BY <1>1 DEF Rest!Merge
  <1> HIDE DEF k, obs, t
  <1> QED
    BY <1>1, <1>4, <1>6, <1>7 DEF Rest!Write

\* A step of the cache is a write of the register, the passing of time, or a step that
\* no handler can see.
LEMMA CacheStepMaps ==
    ASSUME TypeOK, TimeInv, CacheStep PROVE [Rest!RestNext]_(Rest!restVars)
  <1>1. [Reg!Next]_(Reg!register) /\ TypeOK'
    BY RegisterStep, TypeStep DEF CacheStep
  <1>2. CASE UNCHANGED <<clock, Served>>
    BY <1>2 DEF CacheStep, rest, Rest!restVars
  <1>3. CASE ~UNCHANGED <<clock, Served>>
    <2>1. Reg!Merge \/ Reg!Tick
      BY <1>1, <1>3 DEF Reg!Next, Reg!register
    <2>2. answer' = Rest!NoAnswer /\ UNCHANGED <<Rest!entry, req, Rest!history>>
      BY <1>3 DEF CacheStep, Rest!entry, Rest!history
    <2>3. CASE Reg!Merge
      BY <1>1, <2>2, <2>3, WriteSpelledOut DEF Rest!RestNext
    <2>4. CASE Reg!Tick
      <3>1. Rest!Tick
        BY <2>4 DEF Reg!Tick, Rest!Tick
      <3> QED
        BY <2>2, <3>1 DEF Rest!RestNext
    <2> QED
      BY <2>1, <2>3, <2>4
  <1> QED
    BY <1>2, <1>3

\* What RestSink and Register assume of their constants holds of the cache's, if what is
\* told without its fraction is streamed, and nothing streamed has the name of what the
\* sink derives.
LEMMA SinkSuitsCache ==
    ASSUME Whole \subseteq Streamed, "energy" \notin Streamed, "shift" \notin Streamed
    PROVE  /\ 0 \in Nat /\ MaxClock \in Nat /\ 0 < MaxClock
           /\ "unknown" \in Power /\ "none" \in Gear /\ "none" \in Live
           /\ [power: Power, gear: Gear, live: Live, has: SUBSET Streamed]
                 \subseteq [power: Power, gear: Gear, live: Live, has: SUBSET Streamed]
           /\ {} \subseteq Streamed /\ Whole \subseteq Streamed \ {} /\ StaleAfter \in Nat
           /\ "energy" \notin Streamed /\ "shift" \notin Streamed
  <1>1. MaxClock \in Nat /\ 0 < MaxClock /\ StaleAfter \in Nat
    BY BoundsAssumption
  <1> QED
    BY <1>1 DEF Power, Gear, Live

\* The REST handlers running on the merger are the handlers running on the register:
\* every poll, frame, tick and request maps to a step of RestSink or to none.
THEOREM SinkOnCache == ComposedSpec => SinkOnRegister
  <1>1. ComposedInit => Init /\ Rest!RestInit
    BY DEF ComposedInit
  <1>2. [ComposedNext]_<<vars, rest>> => [Next]_vars
    BY DEF ComposedNext, CacheStep, ServeStep, vars
  <1>3. TypeOK /\ TimeInv /\ [ComposedNext]_<<vars, rest>>
           => [Rest!RestNext]_(Rest!restVars)
    <2> SUFFICES ASSUME TypeOK, TimeInv, [ComposedNext]_<<vars, rest>>
                 PROVE  [Rest!RestNext]_(Rest!restVars)
      OBVIOUS
    <2>1. CASE CacheStep
      BY <2>1, CacheStepMaps
    <2>2. CASE ServeStep
      BY <2>2 DEF ServeStep, Rest!RestNext
    <2>3. CASE UNCHANGED <<vars, rest>>
      BY <2>3 DEF vars, rest, Rest!restVars, Served
    <2> QED
      BY <2>1, <2>2, <2>3 DEF ComposedNext
  <1> QED
    BY <1>1, <1>2, <1>3, TypeInit, TypeStep, TimeInit, TimeStep, PTL
    DEF ComposedSpec, SinkOnRegister, Rest!RestSpec
=============================================================================
