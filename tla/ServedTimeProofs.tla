-------------------------- MODULE ServedTimeProofs --------------------------
(***************************************************************************)
(* Proofs about what a restart of the cache restores, for any number of     *)
(* vehicles and read loops, any interval, depth and skew.                   *)
(***************************************************************************)
EXTENDS ServedTime, TLAPS

\* Later is the greater of two times.
LEMMA LaterIsMax ==
    ASSUME NEW a \in Nat, NEW b \in Nat
    PROVE  Later(a, b) \in Nat /\ Later(a, b) >= a /\ Later(a, b) >= b
           /\ (Later(a, b) = a \/ Later(a, b) = b)
  BY DEF Later

\* A push keeps a ring a ring: it holds the new entry and older ones, at most
\* Depth of them.
LEMMA PushedRing ==
    ASSUME NEW ring \in Ring, NEW e \in Entry
    PROVE  /\ Pushed(ring, e) \in Ring
           /\ \A i \in 1..Len(Pushed(ring, e)) :
                Pushed(ring, e)[i] = e \/ \E j \in 1..Len(ring) : Pushed(ring, e)[i] = ring[j]
  <1> DEFINE longer == Append(ring, e)
  <1>1. ring \in Seq(Entry) /\ Len(ring) \in Nat /\ Len(ring) <= Depth /\ Depth \in Nat \ {0}
    BY ConstantsAssumption DEF Ring
  <1>2. longer \in Seq(Entry) /\ Len(longer) = Len(ring) + 1
        /\ \A i \in 1..Len(longer) : longer[i] = IF i <= Len(ring) THEN ring[i] ELSE e
    BY <1>1
  <1>3. CASE Len(longer) <= Depth
    BY <1>1, <1>2, <1>3 DEF Pushed, Ring
  <1>4. CASE Len(longer) > Depth
    <2>1. longer # <<>>
      BY <1>1, <1>2
    <2>2. Tail(longer) \in Seq(Entry) /\ Len(Tail(longer)) = Len(longer) - 1
          /\ \A i \in 1..Len(Tail(longer)) : Tail(longer)[i] = longer[i + 1]
      BY <1>2, <2>1
    <2>3. Pushed(ring, e) = Tail(longer)
      BY <1>4 DEF Pushed
    <2>4. Len(Tail(longer)) = Len(ring)
      BY <1>1, <1>2, <2>2
    <2>5. ASSUME NEW i \in 1..Len(ring)
          PROVE  Tail(longer)[i] = e \/ \E j \in 1..Len(ring) : Tail(longer)[i] = ring[j]
      <3>1. Tail(longer)[i] = longer[i + 1] /\ i + 1 \in 1..Len(longer)
        BY <1>1, <1>2, <2>2, <2>4
      <3>2. CASE i + 1 <= Len(ring)
        <4>1. Tail(longer)[i] = ring[i + 1] /\ i + 1 \in 1..Len(ring)
          BY <1>1, <1>2, <3>1, <3>2
        <4> QED
          BY <4>1
      <3>3. CASE ~(i + 1 <= Len(ring))
        BY <1>2, <3>1, <3>3
      <3> QED
        BY <3>2, <3>3
    <2> QED
      BY <1>1, <2>2, <2>3, <2>4, <2>5 DEF Ring
  <1> QED
    BY <1>1, <1>2, <1>3, <1>4
-----------------------------------------------------------------------------
(* Type correctness.                                                        *)

Store(F) == [mem: [Vehicles -> F], file: [Vehicles -> F], flushed: Time, failed: BOOLEAN]

\* Writing a store, or not, keeps it a store.
LEMMA PersistedType ==
    ASSUME TypeOK, NEW F, NEW store \in Store(F), NEW ok \in BOOLEAN
    PROVE  /\ Persisted(store, ok) \in Store(F)
           /\ Persisted(store, ok).mem = store.mem
           /\ Persisted(store, ok).flushed = clock
           /\ Persisted(store, ok).failed = ~ok
           /\ Persisted(store, ok).file = IF ok THEN store.mem ELSE store.file
  <1>1. clock \in Time
    BY ConstantsAssumption DEF TypeOK, Time
  <1>2. store.mem \in [Vehicles -> F] /\ store.file \in [Vehicles -> F]
    BY DEF Store
  <1>3. (~ok) \in BOOLEAN
    OBVIOUS
  <1>4. (IF ok THEN store.mem ELSE store.file) \in [Vehicles -> F]
    BY <1>2
  <1>5. Persisted(store, ok) \in Store(F)
    BY <1>1, <1>2, <1>3, <1>4 DEF Persisted, Store
  <1>6. /\ Persisted(store, ok).mem = store.mem
        /\ Persisted(store, ok).flushed = clock
        /\ Persisted(store, ok).failed = ~ok
        /\ Persisted(store, ok).file = IF ok THEN store.mem ELSE store.file
    BY DEF Persisted
  <1> QED
    BY <1>5, <1>6

\* Advance raises one mark in memory and, when due, writes them all.
LEMMA AdvancedFields ==
    ASSUME TypeOK, NEW v \in Vehicles, NEW at \in Nat, NEW ok \in BOOLEAN
    PROVE  /\ Advanced(v, at, ok) \in Store(Time)
           /\ Advanced(v, at, ok).mem =
                [marks.mem EXCEPT ![v] = IF at <= marks.mem[v] THEN @ ELSE at]
           /\ Advanced(v, at, ok).file \in {marks.file, Advanced(v, at, ok).mem}
           /\ \/ at <= marks.mem[v] /\ Advanced(v, at, ok) = marks
              \/ /\ ~(at <= marks.mem[v]) /\ Due(marks)
                 /\ Advanced(v, at, ok).flushed = clock /\ Advanced(v, at, ok).failed = ~ok
                 /\ ok => Advanced(v, at, ok).file = Advanced(v, at, ok).mem
              \/ /\ ~(at <= marks.mem[v]) /\ ~Due(marks)
                 /\ Advanced(v, at, ok).flushed = marks.flushed
                 /\ Advanced(v, at, ok).failed = marks.failed
                 /\ Advanced(v, at, ok).file = marks.file
  <1>1. marks \in Store(Time)
    BY DEF TypeOK, Store
  <1> DEFINE new == [marks EXCEPT !.mem[v] = at]
  <1>2. new \in Store(Time) /\ new.file = marks.file /\ new.flushed = marks.flushed
        /\ new.failed = marks.failed /\ new.mem = [marks.mem EXCEPT ![v] = at]
    BY <1>1 DEF Store, Time
  <1>3. CASE at <= marks.mem[v]
    <2>1. Advanced(v, at, ok) = marks
      BY <1>3 DEF Advanced
    <2>2. marks.mem = [marks.mem EXCEPT ![v] = IF at <= marks.mem[v] THEN @ ELSE at]
      BY <1>1, <1>3 DEF Store
    <2> QED
      BY <1>1, <1>3, <2>1, <2>2
  <1>4. CASE ~(at <= marks.mem[v]) /\ Due(marks)
    <2>1. Advanced(v, at, ok) = Persisted(new, ok)
      BY <1>4 DEF Advanced
    <2>2. [marks.mem EXCEPT ![v] = IF at <= marks.mem[v] THEN @ ELSE at]
            = [marks.mem EXCEPT ![v] = at]
      BY <1>4
    <2> HIDE DEF new
    <2> QED
      BY <1>2, <1>4, <2>1, <2>2, PersistedType
  <1>5. CASE ~(at <= marks.mem[v]) /\ ~Due(marks)
    <2>1. Advanced(v, at, ok) = new
      BY <1>5 DEF Advanced
    <2>2. [marks.mem EXCEPT ![v] = IF at <= marks.mem[v] THEN @ ELSE at]
            = [marks.mem EXCEPT ![v] = at]
      BY <1>5
    <2> QED
      BY <1>2, <1>5, <2>1, <2>2
  <1> QED
    BY <1>3, <1>4, <1>5

\* The snapshots handed to commit are times, and the stamp is a time that covers
\* them.
LEMMA OutType ==
    ASSUME TypeOK, NEW v \in Vehicles, NEW t \in Recent
    PROVE  /\ PollOut(v, t) \in Times /\ FrameOut(v, t) \in Times
           /\ PollOut(v, t).data /\ FrameOut(v, t).data
           /\ PollOut(v, t).fetchedAt = t /\ PollOut(v, t).streamFields = snap[v].streamFields
           /\ PollOut(v, t).asOf = 0
           /\ FrameOut(v, t).streamFields = t
           /\ FrameOut(v, t).fetchedAt \in {t, snap[v].fetchedAt}
           /\ FrameOut(v, t).asOf \in {0, snap[v].asOf}
  <1>1. t \in Nat
    BY ConstantsAssumption DEF Recent, TypeOK
  <1> QED
    BY <1>1 DEF PollOut, FrameOut, TypeOK, Times, Time

\* What commit stamps is a time.
LEMMA StampType ==
    ASSUME TypeOK, NEW v \in Vehicles, NEW s \in Times
    PROVE  /\ Stamp(v, s) \in Nat /\ Stamp(v, s) >= snap[v].asOf
           /\ Stamp(v, s) >= s.fetchedAt /\ Stamp(v, s) >= s.streamFields
           /\ Stamp(v, s) \in {snap[v].asOf, s.fetchedAt, s.streamFields}
           /\ AsOfTime(s) \in Nat
           /\ AsOfTime(s) \in {s.asOf, s.fetchedAt, s.streamFields}
  <1>1. snap[v].asOf \in Nat /\ s.asOf \in Nat /\ s.fetchedAt \in Nat /\ s.streamFields \in Nat
    BY DEF TypeOK, Times, Time
  <1> DEFINE newest == Later(s.fetchedAt, s.streamFields)
  <1>2. newest \in Nat /\ newest >= s.fetchedAt /\ newest >= s.streamFields
        /\ newest \in {s.fetchedAt, s.streamFields}
    BY <1>1, LaterIsMax
  <1>3. Stamp(v, s) = Later(snap[v].asOf, newest)
    BY DEF Stamp
  <1>4. AsOfTime(s) \in {s.asOf, newest}
    BY DEF AsOfTime
  <1> HIDE DEF newest
  <1>5. Stamp(v, s) \in Nat /\ Stamp(v, s) >= snap[v].asOf /\ Stamp(v, s) >= newest
        /\ Stamp(v, s) \in {snap[v].asOf, newest}
    <2> DEFINE old == snap[v].asOf
    <2>1. old \in Nat /\ Stamp(v, s) = Later(old, newest)
      BY <1>1, <1>3
    <2> HIDE DEF old
    <2>2. /\ Later(old, newest) \in Nat /\ Later(old, newest) >= old
          /\ Later(old, newest) >= newest
          /\ (Later(old, newest) = old \/ Later(old, newest) = newest)
      BY <1>2, <2>1, LaterIsMax
    <2>3. old = snap[v].asOf
      BY DEF old
    <2> QED
      BY <2>1, <2>2, <2>3
  <1>6. Stamp(v, s) >= s.fetchedAt /\ Stamp(v, s) >= s.streamFields
    BY <1>1, <1>2, <1>5
  <1>7. /\ Stamp(v, s) \in {snap[v].asOf, s.fetchedAt, s.streamFields}
        /\ AsOfTime(s) \in {s.asOf, s.fetchedAt, s.streamFields}
    BY <1>2, <1>4, <1>5, Zenon
  <1>8. AsOfTime(s) \in Nat
    BY <1>1, <1>7
  <1> QED
    BY <1>5, <1>6, <1>7, <1>8

\* A merge keeps the types of what it touches.
LEMMA MergeType ==
    ASSUME TypeOK, NEW v \in Vehicles, NEW k \in {"poll"} \union Loops, NEW out \in Times,
           Merge(<<v, k>>, out)
    PROVE  TypeOK'
  <1> DEFINE w == <<v, k>>
  <1>1. w \in Writers /\ w[1] = v
    BY DEF Writers
  <1>2. PICK ok \in BOOLEAN :
          /\ snap' = [snap EXCEPT ![v] = [out EXCEPT !.asOf = Stamp(v, out)]]
          /\ marks' = Advanced(v, Stamp(v, out), ok)
          /\ returned' = [returned EXCEPT ![w] = [emits |-> AsOfTime(out), at |-> 0]]
          /\ UNCHANGED <<clock, phase, rings, appendedAt>>
    BY <1>1 DEF Merge
  <1>3. Stamp(v, out) \in Nat /\ AsOfTime(out) \in Nat
    BY StampType
  <1>4. snap' \in [Vehicles -> Times]
    BY <1>2, <1>3 DEF TypeOK, Times, Time
  <1>5. marks' \in Store(Time)
    BY <1>2, <1>3, AdvancedFields
  <1>6. [emits |-> AsOfTime(out), at |-> 0] \in Entry
    BY <1>3 DEF Entry, Time
  <1>7. returned' \in [Writers -> Entry]
    BY <1>2, <1>6 DEF TypeOK
  <1> QED
    BY <1>2, <1>4, <1>5, <1>7 DEF TypeOK, Store

\* The first process starts with every variable in its type.
LEMMA TypeInit == Init => TypeOK
  <1> SUFFICES ASSUME Init PROVE TypeOK
    OBVIOUS
  <1>1. << >> \in Ring
    BY ConstantsAssumption DEF Ring
  <1>2. NoEntry \in Entry
    BY DEF NoEntry, Entry, Time
  <1>3. /\ snap \in [Vehicles -> Times] /\ marks \in Store(Time)
    BY DEF Init, Times, Time, Store
  <1>4. rings \in Store(Ring) /\ returned \in [Writers -> Entry]
    BY <1>1, <1>2 DEF Init, Store, Time
  <1> QED
    BY <1>3, <1>4, ConstantsAssumption DEF Init, TypeOK, Store, Time

\* No merge, append, flush, crash or start takes a variable out of its type.
LEMMA TypeStep == TypeOK /\ [Next]_vars => TypeOK'
  <1> SUFFICES ASSUME TypeOK, [Next]_vars PROVE TypeOK'
    OBVIOUS
  <1>0. marks \in Store(Time) /\ rings \in Store(Ring) /\ clock \in Nat
    BY ConstantsAssumption DEF TypeOK, Store
  <1>1. CASE Tick
    BY <1>1, ConstantsAssumption DEF Tick, TypeOK
  <1>2. ASSUME NEW v \in Vehicles, MergePoll(v) PROVE TypeOK'
    BY <1>2, OutType, MergeType DEF MergePoll
  <1>3. ASSUME NEW v \in Vehicles, NEW l \in Loops, PutFrame(v, l) PROVE TypeOK'
    BY <1>3, OutType, MergeType DEF PutFrame
  <1>4. ASSUME NEW w \in Writers, AppendRing(w) PROVE TypeOK'
    <2> DEFINE v == w[1]
               e == [returned[w] EXCEPT !.at = clock]
               new == [rings EXCEPT !.mem[v] = Pushed(rings.mem[v], e)]
    <2>1. v \in Vehicles
      BY DEF Writers
    <2>2. e \in Entry /\ rings.mem[v] \in Ring
      BY <1>0, <2>1 DEF TypeOK, Entry, Time, Store
    <2>3. new \in Store(Ring)
      BY <1>0, <2>2, PushedRing DEF Store
    <2>4. PICK ok \in BOOLEAN : rings' = IF Due(rings) THEN Persisted(new, ok) ELSE new
      BY <1>4 DEF AppendRing
    <2> HIDE DEF new
    <2>5. rings' \in Store(Ring)
      BY <2>3, <2>4, PersistedType
    <2>6. NoEntry \in Entry
      BY DEF NoEntry, Entry, Time
    <2> QED
      BY <1>0, <1>4, <2>5, <2>6 DEF AppendRing, TypeOK, Store, Time
  <1>5. CASE FlushAsOf
    <2>1. marks' \in Store(Time)
      BY <1>0, <1>5, PersistedType DEF FlushAsOf
    <2> QED
      BY <1>5, <2>1 DEF FlushAsOf, TypeOK, Store
  <1>6. CASE FlushReplay
    <2>1. rings' \in Store(Ring)
      BY <1>0, <1>6, PersistedType DEF FlushReplay
    <2> QED
      BY <1>6, <2>1 DEF FlushReplay, TypeOK, Store
  <1>7. CASE Down
    <2>1. NoEntry \in Entry
      BY DEF NoEntry, Entry, Time
    <2>2. marks' \in Store(Time) /\ rings' \in Store(Ring)
      BY <1>0, <1>7 DEF Down, Store, Time
    <2>3. snap' \in [Vehicles -> Times] /\ returned' \in [Writers -> Entry]
      BY <1>7, <2>1 DEF Down, Times, Time
    <2> QED
      BY <1>7, <2>2, <2>3 DEF Down, TypeOK, Store, Time
  <1>8. CASE Boot
    <2>1. snap' \in [Vehicles -> Times]
      BY <1>0, <1>8 DEF Boot, TypeOK, Times, Store
    <2> QED
      BY <1>8, <2>1 DEF Boot, TypeOK
  <1>9. CASE UNCHANGED vars
    BY <1>9 DEF vars, TypeOK
  <1> QED
    BY <1>1, <1>2, <1>3, <1>4, <1>5, <1>6, <1>7, <1>8, <1>9 DEF Next

\* Every variable keeps its type: no ring outgrows its depth.
THEOREM TypeCorrect == Spec => []TypeOK
  BY TypeInit, TypeStep, PTL DEF Spec
-----------------------------------------------------------------------------
(* The persisted marks.  In memory a mark is the served time; what the file  *)
(* lacks of it was served after the last write and before the next was due.  *)

TimesPast ==
    \A v \in Vehicles : snap[v].fetchedAt <= clock /\ snap[v].streamFields <= clock
                        /\ snap[v].asOf <= clock
                        /\ marks.mem[v] <= clock /\ marks.file[v] <= clock

MarksFollow ==
    \A v \in Vehicles : marks.mem[v] = IF phase = "down" THEN marks.file[v] ELSE snap[v].asOf

MarksSaved ==
    ~marks.failed => \A v \in Vehicles : marks.mem[v] # marks.file[v]
        => marks.flushed # 0 /\ marks.mem[v] < marks.flushed + FlushEvery

MarksInv == TypeOK /\ TimesPast /\ MarksFollow /\ MarksSaved

\* Nothing is served before anything was observed.
LEMMA MarksInit == Init => MarksInv
  <1> SUFFICES ASSUME Init PROVE MarksInv
    OBVIOUS
  <1>1. TypeOK
    BY TypeInit
  <1>2. TimesPast /\ MarksFollow /\ MarksSaved
    BY DEF Init, TimesPast, MarksFollow, MarksSaved
  <1> QED
    BY <1>1, <1>2 DEF MarksInv

\* A merge advances the served time and its mark together.
LEMMA MarksMerge ==
    ASSUME MarksInv, NEW v \in Vehicles, NEW k \in {"poll"} \union Loops, NEW out \in Times,
           out.fetchedAt <= clock, out.streamFields <= clock,
           Merge(<<v, k>>, out)
    PROVE  TimesPast' /\ MarksFollow' /\ MarksSaved'
  <1> DEFINE at == Stamp(v, out)
  <1>1. PICK ok \in BOOLEAN :
          /\ phase # "down"
          /\ snap' = [snap EXCEPT ![v] = [out EXCEPT !.asOf = at]]
          /\ marks' = Advanced(v, at, ok)
          /\ UNCHANGED <<clock, phase>>
    BY DEF Merge
  <1>2. /\ TypeOK /\ clock \in Nat /\ FlushEvery \in Nat \ {0}
        /\ marks.mem \in [Vehicles -> Nat] /\ marks.file \in [Vehicles -> Nat]
        /\ marks.flushed \in Nat
        /\ snap \in [Vehicles -> Times]
    BY ConstantsAssumption DEF MarksInv, TypeOK, Time
  <1>3. at \in Nat /\ at >= snap[v].asOf /\ at <= clock
    BY <1>2, StampType DEF MarksInv, TimesPast
  <1> HIDE DEF at
  <1>4. /\ snap'[v].asOf = at /\ snap'[v].fetchedAt = out.fetchedAt
        /\ snap'[v].streamFields = out.streamFields
        /\ \A u \in Vehicles \ {v} : snap'[u] = snap[u]
    BY <1>1, <1>2 DEF Times
  <1>6. marks.mem[v] = snap[v].asOf
    BY <1>1 DEF MarksInv, MarksFollow
  <1>7. /\ marks'.mem = [marks.mem EXCEPT ![v] = IF at <= marks.mem[v] THEN @ ELSE at]
        /\ marks'.file \in {marks.file, marks'.mem}
        /\ \/ at <= marks.mem[v] /\ marks' = marks
           \/ /\ Due(marks)
              /\ marks'.flushed = clock /\ marks'.failed = ~ok
              /\ ok => marks'.file = marks'.mem
           \/ /\ ~Due(marks)
              /\ marks'.flushed = marks.flushed
              /\ marks'.failed = marks.failed
              /\ marks'.file = marks.file
    BY <1>1, <1>2, <1>3, AdvancedFields
  <1>8. marks'.mem[v] = at /\ \A u \in Vehicles \ {v} : marks'.mem[u] = marks.mem[u]
    BY <1>2, <1>3, <1>6, <1>7
  <1>5. TimesPast'
    <2>1. TimesPast /\ clock' = clock
      BY <1>1 DEF MarksInv
    <2>2. \A u \in Vehicles : marks'.mem[u] <= clock
      BY <1>3, <1>8, <2>1 DEF TimesPast
    <2>3. \A u \in Vehicles : marks'.file[u] <= clock
      BY <1>7, <2>1, <2>2 DEF TimesPast
    <2>4. \A u \in Vehicles : snap'[u].fetchedAt <= clock /\ snap'[u].streamFields <= clock
                              /\ snap'[u].asOf <= clock
      BY <1>3, <1>4, <2>1 DEF TimesPast
    <2> QED
      BY <2>1, <2>2, <2>3, <2>4 DEF TimesPast
  <1>9. MarksFollow'
    BY <1>1, <1>4, <1>8 DEF MarksInv, MarksFollow
  <1>10. MarksSaved'
    <2>1. CASE marks' = marks
      BY <2>1 DEF MarksInv, MarksSaved
    <2>2. CASE marks'.failed = ~ok /\ (ok => marks'.file = marks'.mem)
      BY <2>2 DEF MarksSaved
    <2>3. CASE /\ ~Due(marks)
               /\ marks'.flushed = marks.flushed
               /\ marks'.failed = marks.failed
               /\ marks'.file = marks.file
      <3>1. marks.flushed # 0 /\ clock < marks.flushed + FlushEvery
        BY <1>2, <2>3 DEF Due
      <3>2. at < marks.flushed + FlushEvery
        BY <1>2, <1>3, <3>1
      <3> QED
        BY <1>8, <2>3, <3>1, <3>2 DEF MarksInv, MarksSaved
    <2> QED
      BY <1>7, <2>1, <2>2, <2>3
  <1> QED
    BY <1>5, <1>9, <1>10

\* Every step keeps the marks in agreement with what is served and what is on disk.
LEMMA MarksStep == MarksInv /\ [Next]_vars => MarksInv'
  <1> SUFFICES ASSUME MarksInv, [Next]_vars PROVE MarksInv'
    OBVIOUS
  <1>0. /\ TypeOK' /\ TypeOK /\ clock \in Nat /\ MaxClock \in Nat
        /\ snap \in [Vehicles -> Times]
        /\ marks \in Store(Time)
    BY TypeStep, ConstantsAssumption DEF MarksInv, TypeOK, Store
  <1>1. CASE Tick
    <2>1. \A v \in Vehicles : snap[v].fetchedAt \in Nat /\ snap[v].streamFields \in Nat
                              /\ snap[v].asOf \in Nat
                              /\ marks.mem[v] \in Nat /\ marks.file[v] \in Nat
      BY <1>0 DEF Times, Time, Store
    <2> QED
      BY <1>0, <1>1, <2>1 DEF Tick, MarksInv, TimesPast, MarksFollow, MarksSaved
  <1>2. ASSUME NEW v \in Vehicles, MergePoll(v) PROVE MarksInv'
    <2>1. PICK t \in Recent : Merge(<<v, "poll">>, PollOut(v, t))
      BY <1>2 DEF MergePoll
    <2>2. t <= clock
      BY <1>0 DEF Recent
    <2>3. PollOut(v, t) \in Times /\ PollOut(v, t).fetchedAt <= clock
          /\ PollOut(v, t).streamFields <= clock
      BY <1>0, <2>2, OutType DEF MarksInv, TimesPast
    <2> QED
      BY <1>0, <2>1, <2>3, MarksMerge DEF MarksInv
  <1>3. ASSUME NEW v \in Vehicles, NEW l \in Loops, PutFrame(v, l) PROVE MarksInv'
    <2>1. PICK t \in Recent : Merge(<<v, l>>, FrameOut(v, t))
      BY <1>3 DEF PutFrame
    <2>2. t <= clock
      BY <1>0 DEF Recent
    <2>3. FrameOut(v, t) \in Times /\ FrameOut(v, t).fetchedAt <= clock
          /\ FrameOut(v, t).streamFields <= clock
      BY <1>0, <2>2, OutType DEF MarksInv, TimesPast
    <2> QED
      BY <1>0, <2>1, <2>3, MarksMerge DEF MarksInv
  <1>4. ASSUME NEW w \in Writers, AppendRing(w) PROVE MarksInv'
    BY <1>0, <1>4 DEF AppendRing, MarksInv, TimesPast, MarksFollow, MarksSaved
  <1>5. CASE FlushAsOf
    <2>1. PICK ok \in BOOLEAN : marks' = Persisted(marks, ok)
      BY <1>5 DEF FlushAsOf
    <2>2. marks'.mem = marks.mem /\ marks'.failed = ~ok /\ (ok => marks'.file = marks.mem)
          /\ marks'.file \in {marks.file, marks.mem}
      BY <1>0, <2>1, PersistedType
    <2> QED
      BY <1>0, <1>5, <2>2 DEF FlushAsOf, MarksInv, TimesPast, MarksFollow, MarksSaved
  <1>6. CASE FlushReplay
    BY <1>0, <1>6 DEF FlushReplay, MarksInv, TimesPast, MarksFollow, MarksSaved
  <1>7. CASE Down
    <2>1. marks'.mem = marks'.file
      BY <1>0, <1>7 DEF Down, Store
    <2> QED
      BY <1>0, <1>7, <2>1 DEF Down, MarksInv, TimesPast, MarksFollow, MarksSaved
  <1>8. CASE Boot
    <2>1. \A v \in Vehicles : snap'[v].asOf = marks.mem[v]
                              /\ snap'[v].fetchedAt = snap[v].fetchedAt
                              /\ snap'[v].streamFields = snap[v].streamFields
      BY <1>0, <1>8 DEF Boot, Times
    <2>2. \A v \in Vehicles : marks.mem[v] <= clock
      BY <1>0, <1>8 DEF Boot, MarksInv, TimesPast
    <2> QED
      BY <1>0, <1>8, <2>1, <2>2 DEF Boot, MarksInv, TimesPast, MarksFollow, MarksSaved
  <1>9. CASE UNCHANGED vars
    BY <1>0, <1>9 DEF vars, MarksInv, TimesPast, MarksFollow, MarksSaved
  <1> QED
    BY <1>1, <1>2, <1>3, <1>4, <1>5, <1>6, <1>7, <1>8, <1>9 DEF Next

\* While the process runs and writes succeed, the file lacks no served time
\* that is an interval newer than the last write: a mark waits for a writer
\* only until the interval is over.
THEOREM MarksRecent == Spec => []UnsavedMarkIsRecent
  <1>1. MarksInv => UnsavedMarkIsRecent
    BY DEF MarksInv, MarksFollow, MarksSaved, UnsavedMarkIsRecent
  <1> QED
    BY <1>1, MarksInit, MarksStep, PTL DEF Spec
-----------------------------------------------------------------------------
(* The replay rings.  An entry that is not in the file was appended after    *)
(* the last write, and the last append came before the next write was due.   *)

InFile(v, e) == \E j \in 1..Len(rings.file[v]) : rings.file[v][j] = e

RingsSaved ==
    /\ appendedAt <= clock /\ rings.flushed <= clock
    /\ rings.flushed # 0 => appendedAt < rings.flushed + FlushEvery
    /\ ~rings.failed => \A v \in Vehicles : \A i \in 1..Len(rings.mem[v]) :
          \/ InFile(v, rings.mem[v][i])
          \/ rings.flushed # 0 /\ rings.flushed <= rings.mem[v][i].at

(* A live snapshot is not much older than what a ring replays: nothing in a  *)
(* ring is from the future, and what a merge returns to its writer is no     *)
(* later than the time it was served with.                                   *)

RingsPast ==
    \A v \in Vehicles : /\ \A i \in 1..Len(rings.mem[v]) : rings.mem[v][i].emits <= clock
                        /\ \A i \in 1..Len(rings.file[v]) : rings.file[v][i].emits <= clock

ReturnedServed ==
    \A w \in Writers : returned[w] # NoEntry
        => snap[w[1]].data /\ returned[w].emits <= snap[w[1]].asOf

NothingReturned == phase = "down" =>
    (\A w \in Writers : returned[w] = NoEntry) /\ (\A v \in Vehicles : ~snap[v].data)

RingsInv == /\ MarksInv
            /\ RingsSaved
            /\ RingsPast /\ ReturnedServed /\ NothingReturned /\ LiveFollowsReplay

\* The first process has empty rings.
LEMMA RingsInit == Init => RingsInv
  <1> SUFFICES ASSUME Init PROVE RingsInv
    OBVIOUS
  <1>1. MarksInv
    BY MarksInit
  <1>2. \A v \in Vehicles : Len(rings.mem[v]) = 0 /\ Len(rings.file[v]) = 0
    BY DEF Init
  <1>3. RingsSaved /\ RingsPast /\ LiveFollowsReplay
    BY <1>2 DEF Init, RingsSaved, RingsPast, LiveFollowsReplay
  <1>4. ReturnedServed /\ NothingReturned
    BY DEF Init, ReturnedServed, NothingReturned
  <1> QED
    BY <1>1, <1>3, <1>4 DEF RingsInv

\* A merge leaves the rings alone and moves the live snapshot forward.
LEMMA RingsMerge ==
    ASSUME RingsInv, MarksInv', NEW v \in Vehicles, NEW k \in {"poll"} \union Loops,
           NEW t \in Recent, NEW out \in Times, Merge(<<v, k>>, out),
           out = PollOut(v, t) \/ out = FrameOut(v, t)
    PROVE  RingsInv'
  <1> DEFINE w == <<v, k>>
             at == Stamp(v, out)
  <1>1. /\ phase # "down" /\ returned[w] = NoEntry
        /\ snap' = [snap EXCEPT ![v] = [out EXCEPT !.asOf = at]]
        /\ returned' = [returned EXCEPT ![w] = [emits |-> AsOfTime(out), at |-> 0]]
        /\ UNCHANGED <<clock, phase, rings, appendedAt>>
    BY DEF Merge
  <1>2. /\ TypeOK /\ clock \in Nat /\ MaxSkew \in Nat
        /\ snap \in [Vehicles -> Times] /\ returned \in [Writers -> Entry]
        /\ w \in Writers /\ w[1] = v
    BY ConstantsAssumption DEF RingsInv, MarksInv, TypeOK, Writers
  <1>3. t \in Nat /\ clock - t <= MaxSkew
    BY <1>2 DEF Recent
  <1>4. /\ at \in Nat /\ at >= snap[v].asOf /\ at >= t /\ AsOfTime(out) \in Nat
        /\ AsOfTime(out) <= at /\ out.data
    <2>1. /\ at \in Nat /\ at >= snap[v].asOf /\ at >= out.fetchedAt /\ at >= out.streamFields
          /\ AsOfTime(out) \in Nat
          /\ AsOfTime(out) \in {out.asOf, out.fetchedAt, out.streamFields}
      BY <1>2, StampType
    <2>2. /\ out.data /\ (out.fetchedAt = t \/ out.streamFields = t)
          /\ out.asOf \in {0, snap[v].asOf}
      BY <1>2, OutType
    <2> QED
      BY <2>1, <2>2
  <1>5. snap'[v].asOf = at /\ snap'[v].data /\ \A u \in Vehicles \ {v} : snap'[u] = snap[u]
    BY <1>1, <1>2, <1>4 DEF Times
  <1> HIDE DEF at, w
  <1>6. RingsSaved' /\ RingsPast'
    BY <1>1 DEF RingsInv, RingsSaved, RingsPast, InFile
  <1>7. ReturnedServed'
    <2> SUFFICES ASSUME NEW u \in Writers, returned'[u] # NoEntry
                 PROVE  snap'[u[1]].data /\ returned'[u].emits <= snap'[u[1]].asOf
      BY DEF ReturnedServed
    <2>1. CASE u = w
      BY <1>1, <1>2, <1>4, <1>5, <2>1
    <2>2. CASE u # w
      <3>1. /\ returned'[u] = returned[u]
            /\ snap[u[1]].data /\ returned[u].emits <= snap[u[1]].asOf
        BY <1>1, <1>2, <2>2 DEF RingsInv, ReturnedServed
      <3>2. u[1] \in Vehicles /\ returned[u].emits \in Nat
        BY <1>2 DEF Writers, Entry, Time
      <3>3. snap[u[1]].asOf \in Nat
        BY <1>2, <3>2 DEF Times, Time
      <3> QED
        BY <1>4, <1>5, <3>1, <3>2, <3>3
    <2> QED
      BY <2>1, <2>2
  <1>8. NothingReturned'
    BY <1>1 DEF NothingReturned
  <1>9. LiveFollowsReplay'
    <2> SUFFICES ASSUME NEW u \in Vehicles, snap'[u].data, NEW i \in 1..Len(rings.mem[u])
                 PROVE  rings.mem[u][i].emits <= snap'[u].asOf + MaxSkew
      BY <1>1 DEF LiveFollowsReplay
    <2>1. CASE u = v
      <3>1. rings.mem[u][i].emits <= clock
        BY DEF RingsInv, RingsPast
      <3>2. rings.mem[u] \in Seq(Entry)
        BY <1>2 DEF TypeOK, Ring
      <3>3. rings.mem[u][i] \in Entry
        BY <3>2
      <3>4. rings.mem[u][i].emits \in Nat
        BY <3>3 DEF Entry, Time
      <3> QED
        BY <1>2, <1>3, <1>4, <1>5, <2>1, <3>1, <3>4, SMTT(30)
    <2>2. CASE u # v
      BY <1>5, <2>2 DEF RingsInv, LiveFollowsReplay
    <2> QED
      BY <2>1, <2>2
  <1> QED
    BY <1>6, <1>7, <1>8, <1>9 DEF RingsInv

\* An append puts one new entry, no later than the clock, at the end of one ring.
LEMMA RingsAppend ==
    ASSUME RingsInv, MarksInv', NEW w \in Writers, AppendRing(w)
    PROVE  RingsInv'
  <1> DEFINE v == w[1]
             e == [returned[w] EXCEPT !.at = clock]
             new == [rings EXCEPT !.mem[v] = Pushed(rings.mem[v], e)]
  <1>1. PICK ok \in BOOLEAN :
          /\ returned[w] # NoEntry
          /\ rings' = IF Due(rings) THEN Persisted(new, ok) ELSE new
          /\ returned' = [returned EXCEPT ![w] = NoEntry]
          /\ appendedAt' = clock
          /\ UNCHANGED <<clock, phase, snap, marks>>
    BY DEF AppendRing
  <1>2. /\ TypeOK /\ clock \in Nat /\ FlushEvery \in Nat \ {0} /\ MaxSkew \in Nat
        /\ rings \in Store(Ring) /\ v \in Vehicles /\ returned \in [Writers -> Entry]
        /\ snap \in [Vehicles -> Times]
    BY ConstantsAssumption DEF RingsInv, MarksInv, TypeOK, Store, Writers
  <1>3. /\ e \in Entry /\ e.at = clock /\ e.emits = returned[w].emits
        /\ rings.mem \in [Vehicles -> Ring] /\ rings.flushed \in Nat
    BY <1>2 DEF Entry, Store, Time
  <1>4. /\ snap[v].data /\ e.emits <= snap[v].asOf /\ snap[v].asOf <= clock
        /\ e.emits \in Nat /\ snap[v].asOf \in Nat
    BY <1>1, <1>2, <1>3
       DEF RingsInv, ReturnedServed, MarksInv, TimesPast, Entry, Times, Time
  <1>5. /\ Pushed(rings.mem[v], e) \in Ring
        /\ \A i \in 1..Len(Pushed(rings.mem[v], e)) :
             Pushed(rings.mem[v], e)[i] = e
             \/ \E j \in 1..Len(rings.mem[v]) : Pushed(rings.mem[v], e)[i] = rings.mem[v][j]
    <2>1. rings.mem[v] \in Ring
      BY <1>2, <1>3
    <2> HIDE DEF e
    <2> QED
      BY <1>3, <2>1, PushedRing
  <1>6. /\ new \in Store(Ring)
        /\ new.mem = [rings.mem EXCEPT ![v] = Pushed(rings.mem[v], e)]
        /\ new.file = rings.file /\ new.flushed = rings.flushed /\ new.failed = rings.failed
    BY <1>2, <1>5 DEF Store
  <1> HIDE DEF e, new, v
  <1>7. rings'.mem = new.mem
        /\ \/ /\ Due(rings) /\ rings'.flushed = clock /\ rings'.failed = ~ok
              /\ rings'.file = IF ok THEN new.mem ELSE rings.file
           \/ /\ ~Due(rings) /\ rings'.flushed = rings.flushed
              /\ rings'.failed = rings.failed /\ rings'.file = rings.file
    BY <1>1, <1>2, <1>6, PersistedType
  <1>8. ASSUME NEW u \in Vehicles, NEW i \in 1..Len(rings'.mem[u])
        PROVE  \/ u = v /\ rings'.mem[u][i] = e
               \/ \E j \in 1..Len(rings.mem[u]) : rings'.mem[u][i] = rings.mem[u][j]
    BY <1>3, <1>5, <1>6, <1>7
  <1>9. RingsSaved'
    <2>1. CASE Due(rings)
      <3>1. rings'.flushed = clock /\ appendedAt' <= clock' /\ rings'.flushed <= clock'
            /\ appendedAt' < rings'.flushed + FlushEvery
        BY <1>1, <1>2, <1>7, <2>1
      <3>2. ~rings'.failed => rings'.file = rings'.mem
        BY <1>7, <2>1
      <3> QED
        BY <3>1, <3>2 DEF RingsSaved, InFile
    <2>2. CASE ~Due(rings)
      <3>1. rings.flushed # 0 /\ clock < rings.flushed + FlushEvery
            /\ rings.flushed <= clock
        BY <1>2, <1>3, <2>2 DEF Due, RingsInv, RingsSaved
      <3>2. appendedAt' <= clock' /\ appendedAt' < rings'.flushed + FlushEvery
            /\ rings'.flushed <= clock'
        BY <1>1, <1>2, <1>7, <2>2, <3>1
      <3>3. ASSUME ~rings'.failed, NEW u \in Vehicles, NEW i \in 1..Len(rings'.mem[u])
            PROVE  \/ \E j \in 1..Len(rings'.file[u]) : rings'.file[u][j] = rings'.mem[u][i]
                   \/ rings'.flushed # 0 /\ rings'.flushed <= rings'.mem[u][i].at
        <4>1. CASE rings'.mem[u][i] = e
          BY <1>3, <1>7, <2>2, <3>1, <4>1
        <4>2. CASE \E j \in 1..Len(rings.mem[u]) : rings'.mem[u][i] = rings.mem[u][j]
          BY <1>7, <2>2, <3>3, <4>2 DEF RingsInv, RingsSaved, InFile
        <4> QED
          BY <1>8, <4>1, <4>2
      <3> QED
        BY <3>2, <3>3 DEF RingsSaved, InFile
    <2> QED
      BY <2>1, <2>2
  <1>10. RingsPast'
    <2>0. e.emits <= clock
      BY <1>2, <1>4
    <2>1. ASSUME NEW u \in Vehicles, NEW i \in 1..Len(rings'.mem[u])
          PROVE  rings'.mem[u][i].emits <= clock
      <3>1. CASE rings'.mem[u][i] = e
        BY <2>0, <3>1
      <3>2. CASE \E j \in 1..Len(rings.mem[u]) : rings'.mem[u][i] = rings.mem[u][j]
        BY <3>2 DEF RingsInv, RingsPast
      <3> QED
        BY <1>8, <3>1, <3>2
    <2>2. rings'.file = rings'.mem \/ rings'.file = rings.file
      BY <1>7
    <2> QED
      BY <1>1, <2>1, <2>2 DEF RingsInv, RingsPast
  <1>11. ReturnedServed' /\ NothingReturned'
    BY <1>1, <1>2 DEF RingsInv, ReturnedServed, NothingReturned
  <1>12. LiveFollowsReplay'
    <2> SUFFICES ASSUME NEW u \in Vehicles, snap[u].data, NEW i \in 1..Len(rings'.mem[u])
                 PROVE  rings'.mem[u][i].emits <= snap[u].asOf + MaxSkew
      BY <1>1 DEF LiveFollowsReplay
    <2>1. CASE u = v /\ rings'.mem[u][i] = e
      BY <1>2, <1>4, <2>1
    <2>2. CASE \E j \in 1..Len(rings.mem[u]) : rings'.mem[u][i] = rings.mem[u][j]
      BY <2>2 DEF RingsInv, LiveFollowsReplay
    <2> QED
      BY <1>8, <2>1, <2>2
  <1> QED
    BY <1>9, <1>10, <1>11, <1>12 DEF RingsInv

\* Every step keeps the rings in agreement with the file and with what is served.
LEMMA RingsStep == RingsInv /\ [Next]_vars => RingsInv'
  <1> SUFFICES ASSUME RingsInv, [Next]_vars PROVE RingsInv'
    OBVIOUS
  <1>0. /\ MarksInv /\ MarksInv' /\ TypeOK /\ clock \in Nat /\ MaxClock \in Nat
        /\ snap \in [Vehicles -> Times] /\ rings \in Store(Ring)
    BY MarksStep, ConstantsAssumption DEF RingsInv, MarksInv, TypeOK, Store
  <1> USE DEF RingsSaved, RingsPast, ReturnedServed, NothingReturned, LiveFollowsReplay, InFile
  <1>1. CASE Tick
    <2>1. clock' = clock + 1 /\ appendedAt \in Nat /\ rings.flushed \in Nat
      BY <1>0, <1>1 DEF Tick, TypeOK, Time
    <2>2. ASSUME NEW v \in Vehicles, NEW i \in 1..Len(rings.mem[v])
          PROVE  rings.mem[v][i].emits \in Nat
      <3>1. rings.mem[v] \in Seq(Entry)
        BY <1>0 DEF Store, Ring
      <3>2. rings.mem[v][i] \in Entry
        BY <3>1
      <3> QED
        BY <3>2 DEF Entry, Time
    <2>3. ASSUME NEW v \in Vehicles, NEW i \in 1..Len(rings.file[v])
          PROVE  rings.file[v][i].emits \in Nat
      <3>1. rings.file[v] \in Seq(Entry)
        BY <1>0 DEF Store, Ring
      <3>2. rings.file[v][i] \in Entry
        BY <3>1
      <3> QED
        BY <3>2 DEF Entry, Time
    <2>4. UNCHANGED <<phase, snap, marks, rings, returned>> /\ appendedAt' = appendedAt
      BY <1>1 DEF Tick
    <2>5. RingsSaved'
      <3>1. appendedAt <= clock + 1 /\ rings.flushed <= clock + 1
        BY <1>0, <2>1 DEF RingsInv
      <3>2. RingsSaved
        BY DEF RingsInv
      <3> QED
        BY <2>1, <2>4, <3>1, <3>2
    <2>6. RingsPast'
      BY <1>0, <2>1, <2>2, <2>3, <2>4 DEF RingsInv
    <2> QED
      BY <1>0, <2>4, <2>5, <2>6 DEF RingsInv
  <1>2. ASSUME NEW v \in Vehicles, MergePoll(v) PROVE RingsInv'
    <2>1. PICK t \in Recent : Merge(<<v, "poll">>, PollOut(v, t))
      BY <1>2 DEF MergePoll
    <2> QED
      BY <1>0, <2>1, OutType, RingsMerge
  <1>3. ASSUME NEW v \in Vehicles, NEW l \in Loops, PutFrame(v, l) PROVE RingsInv'
    <2>1. PICK t \in Recent : Merge(<<v, l>>, FrameOut(v, t))
      BY <1>3 DEF PutFrame
    <2> QED
      BY <1>0, <2>1, OutType, RingsMerge
  <1>4. ASSUME NEW w \in Writers, AppendRing(w) PROVE RingsInv'
    BY <1>0, <1>4, RingsAppend
  <1>5. CASE FlushAsOf
    BY <1>0, <1>5 DEF FlushAsOf, RingsInv
  <1>6. CASE FlushReplay
    <2>1. PICK ok \in BOOLEAN : rings' = Persisted(rings, ok)
      BY <1>6 DEF FlushReplay
    <2>2. /\ rings'.mem = rings.mem /\ rings'.flushed = clock /\ rings'.failed = ~ok
          /\ rings'.file = IF ok THEN rings.mem ELSE rings.file
      BY <1>0, <2>1, PersistedType
    <2>3. UNCHANGED <<clock, snap, returned, appendedAt>> /\ phase' # "down"
      BY <1>6 DEF FlushReplay
    <2>4. appendedAt <= clock /\ appendedAt \in Nat /\ FlushEvery \in Nat \ {0}
      BY <1>0, ConstantsAssumption DEF RingsInv, TypeOK, Time
    <2>5. RingsSaved'
      <3>1. /\ appendedAt' < rings'.flushed + FlushEvery
            /\ appendedAt' <= clock' /\ rings'.flushed <= clock'
        BY <1>0, <2>2, <2>3, <2>4
      <3>2. ~rings'.failed => rings'.file = rings'.mem
        BY <2>2
      <3> QED
        BY <3>1, <3>2
    <2>6. RingsPast'
      BY <2>2, <2>3 DEF RingsInv
    <2> QED
      BY <1>0, <2>2, <2>3, <2>5, <2>6 DEF RingsInv
  <1>7. CASE Down
    <2>1. /\ rings'.mem = rings'.file /\ rings'.file = rings.file /\ rings'.flushed = 0
          /\ appendedAt' = 0 /\ clock' = clock
      BY <1>0, <1>7 DEF Down, Store
    <2>2. \A v \in Vehicles : ~snap'[v].data
      BY <1>7 DEF Down
    <2>3. \A w \in Writers : returned'[w] = NoEntry
      BY <1>7 DEF Down
    <2> QED
      BY <1>0, <2>1, <2>2, <2>3 DEF RingsInv
  <1>8. CASE Boot
    <2>1. \A v \in Vehicles : snap'[v].data = snap[v].data
      BY <1>0, <1>8 DEF Boot, Times
    <2>2. phase = "down" /\ phase' # "down"
          /\ UNCHANGED <<clock, rings, returned, appendedAt>>
      BY <1>8 DEF Boot
    <2> QED
      BY <1>0, <2>1, <2>2 DEF RingsInv
  <1>9. CASE UNCHANGED vars
    BY <1>0, <1>9 DEF vars, RingsInv
  <1> QED
    BY <1>1, <1>2, <1>3, <1>4, <1>5, <1>6, <1>7, <1>8, <1>9 DEF Next

\* Sending the ring and then the live snapshot takes a consumer back in time by
\* no more than the wait of a writer for the Merger, after any crash.
THEOREM ReplayThenLive == Spec => []LiveFollowsReplay
  <1>1. RingsInv => LiveFollowsReplay
    BY DEF RingsInv
  <1> QED
    BY <1>1, RingsInit, RingsStep, PTL DEF Spec

\* When writes succeed a crash loses only the entries appended since less than
\* an interval before the latest.
THEOREM TailUnsaved == Spec => []OnlyTailUnsaved
  <1>1. RingsInv => OnlyTailUnsaved
    <2> SUFFICES ASSUME RingsInv, ~rings.failed, NEW v \in Vehicles,
                        NEW i \in 1..Len(rings.mem[v]), rings.mem[v][i].at # 0,
                        rings.mem[v][i].at + FlushEvery <= appendedAt
                 PROVE  InFile(v, rings.mem[v][i])
      BY DEF OnlyTailUnsaved, InFile
    <2>1. /\ rings.mem[v] \in Seq(Entry) /\ appendedAt \in Nat /\ rings.flushed \in Nat
          /\ FlushEvery \in Nat
      BY ConstantsAssumption DEF RingsInv, MarksInv, TypeOK, Ring, Time
    <2>2. rings.mem[v][i] \in Entry
      BY <2>1
    <2>3. rings.mem[v][i].at \in Nat
      BY <2>2 DEF Entry, Time
    <2>4. ~(rings.flushed # 0 /\ rings.flushed <= rings.mem[v][i].at)
      BY <2>1, <2>3 DEF RingsInv, RingsSaved
    <2> QED
      BY <2>4 DEF RingsInv, RingsSaved
  <1> QED
    BY <1>1, RingsInit, RingsStep, PTL DEF Spec
=============================================================================
