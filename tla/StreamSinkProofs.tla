--------------------------- MODULE StreamSinkProofs ---------------------------
(***************************************************************************)
(* Theorems about StreamSink, for any writers, buffers and ring depth, with *)
(* and without a minimum push interval.                                     *)
(***************************************************************************)
EXTENDS StreamSink, SequenceTheorems, TLAPS

-----------------------------------------------------------------------------
(* Types.                                                                   *)

\* There is a snapshot 0, an empty list of snapshots, and a first broadcaster.
LEMMA Empties ==
    /\ 0 \in Snap /\ 0 \in 0..SubscriberBuf /\ <<>> \in Seq(Snap) /\ Len(<<>>) = 0
    /\ Idle \in Broadcaster
  <1>1. 0 \in Snap /\ 0 \in 0..SubscriberBuf
    BY SinkAssumption DEF Snap
  <1>2. <<>> \in Seq(Snap) /\ Len(<<>>) = 0
    OBVIOUS
  <1>3. FALSE \in BOOLEAN
    OBVIOUS
  <1> QED
    BY <1>1, <1>2, <1>3, Zenon DEF Idle, Broadcaster

\* A broadcaster that has returned is still a broadcaster.
LEMMA DoneType == \A t \in Broadcaster : Done(t) \in Broadcaster
  <1> TAKE t \in Broadcaster
  <1>1. t.subscribed \in BOOLEAN /\ t.cancelled \in BOOLEAN
    BY DEF Broadcaster
  <1> QED
    BY <1>1, Empties DEF Done, Broadcaster

\* So is one that has pushed, or tried to.
LEMMA PushedType ==
    ASSUME NEW t \in Broadcaster, NEW m \in Snap PROVE Pushed(t, m) \in Broadcaster
  <1>1. CASE Accepts
    BY <1>1 DEF Pushed, Broadcaster
  <1>2. CASE ~Accepts
    BY <1>2, DoneType DEF Pushed
  <1> QED
    BY <1>1, <1>2

\* Cancelling touches the context only.
LEMMA CancelledType ==
    ASSUME NEW t \in [Tasks -> Broadcaster], NEW b \in 0..MaxSubs
    PROVE  Cancelled(t, b) \in [Tasks -> Broadcaster]
  <1>1. ASSUME NEW s \in Broadcaster PROVE [s EXCEPT !.cancelled = TRUE] \in Broadcaster
    BY DEF Broadcaster
  <1>2. CASE b = 0
    BY <1>2 DEF Cancelled
  <1>3. CASE b # 0
    BY <1>1, <1>3, SinkAssumption DEF Cancelled, Tasks
  <1> QED
    BY <1>2, <1>3

\* What Send leaves fits the buffer.
LEMMA SendType ==
    ASSUME TypeOK, NEW m \in Snap, Send(m)
    PROVE  /\ buf' \in Seq(Snap) /\ Len(buf') <= SendBuf
           /\ sender' \in {"open", "closed"}
           /\ sender' = "open" => Accepts
           /\ Accepts => sender' = "open"
  <1>1. CASE Accepts
    BY <1>1, SinkAssumption DEF Send, Accepts, TypeOK
  <1>2. CASE ~Accepts
    BY <1>2, SinkAssumption DEF Send, Close, TypeOK
  <1> QED
    BY <1>1, <1>2

\* A ring that is trimmed on every append never outgrows its depth.
LEMMA AppendType ==
    ASSUME NEW r \in Seq(Snap), NEW s \in Snap, Len(r) <= Depth, Depth # 0
    PROVE  Evicting(r, s) \in Seq(Snap) /\ Len(Evicting(r, s)) <= Depth
  <1>1. CASE Len(r) < Depth
    BY <1>1, SinkAssumption DEF Evicting
  <1>2. CASE ~(Len(r) < Depth)
    <2>1. Len(r) = Depth /\ r # <<>>
      BY <1>2, SinkAssumption
    <2>2. Tail(r) \in Seq(Snap) /\ Len(Tail(r)) = Len(r) - 1
      BY <2>1
    <2> QED
      BY <1>2, <2>1, <2>2, SinkAssumption DEF Evicting
  <1> QED
    BY <1>1, <1>2

\* The connection starts in its types.
LEMMA TypeInit == Init => TypeOK
  <1> SUFFICES ASSUME Init PROVE TypeOK
    OBVIOUS
  <1>1. [b \in Tasks |-> Idle] \in [Tasks -> Broadcaster]
    BY Empties
  <1>2. made \in Snap /\ ring \in Seq(Snap) /\ Len(ring) <= Depth
    <2>1. [i \in 1..Saved |-> i] \in Seq(Snap) /\ Len([i \in 1..Saved |-> i]) = Saved
      BY SinkAssumption DEF Snap
    <2> QED
      BY <2>1, SinkAssumption DEF Init, Snap
  <1>3. /\ latest \in Snap /\ received \in Snap /\ merged \in [Writers -> Snap]
        /\ current \in 0..MaxSubs /\ buf \in Seq(Snap) /\ Len(buf) <= SendBuf
    BY Empties, SinkAssumption DEF Init
  <1>4. stopped \in BOOLEAN /\ recent \in BOOLEAN /\ task \in [Tasks -> Broadcaster]
    BY <1>1, Zenon DEF Init
  <1> QED
    BY <1>2, <1>3, <1>4, Zenon DEF Init, TypeOK

\* Every step keeps the types.
LEMMA TypeStep == TypeOK /\ [Next]_vars => TypeOK'
  <1> SUFFICES ASSUME TypeOK, [Next]_vars PROVE TypeOK'
    OBVIOUS
  <1> USE SinkAssumption
  <1>1. ASSUME NEW w \in Writers, RingAppend(w) PROVE TypeOK'
    <2>1. ring' \in Seq(Snap) /\ Len(ring') <= Depth
      BY <1>1, AppendType DEF RingAppend, TypeOK
    <2> QED
      BY <1>1, <2>1 DEF RingAppend, session, TypeOK, Snap
  <1>2. ASSUME NEW w \in Writers, NEW changed \in BOOLEAN, Merge(w, changed) PROVE TypeOK'
    <2>1. made' \in Snap /\ latest' \in Snap
      BY <1>2 DEF Merge, TypeOK, Snap
    <2>2. Signalled(task) \in [Tasks -> Broadcaster]
      <3>1. ASSUME NEW t \in Broadcaster, t.signals < SubscriberBuf
            PROVE  [t EXCEPT !.signals = @ + 1] \in Broadcaster
        <4>1. t.signals + 1 \in 0..SubscriberBuf
          BY <3>1 DEF Broadcaster
        <4> QED
          BY <4>1 DEF Broadcaster
      <3>2. \A b \in Tasks : task[b] \in Broadcaster
        BY DEF TypeOK
      <3> QED
        BY <3>1, <3>2 DEF Signalled
    <2> QED
      BY <1>2, <2>1, <2>2 DEF Merge, session, TypeOK
  <1>3. ASSUME NEW b \in Tasks, Broadcast(b) PROVE TypeOK'
    <2>0. task[b] \in Broadcaster
      BY DEF TypeOK
    <2>1. CASE Replay(b)
      BY <2>0, <2>1 DEF Replay, feed, session, TypeOK, Broadcaster
    <2>2. CASE ReplayOne(b)
      <3> DEFINE m == Head(task[b].todo)
                 t == [task[b] EXCEPT !.todo = Tail(@)]
      <3>0. task[b].todo \in Seq(Snap) /\ task[b].todo # <<>>
        BY <2>0, <2>2 DEF ReplayOne, Broadcaster
      <3>00. m \in Snap /\ Tail(task[b].todo) \in Seq(Snap)
        BY <3>0
      <3>1. m \in Snap /\ t \in Broadcaster
        BY <2>0, <3>00 DEF Broadcaster
      <3>2. Pushed(t, m) \in Broadcaster
        BY <3>1, PushedType
      <3>3. task' = [task EXCEPT ![b] = Pushed(t, m)] /\ Send(m)
        BY <2>2 DEF ReplayOne
      <3> HIDE DEF m, t
      <3> QED
        BY <2>2, <3>1, <3>2, <3>3, SendType DEF ReplayOne, feed, session, TypeOK
    <2>3. CASE Subscribe(b)
      BY <2>0, <2>3 DEF Subscribe, feed, session, TypeOK, Broadcaster
    <2>4. CASE TakeSignal(b)
      <3>1. task[b].signals - 1 \in 0..SubscriberBuf
        BY <2>0, <2>4 DEF TakeSignal, Broadcaster
      <3>2. CASE Throttled /\ recent
        BY <2>0, <2>4, <3>1, <3>2 DEF TakeSignal, feed, session, TypeOK, Broadcaster
      <3>3. CASE ~(Throttled /\ recent)
        BY <2>0, <2>4, <3>1, <3>3 DEF TakeSignal, feed, session, TypeOK, Broadcaster
      <3> QED
        BY <3>2, <3>3
    <2>5. CASE CoalesceTick(b)
      BY <2>0, <2>5 DEF CoalesceTick, feed, session, TypeOK, Broadcaster
    <2>6. CASE ReadLatest(b)
      <3>1. CASE latest = 0
        <4>1. [task[b] EXCEPT !.pc = "select", !.pending = FALSE] \in Broadcaster
          BY <2>0 DEF Broadcaster
        <4>2. task' \in [Tasks -> Broadcaster]
          BY <2>6, <3>1, <4>1 DEF ReadLatest, TypeOK
        <4> QED
          BY <2>6, <3>1, <4>2 DEF ReadLatest, feed, session, TypeOK
      <3>2. CASE latest # 0
        <4>1. [task[b] EXCEPT !.pc = "send", !.hand = latest] \in Broadcaster
          BY <2>0 DEF Broadcaster, TypeOK
        <4>2. task' \in [Tasks -> Broadcaster]
          BY <2>6, <3>2, <4>1 DEF ReadLatest, TypeOK
        <4> QED
          BY <2>6, <3>2, <4>2 DEF ReadLatest, feed, session, TypeOK
      <3> QED
        BY <3>1, <3>2
    <2>7. CASE SendLatest(b)
      <3> DEFINE m == task[b].hand
                 t == [task[b] EXCEPT !.pc = "select", !.pending = FALSE, !.hand = 0]
      <3>1. m \in Snap /\ t \in Broadcaster
        BY <2>0, Empties DEF Broadcaster
      <3>2. Pushed(t, m) \in Broadcaster
        BY <3>1, PushedType
      <3>3. task' = [task EXCEPT ![b] = Pushed(t, m)] /\ Send(m)
        BY <2>7 DEF SendLatest
      <3> HIDE DEF m, t
      <3> QED
        BY <2>7, <3>1, <3>2, <3>3, SendType DEF SendLatest, feed, session, TypeOK
    <2>8. CASE Return(b)
      BY <2>0, <2>8, DoneType DEF Return, feed, session, TypeOK
    <2> QED
      BY <1>3, <2>1, <2>2, <2>3, <2>4, <2>5, <2>6, <2>7, <2>8 DEF Broadcast
  <1>4. ASSUME NEW b \in Tasks, Hello(b) PROVE TypeOK'
    <2>1. 0 \in Snap
      BY DEF Snap
    <2> QED
      BY <1>4, <2>1, SendType DEF Hello, feed, session, TypeOK
  <1>5. ASSUME NEW b \in Tasks, Unsubscribe(b) PROVE TypeOK'
    <2>1. [task[b] EXCEPT !.subscribed = FALSE] \in Broadcaster
      BY DEF TypeOK, Broadcaster
    <2> QED
      BY <1>5, <2>1 DEF Unsubscribe, feed, session, TypeOK
  <1>6. CASE Write
    BY <1>6 DEF Write, feed, session, TypeOK, Snap
  <1>7. CASE WriteFails
    BY <1>7 DEF WriteFails, Close, feed, session, TypeOK
  <1>8. CASE OnMessage
    <2>1. 0 \in Snap
      BY DEF Snap
    <2>2. [Idle EXCEPT !.pc = "start", !.cancelled = stopped] \in Broadcaster
      BY Empties DEF Broadcaster, TypeOK
    <2>3. Cancelled(task, current) \in [Tasks -> Broadcaster]
      BY CancelledType DEF TypeOK
    <2>4. current + 1 \in Tasks /\ current' \in 0..MaxSubs
      BY <1>8 DEF OnMessage, TypeOK, Tasks
    <2>5. task' \in [Tasks -> Broadcaster]
      BY <1>8, <2>2, <2>3, <2>4 DEF OnMessage
    <2> QED
      BY <1>8, <2>1, <2>4, <2>5, SendType DEF OnMessage, feed, TypeOK
  <1>9. CASE OnClose
    BY <1>9, CancelledType DEF OnClose, Close, feed, TypeOK
  <1>10. CASE StopSink
    <2>1. ASSUME NEW s \in Broadcaster PROVE [s EXCEPT !.cancelled = TRUE] \in Broadcaster
      BY DEF Broadcaster
    <2> QED
      BY <1>10, <2>1 DEF StopSink, feed, TypeOK
  <1>11. CASE Elapse
    BY <1>11 DEF Elapse, feed, session, TypeOK
  <1>12. CASE UNCHANGED vars
    BY <1>12 DEF vars, TypeOK
  <1> QED
    BY <1>1, <1>2, <1>3, <1>4, <1>5, <1>6, <1>7, <1>8, <1>9, <1>10, <1>11, <1>12 DEF Next

\* Every variable keeps its type: neither the ring nor the send buffer outgrows its
\* limit, whatever the consumer and the writers do.
THEOREM TypeCorrect == Spec => []TypeOK
  BY TypeInit, TypeStep, PTL DEF Spec

-----------------------------------------------------------------------------
(* Changes and the broadcaster.                                             *)

\* Nothing is numbered beyond the last snapshot made, and what is served is that.
NumbersInv ==
    /\ latest \in {0, made}
    /\ ring \in Seq(0..made) /\ merged \in [Writers -> 0..made]

\* A broadcaster between reading and sending holds the latest snapshot, or has been
\* told of a newer one: clearing pending after the push forgets nothing.
TaskInv(t) ==
    /\ t.todo \in Seq(0..made) /\ t.hand <= made /\ t.sent <= made
    /\ t.subscribed => t.pc \in {"select", "read", "send", "done"}
    /\ t.subscribed /\ t.pc = "send" => t.hand = latest \/ t.signals > 0
    /\ ChangeKept(t)

ChangeInv == NumbersInv /\ \A b \in Tasks : TaskInv(task[b])

\* Only a refused push ends the broadcaster of an open connection.
ServedInv ==
    conn = "open" /\ ~stopped /\ current # 0 =>
        /\ ~task[current].cancelled
        /\ task[current].pc = "done" => sender = "closed"

\* The fields of a broadcaster that has returned.
LEMMA DoneFields ==
    ASSUME NEW t \in Broadcaster
    PROVE  /\ Done(t).pc = "done" /\ Done(t).todo = <<>> /\ Done(t).hand = 0
           /\ Done(t).sent = 0 /\ Done(t).cancelled = t.cancelled
           /\ Done(t).subscribed = t.subscribed
  BY DEF Done, Idle, Broadcaster

\* A broadcaster that has returned owes nothing.
LEMMA DoneKept ==
    ASSUME TypeOK, NEW t \in Broadcaster PROVE TaskInv(Done(t))
  <1>1. <<>> \in Seq(0..made) /\ made \in Nat
    BY SinkAssumption DEF TypeOK, Snap
  <1>2. Done(t).todo \in Seq(0..made) /\ Done(t).hand <= made /\ Done(t).sent <= made
    <2>1. Done(t).todo = <<>> /\ Done(t).hand = 0 /\ Done(t).sent = 0
      BY DoneFields
    <2> HIDE DEF Done
    <2> QED
      BY <1>1, <2>1
  <1>3. Done(t).pc = "done"
    BY DoneFields
  <1> QED
    BY <1>2, <1>3 DEF TaskInv, ChangeKept

\* Numbers stay numbers when another snapshot is made.
LEMMA SeqGrows ==
    ASSUME NEW n \in Nat, NEW m \in Nat, n <= m, NEW s \in Seq(0..n)
    PROVE  s \in Seq(0..m)
  <1>1. \A i \in 1..Len(s) : s[i] \in 0..m
    <2> TAKE i \in 1..Len(s)
    <2>1. s[i] \in 0..n
      BY ElementOfSeq
    <2> QED
      BY <2>1
  <1> QED
    BY <1>1, SeqDef

\* Without a broadcaster's step, and without a change, nothing is owed anew.
LEMMA TaskFrame ==
    ASSUME made' = made, latest' = latest, NEW c \in Tasks, task'[c] = task[c],
           TaskInv(task[c])
    PROVE  TaskInv(task[c])'
  BY DEF TaskInv, ChangeKept

\* The connection starts without changes to tell of.
LEMMA ChangeInit == Init => ChangeInv
  <1> SUFFICES ASSUME Init PROVE ChangeInv
    OBVIOUS
  <1>0. TypeOK
    BY TypeInit
  <1>1. made \in Nat
    BY <1>0, SinkAssumption DEF TypeOK, Snap
  <1>2. ring \in Seq(0..made)
    BY SinkAssumption DEF Init
  <1>3. <<>> \in Seq(0..made)
    OBVIOUS
  <1>4. NumbersInv
    BY <1>1, <1>2 DEF NumbersInv, Init
  <1>5. \A b \in Tasks : TaskInv(task[b])
    <2> TAKE b \in Tasks
    <2>1. /\ task[b].todo = <<>> /\ task[b].hand = 0 /\ task[b].sent = 0
          /\ task[b].subscribed = FALSE
      BY DEF Init, Idle
    <2>2. task[b].todo \in Seq(0..made) /\ task[b].hand <= made /\ task[b].sent <= made
      BY <1>1, <1>3, <2>1
    <2> QED
      BY <2>1, <2>2 DEF TaskInv, ChangeKept
  <1> QED
    BY <1>4, <1>5 DEF ChangeInv

\* Every step keeps what the broadcasters owe.
LEMMA ChangeStep == TypeOK /\ ChangeInv /\ [Next]_vars => ChangeInv'
  <1> SUFFICES ASSUME TypeOK, ChangeInv, [Next]_vars PROVE ChangeInv'
    OBVIOUS
  <1> USE SinkAssumption
  <1>a. /\ made \in Nat /\ latest \in Nat
        /\ \A c \in Tasks : task[c] \in Broadcaster /\ TaskInv(task[c])
    BY DEF TypeOK, Snap, ChangeInv
  <1>b. TypeOK'
    BY TypeStep
  <1>c. ASSUME UNCHANGED feed, \A c \in Tasks : TaskInv(task[c])' PROVE ChangeInv'
    BY <1>c DEF ChangeInv, NumbersInv, feed
  <1>1. ASSUME NEW w \in Writers, RingAppend(w) PROVE ChangeInv'
    <2>1. merged[w] \in 0..made /\ ring \in Seq(0..made)
      BY DEF ChangeInv, NumbersInv
    <2>2. Depth # 0 => Evicting(ring, merged[w]) \in Seq(0..made)
      <3>1. CASE Len(ring) < Depth
        BY <2>1, <3>1, AppendProperties DEF Evicting
      <3>2. CASE ~(Len(ring) < Depth) /\ Depth # 0
        <4>1. ring # <<>>
          BY <3>2
        <4>2. Tail(ring) \in Seq(0..made)
          BY <2>1, <4>1, HeadTailProperties
        <4> QED
          BY <2>1, <3>2, <4>2, AppendProperties DEF Evicting
      <3> QED
        BY <3>1, <3>2
    <2>3. ring' \in Seq(0..made)
      BY <1>1, <2>1, <2>2 DEF RingAppend
    <2>4. NumbersInv'
      <3>1. merged' \in [Writers -> 0..made]
        BY <1>1, <1>a DEF RingAppend, ChangeInv, NumbersInv
      <3> QED
        BY <1>1, <2>3, <3>1 DEF RingAppend, ChangeInv, NumbersInv
    <2> QED
      BY <1>1, <1>a, <2>4, TaskFrame DEF RingAppend, ChangeInv
  <1>2. ASSUME NEW w \in Writers, NEW changed \in BOOLEAN, Merge(w, changed) PROVE ChangeInv'
    <2>1. CASE changed
      <3>1. made' = made + 1 /\ latest' = made + 1 /\ task' = Signalled(task)
        BY <1>2, <2>1 DEF Merge
      <3>2. ring' \in Seq(0..made')
        BY <1>2, <1>a, <3>1, SeqGrows DEF Merge, ChangeInv, NumbersInv
      <3>3. NumbersInv'
        BY <1>2, <1>a, <3>1, <3>2 DEF Merge, ChangeInv, NumbersInv
      <3>4. ASSUME NEW c \in Tasks PROVE TaskInv(task[c])'
        <4> DEFINE t == task[c]
        <4>1. t \in Broadcaster /\ TaskInv(t)
          BY <1>a
        <4>2. t.todo \in Seq(0..made')
          BY <1>a, <3>1, <4>1, SeqGrows DEF TaskInv
        <4>3. /\ t.signals \in 0..SubscriberBuf /\ t.hand \in Nat /\ t.sent \in Nat
          BY <4>1 DEF Broadcaster, Snap
        <4>4. CASE t.subscribed /\ t.pc # "done" /\ t.signals < SubscriberBuf
          <5>1. task'[c] = [t EXCEPT !.signals = @ + 1]
            BY <3>1, <4>4 DEF Signalled
          <5>2. /\ task'[c].todo = t.todo /\ task'[c].hand = t.hand /\ task'[c].sent = t.sent
                /\ task'[c].pc = t.pc /\ task'[c].subscribed = t.subscribed
                /\ task'[c].signals > 0
            BY <4>1, <4>3, <5>1 DEF Broadcaster
          <5> QED
            BY <1>a, <3>1, <4>1, <4>2, <4>3, <5>2 DEF TaskInv, ChangeKept
        <4>5. CASE ~(t.subscribed /\ t.pc # "done" /\ t.signals < SubscriberBuf)
          <5>1. task'[c] = t
            BY <3>1, <4>5 DEF Signalled
          <5>2. t.subscribed /\ t.pc # "done" => t.signals > 0
            BY <4>3, <4>5
          <5> QED
            BY <1>a, <3>1, <4>1, <4>2, <4>3, <5>1, <5>2 DEF TaskInv, ChangeKept
        <4> QED
          BY <4>4, <4>5
      <3> QED
        BY <3>3, <3>4 DEF ChangeInv
    <2>2. CASE ~changed
      <3>1. NumbersInv'
        BY <1>2, <1>a, <2>2 DEF Merge, ChangeInv, NumbersInv
      <3> QED
        BY <1>2, <1>a, <2>2, <3>1, TaskFrame DEF Merge, ChangeInv
    <2> QED
      BY <2>1, <2>2
  <1>3. ASSUME NEW b \in Tasks, Broadcast(b) PROVE ChangeInv'
    <2> DEFINE t == task[b]
    <2>0. /\ UNCHANGED feed /\ made' = made /\ latest' = latest
          /\ \A c \in Tasks \ {b} : task'[c] = task[c]
          /\ t \in Broadcaster /\ TaskInv(t) /\ b \in DOMAIN task
      BY <1>3, <1>a DEF Broadcast, Replay, ReplayOne, Subscribe, TakeSignal, CoalesceTick,
                        ReadLatest, SendLatest, Return, feed, TypeOK
    <2> SUFFICES TaskInv(task[b])'
      BY <1>a, <1>c, <2>0, TaskFrame
    <2>f. /\ t.signals \in Nat /\ t.hand \in Nat /\ t.sent \in Nat /\ t.joined \in Nat
          /\ t.todo \in Seq(0..made)
      BY <2>0 DEF Broadcaster, Snap, TaskInv
    <2>1. CASE Replay(b)
      <3>1. task'[b] = [t EXCEPT !.pc = "replay", !.todo = ring] /\ t.pc = "start"
        BY <2>0, <2>1 DEF Replay
      <3>2. ring \in Seq(0..made)
        BY DEF ChangeInv, NumbersInv
      <3> QED
        BY <2>0, <2>f, <3>1, <3>2 DEF TaskInv, ChangeKept, Broadcaster
    <2>2. CASE ReplayOne(b)
      <3> DEFINE m == Head(t.todo)
                 u == [t EXCEPT !.todo = Tail(t.todo)]
      <3>1. t.todo # <<>> /\ t.pc = "replay" /\ task'[b] = Pushed(u, m)
        BY <2>0, <2>2 DEF ReplayOne
      <3>2. m \in 0..made /\ Tail(t.todo) \in Seq(0..made)
        BY <2>f, <3>1, HeadTailProperties
      <3>3. u \in Broadcaster
        <4>1. Tail(t.todo) \in Seq(Snap)
          BY <2>0, <3>1, HeadTailProperties DEF Broadcaster
        <4> QED
          BY <2>0, <4>1 DEF Broadcaster
      <3>4. CASE Accepts
        <4>1. task'[b] = [u EXCEPT !.sent = IF m > t.sent THEN m ELSE t.sent]
          BY <3>1, <3>4, <2>0 DEF Pushed, Broadcaster
        <4>2. /\ task'[b].todo = Tail(t.todo) /\ task'[b].hand = t.hand
              /\ task'[b].sent = (IF m > t.sent THEN m ELSE t.sent)
              /\ task'[b].pc = "replay" /\ task'[b].subscribed = t.subscribed
          BY <2>0, <3>1, <4>1 DEF Broadcaster
        <4>3. t.subscribed = FALSE
          BY <2>0, <3>1 DEF TaskInv, Broadcaster
        <4> HIDE DEF m
        <4> QED
          BY <1>a, <2>0, <2>f, <3>2, <4>2, <4>3 DEF TaskInv, ChangeKept
      <3>5. CASE ~Accepts
        BY <2>0, <3>1, <3>3, <3>5, DoneKept DEF Pushed, TaskInv, ChangeKept
      <3> QED
        BY <3>4, <3>5
    <2>3. CASE Subscribe(b)
      <3>1. task'[b] = [t EXCEPT !.pc = "select", !.subscribed = TRUE, !.joined = latest]
        BY <2>0, <2>3 DEF Subscribe
      <3> QED
        BY <1>a, <2>0, <2>f, <3>1 DEF TaskInv, ChangeKept, Broadcaster
    <2>4. CASE TakeSignal(b)
      <3>1. CASE Throttled /\ recent
        <4>1. task'[b] = [t EXCEPT !.signals = @ - 1, !.pending = TRUE] /\ t.pc = "select"
          BY <2>0, <2>4, <3>1 DEF TakeSignal
        <4> QED
          BY <2>0, <2>f, <4>1 DEF TaskInv, ChangeKept, Broadcaster
      <3>2. CASE ~(Throttled /\ recent)
        <4>1. task'[b] = [t EXCEPT !.signals = @ - 1, !.pc = "read"]
          BY <2>0, <2>4, <3>2 DEF TakeSignal
        <4> QED
          BY <2>0, <2>f, <4>1 DEF TaskInv, ChangeKept, Broadcaster
      <3> QED
        BY <3>1, <3>2
    <2>5. CASE CoalesceTick(b)
      <3>1. task'[b] = [t EXCEPT !.pc = "read"]
        BY <2>0, <2>5 DEF CoalesceTick
      <3> QED
        BY <2>0, <2>f, <3>1 DEF TaskInv, ChangeKept, Broadcaster
    <2>6. CASE ReadLatest(b)
      <3>1. CASE latest = 0
        <4>1. task'[b] = [t EXCEPT !.pc = "select", !.pending = FALSE]
          BY <2>0, <2>6, <3>1 DEF ReadLatest
        <4> QED
          BY <2>0, <2>f, <3>1, <4>1 DEF TaskInv, ChangeKept, Broadcaster
      <3>2. CASE latest # 0
        <4>1. task'[b] = [t EXCEPT !.pc = "send", !.hand = latest]
          BY <2>0, <2>6, <3>2 DEF ReadLatest
        <4>2. latest <= made
          BY <1>a DEF ChangeInv, NumbersInv
        <4> QED
          BY <1>a, <2>0, <2>f, <4>1, <4>2 DEF TaskInv, ChangeKept, Broadcaster
      <3> QED
        BY <3>1, <3>2
    <2>7. CASE SendLatest(b)
      <3> DEFINE u == [t EXCEPT !.pc = "select", !.pending = FALSE, !.hand = 0]
      <3>1. t.pc = "send" /\ task'[b] = Pushed(u, t.hand)
        BY <2>0, <2>7 DEF SendLatest
      <3>2. u \in Broadcaster
        BY <2>0, Empties DEF Broadcaster
      <3>3. CASE Accepts
        <4>1. task'[b] = [u EXCEPT !.sent = IF t.hand > t.sent THEN t.hand ELSE t.sent]
          BY <2>0, <3>1, <3>3 DEF Pushed, Broadcaster
        <4>2. latest \in {0, made}
          BY DEF ChangeInv, NumbersInv
        <4>3. /\ task'[b].pc = "select" /\ task'[b].todo = t.todo /\ task'[b].hand = 0
              /\ task'[b].sent = IF t.hand > t.sent THEN t.hand ELSE t.sent
              /\ task'[b].signals = t.signals /\ task'[b].joined = t.joined
              /\ task'[b].subscribed = t.subscribed
          BY <2>0, <4>1 DEF Broadcaster
        <4> QED
          BY <1>a, <2>0, <2>f, <3>1, <4>2, <4>3, SMTT(30) DEF TaskInv, ChangeKept
      <3>4. CASE ~Accepts
        BY <2>0, <3>1, <3>2, <3>4, DoneKept DEF Pushed, TaskInv, ChangeKept
      <3> QED
        BY <3>3, <3>4
    <2>8. CASE Return(b)
      <3>1. task'[b] = Done(t)
        BY <2>0, <2>8 DEF Return
      <3> QED
        BY <2>0, <3>1, DoneKept DEF TaskInv, ChangeKept
    <2> QED
      BY <1>3, <2>1, <2>2, <2>3, <2>4, <2>5, <2>6, <2>7, <2>8 DEF Broadcast
  <1>4. ASSUME NEW b \in Tasks, Hello(b) PROVE ChangeInv'
    BY <1>4, <1>a, <1>c, TaskFrame DEF Hello, feed
  <1>5. ASSUME NEW b \in Tasks, Unsubscribe(b) PROVE ChangeInv'
    <2>1. \A c \in Tasks : TaskInv(task[c])'
      BY <1>5, <1>a DEF Unsubscribe, feed, TaskInv, ChangeKept, Broadcaster, TypeOK
    <2> QED
      BY <1>5, <1>c, <2>1 DEF Unsubscribe
  <1>6. CASE Write
    BY <1>6, <1>a, <1>c, TaskFrame DEF Write, feed
  <1>7. CASE WriteFails
    BY <1>7, <1>a, <1>c, TaskFrame DEF WriteFails, feed
  <1>d. ASSUME NEW t \in Broadcaster, TaskInv(t)
        PROVE  TaskInv([t EXCEPT !.cancelled = TRUE])
    BY <1>d DEF TaskInv, ChangeKept, Broadcaster
  <1>8. CASE OnMessage
    <2>1. current \in 0..MaxSubs /\ current + 1 \in Tasks /\ (current # 0 => current \in Tasks)
      BY <1>8 DEF OnMessage, TypeOK, Tasks
    <2>2. ASSUME NEW c \in Tasks PROVE TaskInv(task[c])'
      <3>1. CASE c = current + 1
        <4>1. task'[c] = [Idle EXCEPT !.pc = "start", !.cancelled = stopped]
          BY <1>8, <2>1, <3>1, CancelledType DEF OnMessage, TypeOK
        <4>2. <<>> \in Seq(0..made)
          OBVIOUS
        <4>3. /\ task'[c].todo = <<>> /\ task'[c].hand = 0 /\ task'[c].sent = 0
              /\ task'[c].subscribed = FALSE
          BY <4>1 DEF Idle
        <4>4. made' = made
          BY <1>8 DEF OnMessage, feed
        <4>5. /\ task'[c].todo \in Seq(0..made')
              /\ task'[c].hand <= made' /\ task'[c].sent <= made'
          BY <1>a, <4>2, <4>3, <4>4
        <4> QED
          BY <4>3, <4>5 DEF TaskInv, ChangeKept
      <3>2. CASE c # current + 1
        <4>1. task'[c] = task[c] \/ task'[c] = [task[c] EXCEPT !.cancelled = TRUE]
          BY <1>8, <2>1, <3>2 DEF OnMessage, Cancelled, TypeOK
        <4> QED
          BY <1>8, <1>a, <1>d, <4>1 DEF OnMessage, feed, TaskInv, ChangeKept
      <3> QED
        BY <3>1, <3>2
    <2> QED
      BY <1>8, <1>c, <2>2 DEF OnMessage
  <1>9. CASE OnClose
    <2>1. ASSUME NEW c \in Tasks PROVE TaskInv(task[c])'
      <3>1. task'[c] = task[c] \/ task'[c] = [task[c] EXCEPT !.cancelled = TRUE]
        BY <1>9 DEF OnClose, Cancelled, TypeOK
      <3> QED
        BY <1>9, <1>a, <1>d, <3>1 DEF OnClose, feed, TaskInv, ChangeKept
    <2> QED
      BY <1>9, <1>c, <2>1 DEF OnClose
  <1>10. CASE StopSink
    <2>1. ASSUME NEW c \in Tasks PROVE TaskInv(task[c])'
      <3>1. task'[c] = task[c] \/ task'[c] = [task[c] EXCEPT !.cancelled = TRUE]
        BY <1>10 DEF StopSink
      <3> QED
        BY <1>10, <1>a, <1>d, <3>1 DEF StopSink, feed, TaskInv, ChangeKept
    <2> QED
      BY <1>10, <1>c, <2>1 DEF StopSink
  <1>11. CASE Elapse
    BY <1>11, <1>a, <1>c, TaskFrame DEF Elapse, feed
  <1>12. CASE UNCHANGED vars
    BY <1>12, <1>a, <1>c, TaskFrame DEF vars, feed
  <1> QED
    BY <1>1, <1>2, <1>3, <1>4, <1>5, <1>6, <1>7, <1>8, <1>9, <1>10, <1>11, <1>12 DEF Next

\* Whatever the channel's buffer and the push rate, a consumer's broadcaster never
\* drops a change that came after its subscription.
THEOREM ChangesKept == Spec => []NoChangeMissed
  <1>1. ChangeInv => NoChangeMissed
    BY DEF ChangeInv, TaskInv, NoChangeMissed
  <1> QED
    BY <1>1, TypeInit, TypeStep, ChangeInit, ChangeStep, PTL DEF Spec

\* A connection starts without a broadcaster.
LEMMA ServedInit == Init => ServedInv
  BY DEF Init, ServedInv

\* Every step keeps an open connection served.
LEMMA ServedStep == TypeOK /\ ServedInv /\ [Next]_vars => ServedInv'
  <1> SUFFICES ASSUME TypeOK, ServedInv, [Next]_vars,
                      conn' = "open", ~stopped', current' # 0
               PROVE  ~task'[current'].cancelled /\ (task'[current'].pc = "done" => sender' = "closed")
    BY DEF ServedInv
  <1> USE SinkAssumption
  <1>a. ASSUME UNCHANGED <<conn, stopped, current>>
        PROVE  /\ ~task[current].cancelled /\ current \in Tasks /\ task[current] \in Broadcaster
               /\ task[current].pc = "done" => sender = "closed"
    BY <1>a DEF ServedInv, TypeOK, Tasks
  <1>1. ASSUME NEW w \in Writers, RingAppend(w) PROVE ServedInv'
    BY <1>1, <1>a DEF RingAppend, session, ServedInv
  <1>2. ASSUME NEW w \in Writers, NEW changed \in BOOLEAN, Merge(w, changed) PROVE ServedInv'
    <2>1. UNCHANGED <<conn, stopped, current, sender>>
      BY <1>2 DEF Merge, session
    <2>2. task'[current].cancelled = task[current].cancelled /\ task'[current].pc = task[current].pc
      BY <1>2, <1>a, <2>1 DEF Merge, Signalled, Broadcaster
    <2> QED
      BY <1>a, <2>1, <2>2 DEF ServedInv
  <1>3. ASSUME NEW b \in Tasks, Broadcast(b) PROVE ServedInv'
    <2>0. UNCHANGED <<conn, stopped, current>> /\ \A c \in Tasks \ {b} : task'[c] = task[c]
      BY <1>3 DEF Broadcast, Replay, ReplayOne, Subscribe, TakeSignal, CoalesceTick,
                  ReadLatest, SendLatest, Return, session, TypeOK
    <2>1. sender = "closed" => sender' = "closed"
      BY <1>3 DEF Broadcast, Replay, ReplayOne, Subscribe, TakeSignal, CoalesceTick,
                  ReadLatest, SendLatest, Return, Send, Accepts, Close
    <2>2. CASE b # current
      BY <1>a, <2>0, <2>1, <2>2 DEF ServedInv
    <2>3. CASE b = current
      <3> DEFINE t == task[b]
      <3>0. t \in Broadcaster /\ t.cancelled = FALSE /\ b \in DOMAIN task
        BY <1>a, <2>0, <2>3 DEF Broadcaster, TypeOK
      <3>1. CASE ReplayOne(b)
        <4> DEFINE u == [t EXCEPT !.todo = Tail(t.todo)]
        <4>1. task'[b] = Pushed(u, Head(t.todo)) /\ t.pc = "replay" /\ Send(Head(t.todo))
              /\ t.todo # <<>>
          BY <3>0, <3>1 DEF ReplayOne
        <4>2. u \in Broadcaster /\ u.cancelled = FALSE /\ u.pc = "replay"
          <5>1. Tail(t.todo) \in Seq(Snap)
            BY <3>0, <4>1, HeadTailProperties DEF Broadcaster
          <5> QED
            BY <3>0, <4>1, <5>1 DEF Broadcaster
        <4>3. task'[b].cancelled = FALSE /\ (task'[b].pc = "done" => ~Accepts)
          BY <4>1, <4>2, DoneFields DEF Pushed, Broadcaster
        <4> QED
          BY <2>0, <2>3, <4>1, <4>3 DEF ServedInv, Send, Close
      <3>2. CASE SendLatest(b)
        <4> DEFINE u == [t EXCEPT !.pc = "select", !.pending = FALSE, !.hand = 0]
        <4>1. task'[b] = Pushed(u, t.hand) /\ Send(t.hand)
          BY <3>0, <3>2 DEF SendLatest
        <4>2. u \in Broadcaster /\ u.cancelled = FALSE /\ u.pc = "select"
          BY <3>0, Empties DEF Broadcaster
        <4>3. task'[b].cancelled = FALSE /\ (task'[b].pc = "done" => ~Accepts)
          BY <4>1, <4>2, DoneFields DEF Pushed, Broadcaster
        <4> QED
          BY <2>0, <2>3, <4>1, <4>3 DEF ServedInv, Send, Close
      <3>3. CASE Return(b)
        BY <3>0, <3>3 DEF Return
      <3>4. CASE Replay(b) \/ Subscribe(b) \/ TakeSignal(b) \/ CoalesceTick(b) \/ ReadLatest(b)
        <4>1. task'[b].cancelled = FALSE /\ task'[b].pc # "done"
          BY <3>0, <3>4 DEF Replay, Subscribe, TakeSignal, CoalesceTick, ReadLatest, Broadcaster
        <4> QED
          BY <2>0, <2>3, <4>1 DEF ServedInv
      <3> QED
        BY <1>3, <3>1, <3>2, <3>3, <3>4 DEF Broadcast
    <2> QED
      BY <2>2, <2>3
  <1>4. ASSUME NEW b \in Tasks, Hello(b) PROVE ServedInv'
    BY <1>4, <1>a DEF Hello, session, ServedInv, Send, Accepts, Close
  <1>5. ASSUME NEW b \in Tasks, Unsubscribe(b) PROVE ServedInv'
    <2>1. UNCHANGED <<conn, stopped, current, sender>>
      BY <1>5 DEF Unsubscribe, session
    <2>2. task'[current].cancelled = task[current].cancelled /\ task'[current].pc = task[current].pc
      BY <1>5, <1>a, <2>1 DEF Unsubscribe, Broadcaster, TypeOK
    <2> QED
      BY <1>a, <2>1, <2>2 DEF ServedInv
  <1>6. CASE Write
    BY <1>6, <1>a DEF Write, session, ServedInv
  <1>7. CASE WriteFails
    BY <1>7, <1>a DEF WriteFails, Close, session, ServedInv
  <1>8. CASE OnMessage
    <2>1. current + 1 \in Tasks /\ current' = current + 1 /\ stopped = FALSE
      BY <1>8 DEF OnMessage, TypeOK, Tasks
    <2>2. task'[current'] = [Idle EXCEPT !.pc = "start", !.cancelled = stopped]
      BY <1>8, <2>1, CancelledType DEF OnMessage, TypeOK
    <2>3. task'[current'].cancelled = FALSE /\ task'[current'].pc = "start"
      BY <2>1, <2>2 DEF Idle
    <2> QED
      BY <2>3 DEF ServedInv
  <1>9. CASE OnClose
    BY <1>9 DEF OnClose
  <1>10. CASE StopSink
    BY <1>10 DEF StopSink
  <1>11. CASE Elapse
    BY <1>11, <1>a DEF Elapse, session, ServedInv
  <1>12. CASE UNCHANGED vars
    BY <1>12, <1>a DEF vars, ServedInv
  <1> QED
    BY <1>1, <1>2, <1>3, <1>4, <1>5, <1>6, <1>7, <1>8, <1>9, <1>10, <1>11, <1>12
       DEF Next, ServedInv

\* A consumer that is not served any more has been disconnected, whatever races
\* between its messages, its broadcasters and the writer.
THEOREM OpenServed == Spec => []OpenIsServed
  <1>1. TypeOK /\ ServedInv => OpenIsServed
    BY DEF ServedInv, OpenIsServed, TypeOK
  <1> QED
    BY <1>1, TypeInit, TypeStep, ServedInit, ServedStep, PTL DEF Spec
=============================================================================
