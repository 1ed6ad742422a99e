----------------------------- MODULE StreamSink -----------------------------
(***************************************************************************)
(* One consumer's connection to the data:update streaming sink: the event  *)
(* handlers and the broadcasters of internal/protocol/tesla/stream/v1/     *)
(* sink.go, its Sender (internal/transport/wssutil/ws.go), and the vehicle *)
(* it watches as the sink sees it: the latest snapshot, the change         *)
(* channels (cache/merge.go) and the replay ring (cache/replaybuffer.go).  *)
(*                                                                         *)
(* A snapshot is its number: each one that differs from the last has the   *)
(* next number, 0 is a snapshot without state, and a keepalive is a frame  *)
(* numbered 0.  A broadcaster replays the ring, subscribes, and then reads *)
(* the latest snapshot at each change; a second subscribe message cancels  *)
(* it and starts another without waiting for it to end.                    *)
(***************************************************************************)
EXTENDS Integers, Sequences

CONSTANTS
    Writers,       \* goroutines that merge: the poll loop and read loops
    Depth,         \* depth of the replay ring, 0 when it is disabled
    SendBuf,       \* the Sender's buffer
    SubscriberBuf, \* the buffer of a change channel
    Throttled,     \* is there a minimum push interval?
    Saved,         \* the length of the ring the state file holds
    MaxSnap,       \* bound of the model: snapshots ever served
    MaxSubs        \* bound of the model: subscribe messages on the connection

ASSUME SinkAssumption ==
    /\ Depth \in Nat /\ SendBuf \in Nat \ {0} /\ SubscriberBuf \in Nat \ {0}
    /\ Throttled \in BOOLEAN /\ MaxSnap \in Nat \ {0} /\ MaxSubs \in Nat
    /\ Saved \in Nat /\ Saved <= Depth /\ Saved <= MaxSnap

Snap  == 0..MaxSnap
Tasks == 1..MaxSubs \* the broadcasters, by the subscribe message that starts each

VARIABLES
    made,     \* the number of the last snapshot ever served
    latest,   \* the number of the snapshot Latest returns
    ring,     \* what Replay returns
    merged,   \* what a writer merged and has yet to append
    conn,     \* the consumer's connection: open, or closed once OnClose ran
    stopped,  \* the sink's context is cancelled
    current,  \* connState.cancel: the broadcaster it cancels, 0 for none
    recent,   \* the last push is less than the minimum interval ago
    sender,   \* the Sender: open or closed
    buf,      \* the Sender's buffer
    task,     \* the broadcasters
    received  \* history: the newest snapshot the consumer has been written

vars == <<made, latest, ring, merged, conn, stopped, current, recent, sender, buf,
          task, received>>

feed    == <<made, latest, ring, merged>>
session == <<conn, stopped, current>>

\* A broadcaster: what is left to replay, the snapshot it is about to send, its
\* change channel, and (history) the newest it has sent and the latest snapshot
\* when it subscribed.
Broadcaster ==
    [pc: {"idle", "start", "replay", "select", "read", "send", "done"},
     todo: Seq(Snap), hand: Snap, signals: 0..SubscriberBuf, pending: BOOLEAN,
     subscribed: BOOLEAN, cancelled: BOOLEAN, sent: Snap, joined: Snap]

Idle == [pc |-> "idle", todo |-> <<>>, hand |-> 0, signals |-> 0, pending |-> FALSE,
         subscribed |-> FALSE, cancelled |-> FALSE, sent |-> 0, joined |-> 0]

TypeOK ==
    /\ made \in Snap /\ latest \in Snap /\ received \in Snap
    /\ ring \in Seq(Snap) /\ Len(ring) <= Depth
    /\ merged \in [Writers -> Snap]
    /\ conn \in {"open", "closed"} /\ stopped \in BOOLEAN
    /\ current \in 0..MaxSubs
    /\ recent \in BOOLEAN
    /\ sender \in {"open", "closed"}
    /\ buf \in Seq(Snap) /\ Len(buf) <= SendBuf
    /\ task \in [Tasks -> Broadcaster]

\* The process has just started, with or without a ring in the file, and the
\* consumer's connection has just been accepted.
Init ==
    /\ made = Saved /\ ring = [i \in 1..Saved |-> i]
    /\ latest = 0 /\ merged = [w \in Writers |-> 0]
    /\ conn = "open" /\ stopped = FALSE /\ current = 0
    /\ recent = FALSE /\ sender = "open" /\ buf = <<>>
    /\ task = [b \in Tasks |-> Idle]
    /\ received = 0

-----------------------------------------------------------------------------
(* The vehicle.                                                             *)

\* commit: store and signal every subscriber of a change, without blocking.  What
\* the channel of a broadcaster that has returned holds is read by nobody.
Signalled(t) ==
    [b \in Tasks |->
        IF t[b].subscribed /\ t[b].pc # "done" /\ t[b].signals < SubscriberBuf
        THEN [t[b] EXCEPT !.signals = @ + 1] ELSE t[b]]

Merge(w, changed) ==
    /\ merged[w] = 0
    /\ IF changed
       THEN made < MaxSnap /\ made' = made + 1 /\ latest' = made'
       ELSE latest # 0 /\ UNCHANGED <<made, latest>>
    /\ merged' = [merged EXCEPT ![w] = latest']
    /\ task' = IF changed THEN Signalled(task) ELSE task
    /\ UNCHANGED <<ring, session, recent, sender, buf, received>>

\* replayBuffer.Append, after the merge returned.
Evicting(r, s) == IF Len(r) < Depth THEN Append(r, s) ELSE Append(Tail(r), s)

RingAppend(w) ==
    /\ merged[w] # 0
    /\ ring' = IF Depth = 0 THEN ring ELSE Evicting(ring, merged[w])
    /\ merged' = [merged EXCEPT ![w] = 0]
    /\ UNCHANGED <<made, latest, session, recent, sender, buf, task, received>>

\* The goroutine Merger.Subscribe starts: drop the channel when the context ends.
Unsubscribe(b) ==
    /\ task[b].subscribed /\ task[b].cancelled
    /\ task' = [task EXCEPT ![b].subscribed = FALSE]
    /\ UNCHANGED <<feed, session, recent, sender, buf, received>>

-----------------------------------------------------------------------------
(* Sender.                                                                  *)

\* Close, and the connection with it: what is buffered is written no more.
Close == sender' = "closed" /\ buf' = <<>>

\* Send enqueues, or refuses: when it is closed, and when the buffer is full, which
\* closes it.
Accepts == sender = "open" /\ Len(buf) < SendBuf

\* Faulty variant: a message that does not fit is dropped.
SendDropping(m) == IF Accepts THEN buf' = Append(buf, m) /\ sender' = sender
                   ELSE UNCHANGED <<buf, sender>>

Send(m) == IF Accepts THEN buf' = Append(buf, m) /\ sender' = sender ELSE Close

\* writeLoop: a message is written, unless the write fails or times out.
Write ==
    /\ sender = "open" /\ buf # <<>>
    /\ buf' = Tail(buf)
    /\ received' = IF Head(buf) > received THEN Head(buf) ELSE received
    /\ UNCHANGED <<feed, session, recent, sender, task>>

WriteFails ==
    /\ sender = "open" /\ buf # <<>>
    /\ Close
    /\ UNCHANGED <<feed, session, recent, task, received>>

-----------------------------------------------------------------------------
(* The connection's event handlers, which its read loop calls in turn.      *)

\* Faulty variant: the context is kept.
CancelledNever(t, b) == t

Cancelled(t, b) == IF b = 0 THEN t ELSE [t EXCEPT ![b].cancelled = TRUE]

\* A subscribe message for a vehicle the sink serves: greet, cancel the previous
\* broadcaster and start one.
OnMessage ==
    /\ conn = "open" /\ current < MaxSubs
    /\ Send(0)
    /\ task' = [Cancelled(task, current) EXCEPT
                   ![current + 1] = [Idle EXCEPT !.pc = "start", !.cancelled = stopped]]
    /\ current' = current + 1
    /\ UNCHANGED <<feed, conn, stopped, recent, received>>

\* The consumer left, broke the protocol, or its connection was closed.
OnClose ==
    /\ conn = "open" /\ conn' = "closed"
    /\ task' = Cancelled(task, current)
    /\ Close
    /\ UNCHANGED <<feed, stopped, current, recent, received>>

\* The sink's own context ends; upgraded connections stay open.
StopSink ==
    /\ ~stopped /\ stopped' = TRUE
    /\ task' = [b \in Tasks |-> IF task[b].pc = "idle" THEN task[b]
                                ELSE [task[b] EXCEPT !.cancelled = TRUE]]
    /\ UNCHANGED <<feed, conn, current, recent, sender, buf, received>>

-----------------------------------------------------------------------------
(* broadcast.                                                               *)

\* A broadcaster that has returned: only its channel and its context are left.
Done(t) == [Idle EXCEPT !.pc = "done", !.subscribed = t.subscribed, !.cancelled = t.cancelled]

\* A broadcaster after pushSnap: refused, it returns.
Pushed(t, m) ==
    IF Accepts THEN [t EXCEPT !.sent = IF m > @ THEN m ELSE @] ELSE Done(t)

Replay(b) ==
    /\ task[b].pc = "start"
    /\ task' = [task EXCEPT ![b].pc = "replay", ![b].todo = ring]
    /\ UNCHANGED <<feed, session, recent, sender, buf, received>>

ReplayOne(b) ==
    /\ task[b].pc = "replay" /\ task[b].todo # <<>>
    /\ Send(Head(task[b].todo))
    /\ task' = [task EXCEPT ![b] = Pushed([@ EXCEPT !.todo = Tail(task[b].todo)],
                                          Head(@.todo))]
    /\ recent' = TRUE
    /\ UNCHANGED <<feed, session, received>>

Subscribe(b) ==
    /\ task[b].pc = "replay" /\ task[b].todo = <<>>
    /\ task' = [task EXCEPT ![b].pc = "select", ![b].subscribed = TRUE,
                            ![b].joined = latest]
    /\ UNCHANGED <<feed, session, recent, sender, buf, received>>

\* Faulty variant: a change too soon after the last push is dropped.
TakeSignalDropping(b) ==
    /\ task[b].pc = "select" /\ task[b].signals > 0
    /\ task' = IF Throttled /\ recent THEN [task EXCEPT ![b].signals = @ - 1]
               ELSE [task EXCEPT ![b].signals = @ - 1, ![b].pc = "read"]
    /\ UNCHANGED <<feed, session, recent, sender, buf, received>>

\* A change: too soon after the last push it is left to the tick.
TakeSignal(b) ==
    /\ task[b].pc = "select" /\ task[b].signals > 0
    /\ task' = IF Throttled /\ recent
               THEN [task EXCEPT ![b].signals = @ - 1, ![b].pending = TRUE]
               ELSE [task EXCEPT ![b].signals = @ - 1, ![b].pc = "read"]
    /\ UNCHANGED <<feed, session, recent, sender, buf, received>>

\* Faulty variant: the tick pushes only when yet another change has come.
CoalesceTickLate(b) ==
    /\ task[b].pc = "select" /\ Throttled /\ task[b].pending /\ ~recent
    /\ task[b].signals > 0
    /\ task' = [task EXCEPT ![b].pc = "read"]
    /\ UNCHANGED <<feed, session, recent, sender, buf, received>>

CoalesceTick(b) ==
    /\ task[b].pc = "select" /\ Throttled /\ task[b].pending /\ ~recent
    /\ task' = [task EXCEPT ![b].pc = "read"]
    /\ UNCHANGED <<feed, session, recent, sender, buf, received>>

\* push: read the latest snapshot, in whatever state the wait has left it.  Two
\* broadcasters write lastPush unsynchronized; reading it torn compares with one
\* write or the other, which the order of their steps gives as well.
ReadLatest(b) ==
    /\ task[b].pc = "read"
    /\ IF latest = 0
       THEN /\ task' = [task EXCEPT ![b].pc = "select", ![b].pending = FALSE]
            /\ recent' = recent
       ELSE /\ task' = [task EXCEPT ![b].pc = "send", ![b].hand = latest]
            /\ recent' = TRUE
    /\ UNCHANGED <<feed, session, sender, buf, received>>

SendLatest(b) ==
    /\ task[b].pc = "send"
    /\ Send(task[b].hand)
    /\ task' = [task EXCEPT ![b] =
                    Pushed([@ EXCEPT !.pc = "select", !.pending = FALSE, !.hand = 0], @.hand)]
    /\ UNCHANGED <<feed, session, recent, received>>

\* The keepalive; whether it was sent is not looked at.
Hello(b) ==
    /\ task[b].pc = "select"
    /\ Send(0)
    /\ UNCHANGED <<feed, session, recent, task, received>>

\* The context is done, or its end has closed the channel.
Return(b) ==
    /\ task[b].pc = "select" /\ task[b].cancelled
    /\ task' = [task EXCEPT ![b] = Done(@)]
    /\ UNCHANGED <<feed, session, recent, sender, buf, received>>

\* The minimum interval since the last push has passed.
Elapse ==
    /\ recent /\ recent' = FALSE
    /\ UNCHANGED <<feed, session, sender, buf, task, received>>

Broadcast(b) ==
    \/ Replay(b) \/ ReplayOne(b) \/ Subscribe(b) \/ TakeSignal(b)
    \/ CoalesceTick(b) \/ ReadLatest(b) \/ SendLatest(b) \/ Return(b)

Next ==
    \/ \E w \in Writers : RingAppend(w) \/ \E changed \in BOOLEAN : Merge(w, changed)
    \/ \E b \in Tasks : Broadcast(b) \/ Hello(b) \/ Unsubscribe(b)
    \/ Write \/ WriteFails
    \/ OnMessage \/ OnClose \/ StopSink \/ Elapse

Spec == Init /\ [][Next]_vars

\* Every goroutine goes on: a broadcaster while it has a step to take, in whatever
\* order its select picks the cases that are ready, the writer, and the clock.
FairSpec ==
    /\ Spec
    /\ \A b \in Tasks : WF_vars(Broadcast(b))
    /\ WF_vars(Write \/ WriteFails) /\ WF_vars(Elapse)

-----------------------------------------------------------------------------
(* Properties.                                                              *)

\* What a broadcaster owes its consumer: a signal waits, a tick is due, the latest
\* is being read or sent, or it has been sent.
ChangeKept(t) ==
    t.subscribed /\ t.pc # "done" /\ latest > t.joined =>
        \/ t.signals > 0 \/ t.pending \/ t.pc = "read"
        \/ t.pc = "send" /\ t.hand = latest
        \/ t.sent = latest

\* A change after the subscription is never dropped between the full channel, the
\* coalescing and the push.
NoChangeMissed == \A b \in Tasks : ChangeKept(task[b])

\* A consumer whose broadcaster has returned does not stay connected, greeted
\* and fed by nobody: the refusal that ended it has closed its connection.
OpenIsServed ==
    conn = "open" /\ ~stopped /\ current # 0 /\ task[current].pc = "done"
        => sender # "open"

Behind ==
    \E b \in Tasks : /\ task[b].subscribed /\ ~task[b].cancelled
                     /\ sender = "open"
                     /\ task[b].joined < latest /\ received < latest

\* A subscribed consumer that reads is written the last change, however the
\* throttle and a broadcaster it replaced come in between.
CatchesUp == Behind ~> ~Behind

Orphan(b) ==
    /\ task[b].pc \notin {"idle", "done"}
    /\ b # current \/ conn = "closed" \/ stopped

Orphans == {b \in Tasks : Orphan(b)}

\* No broadcaster outlives the subscription, the connection or the sink it served:
\* whenever some do, a moment comes when none is left.
OrphansEnd == Orphans # {} ~> Orphans = {}
=============================================================================
