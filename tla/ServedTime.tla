----------------------------- MODULE ServedTime -----------------------------
(***************************************************************************)
(* What survives a restart: the persisted served-time marks                 *)
(* (internal/cache/asofstore.go), the persisted replay ring                 *)
(* (replaybuffer.go), and the Service calls and shutdown order that feed    *)
(* them (service.go, lifecycle.go, merge.go commit, cli/serve.go).          *)
(*                                                                          *)
(* A writer (a vehicle's poll loop or one of its stream read loops) merges  *)
(* under the Merger's lock, which stamps the served time and advances the   *)
(* mark in the same critical section, and appends the snapshot the merge    *)
(* RETURNED to the ring in a second one.  Both files are written at most    *)
(* once per interval, by whoever comes after it; a failed write counts as   *)
(* one.  The process may crash between any two steps, or be stopped: the    *)
(* marks are flushed, then the ring, and writers go on until it exits.      *)
(*                                                                          *)
(* A snapshot is its three times; 0 is Go's zero time.                      *)
(***************************************************************************)
EXTENDS Integers, Sequences

CONSTANTS
    Vehicles,
    Loops,      \* the read loops a vehicle's stream may have at once
    FlushEvery, \* asofFlushInterval, replayFlushInterval
    Depth,      \* the depth of a ring
    MaxSkew,    \* how old FetchedAt may be when the merge takes the lock
    MaxClock    \* bound of the model: the last instant

ASSUME ConstantsAssumption ==
    /\ "poll" \notin Loops
    /\ FlushEvery \in Nat \ {0} /\ Depth \in Nat \ {0}
    /\ MaxSkew \in Nat /\ MaxClock \in Nat \ {0}

Time    == Nat
Writers == Vehicles \X ({"poll"} \union Loops)

VARIABLES
    clock,
    phase,      \* the process: up, stopping (context cancelled), flushed, down
    snap,       \* each Merger's snapshot: its times
    marks,      \* asofStore: marks in memory and in the file, lastFlushed, last write failed?
    rings,      \* replayBuffer: rings in memory and in the file, lastFlushed, last write failed?
    returned,   \* what a writer's merge returned and it has yet to append
    appendedAt  \* history: the time of the last append

vars == <<clock, phase, snap, marks, rings, returned, appendedAt>>

Times == [data: BOOLEAN, fetchedAt: Time, streamFields: Time, asOf: Time]

\* A buffered snapshot: the time a replay of it emits and (history) when it was
\* appended.
Entry   == [emits: Time, at: Time]
NoEntry == [emits |-> 0, at |-> 0]

Ring == {r \in Seq(Entry) : Len(r) <= Depth}

TypeOK ==
    /\ clock \in 1..MaxClock
    /\ phase \in {"up", "stopping", "flushed", "down"}
    /\ snap \in [Vehicles -> Times]
    /\ marks \in [mem: [Vehicles -> Time], file: [Vehicles -> Time],
                  flushed: Time, failed: BOOLEAN]
    /\ rings \in [mem: [Vehicles -> Ring], file: [Vehicles -> Ring],
                  flushed: Time, failed: BOOLEAN]
    /\ returned \in [Writers -> Entry]
    /\ appendedAt \in Time

-----------------------------------------------------------------------------

Later(a, b) == IF a > b THEN a ELSE b

\* Faulty variant: the write waits for more than the interval.
DueLate(store) == store.flushed = 0 \/ clock - store.flushed > FlushEvery

\* time.Since(lastFlushed) >= interval; nothing was flushed since the start at 0.
Due(store) == store.flushed = 0 \/ clock - store.flushed >= FlushEvery

\* persist: the file is replaced as a whole or, when the write fails, not at
\* all; lastFlushed advances either way.
Persisted(store, ok) ==
    [mem |-> store.mem, file |-> IF ok THEN store.mem ELSE store.file,
     flushed |-> clock, failed |-> ~ok]

\* asofStore.Advance.
Advanced(v, at, ok) ==
    IF at <= marks.mem[v] THEN marks
    ELSE LET new == [marks EXCEPT !.mem[v] = at]
         IN  IF Due(marks) THEN Persisted(new, ok) ELSE new

\* Snapshot.AsOfTime.
AsOfTime(s) == IF s.asOf # 0 THEN s.asOf ELSE Later(s.fetchedAt, s.streamFields)

\* The snapshot a merge of a poll or of a frame hands to commit, and returns.
PollOut(v, t) == [snap[v] EXCEPT !.data = TRUE, !.fetchedAt = t, !.asOf = 0]
FrameOut(v, t) ==
    IF ~snap[v].data THEN [data |-> TRUE, fetchedAt |-> t, streamFields |-> t, asOf |-> 0]
    ELSE [snap[v] EXCEPT !.streamFields = t]

\* Faulty variant: a poll does not advance the served time.
StampFramesOnly(v, s) == Later(snap[v].asOf, s.streamFields)

\* commit stamps its own copy of the snapshot it is given.
Stamp(v, s) == Later(snap[v].asOf, Later(s.fetchedAt, s.streamFields))

Merge(w, out) ==
    \E ok \in BOOLEAN :
        LET v == w[1]
        IN  /\ phase # "down" /\ returned[w] = NoEntry
            /\ snap' = [snap EXCEPT ![v] = [out EXCEPT !.asOf = Stamp(v, out)]]
            /\ marks' = Advanced(v, Stamp(v, out), ok)
            /\ returned' = [returned EXCEPT ![w] =
                  [emits |-> AsOfTime(out), at |-> 0]]
            /\ UNCHANGED <<clock, phase, rings, appendedAt>>

Recent == {t \in 1..clock : clock - t <= MaxSkew}

MergePoll(v) == \E t \in Recent : Merge(<<v, "poll">>, PollOut(v, t))
PutFrame(v, l) == \E t \in Recent : Merge(<<v, l>>, FrameOut(v, t))

\* replayBuffer.Append: evict the oldest past the depth, write when due.
Pushed(ring, e) ==
    LET longer == Append(ring, e)
    IN  IF Len(longer) > Depth THEN Tail(longer) ELSE longer

AppendRing(w) ==
    \E ok \in BOOLEAN :
        LET v   == w[1]
            new == [rings EXCEPT !.mem[v] =
                       Pushed(rings.mem[v], [returned[w] EXCEPT !.at = clock])]
        IN  /\ returned[w] # NoEntry
            /\ rings' = IF Due(rings) THEN Persisted(new, ok) ELSE new
            /\ returned' = [returned EXCEPT ![w] = NoEntry]
            /\ appendedAt' = clock
            /\ UNCHANGED <<clock, phase, snap, marks>>

-----------------------------------------------------------------------------
(* Shutdown, crash and start.                                               *)

\* ShutdownOn, once the context is cancelled: the marks first, then the rings.
FlushAsOf ==
    /\ phase = "up"
    /\ \E ok \in BOOLEAN : marks' = Persisted(marks, ok)
    /\ phase' = "stopping"
    /\ UNCHANGED <<clock, snap, rings, returned, appendedAt>>

FlushReplay ==
    /\ phase = "stopping"
    /\ \E ok \in BOOLEAN : rings' = Persisted(rings, ok)
    /\ phase' = "flushed"
    /\ UNCHANGED <<clock, snap, marks, returned, appendedAt>>

\* The process ends, after a shutdown or by a crash: memory is gone.
Down ==
    /\ phase # "down"
    /\ phase' = "down"
    /\ snap' = [v \in Vehicles |->
                   [data |-> FALSE, fetchedAt |-> 0, streamFields |-> 0, asOf |-> 0]]
    /\ marks' = [marks EXCEPT !.mem = marks.file, !.flushed = 0, !.failed = FALSE]
    /\ rings' = [rings EXCEPT !.mem = rings.file, !.flushed = 0, !.failed = FALSE]
    /\ returned' = [w \in Writers |-> NoEntry]
    /\ appendedAt' = 0
    /\ UNCHANGED clock

\* NewService: load both files and seed every Merger with its mark.
Boot ==
    /\ phase = "down"
    /\ phase' = "up"
    /\ snap' = [v \in Vehicles |-> [snap[v] EXCEPT !.asOf = marks.mem[v]]]
    /\ UNCHANGED <<clock, marks, rings, returned, appendedAt>>

Tick ==
    /\ clock < MaxClock
    /\ clock' = clock + 1
    /\ UNCHANGED <<phase, snap, marks, rings, returned, appendedAt>>

Init ==
    /\ clock = 1
    /\ phase = "up"
    /\ snap = [v \in Vehicles |->
                  [data |-> FALSE, fetchedAt |-> 0, streamFields |-> 0, asOf |-> 0]]
    /\ marks = [mem |-> [v \in Vehicles |-> 0], file |-> [v \in Vehicles |-> 0],
                flushed |-> 0, failed |-> FALSE]
    /\ rings = [mem |-> [v \in Vehicles |-> <<>>], file |-> [v \in Vehicles |-> <<>>],
                flushed |-> 0, failed |-> FALSE]
    /\ returned = [w \in Writers |-> NoEntry]
    /\ appendedAt = 0

Next ==
    \/ Tick
    \/ \E v \in Vehicles : MergePoll(v) \/ \E l \in Loops : PutFrame(v, l)
    \/ \E w \in Writers : AppendRing(w)
    \/ FlushAsOf \/ FlushReplay \/ Down \/ Boot

Spec == Init /\ [][Next]_vars

-----------------------------------------------------------------------------
(* Properties.                                                              *)

\* The file lacks only what was served less than one interval after the last
\* write: no advance waits longer for a writer that comes after the interval.
UnsavedMarkIsRecent ==
    phase # "down" /\ ~marks.failed => \A v \in Vehicles :
        snap[v].asOf # marks.file[v]
            => marks.flushed # 0 /\ snap[v].asOf < marks.flushed + FlushEvery

\* Everything but the tail of the ring survives a crash: an entry appended a
\* full interval before the latest one is in the file.
OnlyTailUnsaved ==
    ~rings.failed => \A v \in Vehicles : \A i \in 1..Len(rings.mem[v]) :
        rings.mem[v][i].at # 0 /\ rings.mem[v][i].at + FlushEvery <= appendedAt
            => \E j \in 1..Len(rings.file[v]) : rings.file[v][j] = rings.mem[v][i]

\* A consumer that is sent the ring and then the live snapshot is not taken back
\* in time by more than the wait of a writer for the Merger, even when the ring
\* was read from disk and is newer than the persisted mark.
LiveFollowsReplay ==
    \A v \in Vehicles : snap[v].data =>
        \A i \in 1..Len(rings.mem[v]) : rings.mem[v][i].emits <= snap[v].asOf + MaxSkew
=============================================================================
