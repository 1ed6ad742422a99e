------------------------------- MODULE Merger -------------------------------
(***************************************************************************)
(* The per-vehicle cache writer (internal/cache/merge.go, trigger.go,       *)
(* session.go and the parts of service.go that call them).                  *)
(*                                                                          *)
(* Two kinds of actors write one served snapshot under the Merger's mutex:  *)
(* the poll loop (one poll in flight at a time) and the stream's read loops *)
(* (two of them overlap for a moment when the vendor recycles the           *)
(* connection, so frames may be merged out of receive order).  Each merge   *)
(* is one critical section and therefore one action.                        *)
(*                                                                          *)
(* Data abstraction.  A streamed field's value is represented by the        *)
(* instant at which it was observed (snap.at[f]; 0 when the state holds no  *)
(* value), because the merge only ever decides WHOSE observation is served. *)
(* The gear keeps its value as well: the boundary detectors read it.  A     *)
(* live charging session is "none" (nil), "idle" (non-nil, 0 kW) or         *)
(* "charging" (PowerKw > 0).  Time is a bounded clock; 0 is Go's zero time. *)
(***************************************************************************)
EXTENDS Integers

CONSTANTS
    Streamed,      \* the state fields a push source may own (streamedFields)
    Anchored,      \* the ones with an implied-velocity anchor (gpsAt, odoAt)
    Ranged,        \* the ones with an absolute range (SOC, speed)
    PollResults,   \* what a poll may report
    Frames,        \* what a stream frame may carry
    StaleAfter,    \* poll.stale_after
    FreshWithin,   \* poll.stream_fresh_within; 0 disables the recycle gate
    FlapWindow,    \* driveFlapWindow
    WakeFrames,    \* wakeFrameThreshold
    WakeWindow,    \* wakeSustainWindow
    SleepConfirm,  \* offlineSleepConfirmPolls
    Subscribers,   \* the consumers that may subscribe to changes
    SubBuf,        \* subscriberBuf
    MaxSkew,       \* how long a frame may wait between its receive time and its merge
    ChargeBound,   \* bound of the model: |charges opened - charges closed|
    MaxClock       \* bound of the model: the last instant

Power == {"unknown", "offline", "online", "asleep"}
Gear  == {"none", "park", "drive"}
Live  == {"none", "idle", "charging"}
Time  == Nat

\* What the source answers: liveness, the fields it carries and the live
\* session.  Only an online car is asked for vehicle_data; an offline or
\* asleep answer is bare.
PollResult ==
    [power: Power, has: SUBSET Streamed, gear: Gear, live: Live]

\* What a frame carries: state fields, a charge-power reading (absent, 0 kW or
\* more) and whether it carries another charge field (current, energy).
Frame ==
    [has: SUBSET Streamed, gear: Gear, charge: {"absent", "zero", "kw"}, amps: BOOLEAN]

ASSUME FieldsAssumption ==
    /\ "gear" \in Streamed
    /\ Anchored \subseteq Streamed \ {"gear"} /\ Ranged \subseteq Streamed \ {"gear"}

ASSUME InputsAssumption ==
    /\ PollResults \subseteq PollResult
    /\ \A r \in PollResults : r.power # "online" => r.has = {} /\ r.live = "none"
    /\ \A r \in PollResults : "gear" \in r.has <=> r.gear # "none"
    /\ Frames \subseteq Frame
    /\ \A fr \in Frames : "gear" \in fr.has <=> fr.gear # "none"
    /\ \A fr \in Frames : fr.has # {} \/ fr.charge # "absent" \/ fr.amps

ASSUME BoundsAssumption ==
    /\ StaleAfter \in Nat /\ FreshWithin \in Nat /\ MaxSkew \in Nat
    /\ StaleAfter = 0 \/ MaxSkew <= StaleAfter
    /\ FlapWindow \in Nat /\ WakeWindow \in Nat
    /\ WakeFrames \in Nat \ {0} /\ SleepConfirm \in Nat \ {0} /\ SubBuf \in Nat \ {0}
    /\ ChargeBound \in Nat /\ MaxClock \in Nat \ {0}

VARIABLES
    clock,
    snap,      \* Merger.snap, the served snapshot
    pollAt,    \* FetchedAt of the poll between its answer and MergePoll; 0: none
    anchor,    \* gpsAt / odoAt
    offline,   \* offlineCount, offlineDriving
    drive,     \* driveDebouncer
    wake,      \* wakeDebouncer
    sessions,  \* sessionCounters, opened minus closed per kind
    pollNow,   \* an off-schedule poll has been asked for (pollTrigger)
    subs,      \* the change channels: subscribed?, signals buffered
    reader,    \* subscribers: drained a signal and about to read Latest?, changed since that read?
    woke       \* history: the wake polls asked for in this spell of sleep (at most 2 counted)

vars == <<clock, snap, pollAt, anchor, offline, drive, wake, sessions, pollNow,
          subs, reader, woke>>

Snapshot ==
    [state: BOOLEAN, power: Power, gear: Gear, at: [Streamed -> Time], live: Live,
     fetchedAt: Time, streamFields: Time, present: SUBSET Streamed, asOf: Time]

TypeOK ==
    /\ clock \in 1..MaxClock
    /\ snap \in Snapshot
    /\ pollAt \in 0..MaxClock
    /\ anchor \in [Anchored -> Time]
    /\ offline \in [count: 0..SleepConfirm, driving: BOOLEAN]
    /\ drive \in [class: BOOLEAN, at: Time, set: BOOLEAN]
    /\ wake \in [count: 0..WakeFrames, first: Time, fired: BOOLEAN]
    /\ sessions \in [drives: Int, charges: (-ChargeBound)..ChargeBound]
    /\ pollNow \in BOOLEAN
    /\ subs \in [Subscribers -> [on: BOOLEAN, events: 0..SubBuf]]
    /\ reader \in [Subscribers -> [woken: BOOLEAN, behind: BOOLEAN]]
    /\ woke \in 0..2

-----------------------------------------------------------------------------
(* Helpers.                                                                 *)

Later(a, b) == IF a > b THEN a ELSE b

InDrive(g) == g = "drive"

\* streamChanged: any column a data:update carries moved.
Changed(a, b) ==
    \/ a.state # b.state
    \/ a.state /\ (\/ a.power # b.power
                   \/ a.gear # b.gear
                   \/ a.at # b.at
                   \/ a.live # b.live)

\* Faulty variant: the stamp forgets the last served time.
CommittedUnclamped(s) == [s EXCEPT !.asOf = Later(s.fetchedAt, s.streamFields)]

\* commit: stamp the served time, age out a stalled stream, and store.  The
\* state is degraded to offline only when poll and stream are both stale.
Committed(s) ==
    LET stalled   == StaleAfter > 0 /\ s.streamFields # 0
                       /\ clock - s.streamFields > StaleAfter
        pollStale == s.fetchedAt = 0 \/ clock - s.fetchedAt > StaleAfter
    IN  [s EXCEPT
           !.asOf    = Later(snap.asOf, Later(s.fetchedAt, s.streamFields)),
           !.present = IF stalled THEN {} ELSE s.present,
           !.power   = IF stalled /\ pollStale /\ s.power = "online"
                       THEN "offline" ELSE s.power]

\* Faulty variant: only a change of liveness is announced.
NotifiedOnLiveness(new) ==
    [s \in Subscribers |->
        IF subs[s].on /\ new.power # snap.power /\ subs[s].events < SubBuf
        THEN [subs[s] EXCEPT !.events = subs[s].events + 1] ELSE subs[s]]

\* The non-blocking notify at the end of commit: a full channel drops the signal.
Notified(new) ==
    IF ~Changed(snap, new) THEN subs
    ELSE [s \in Subscribers |->
            IF subs[s].on /\ subs[s].events < SubBuf
            THEN [subs[s] EXCEPT !.events = subs[s].events + 1] ELSE subs[s]]

Behind(new) ==
    [s \in Subscribers |->
        [reader[s] EXCEPT !.behind = reader[s].behind \/ (subs[s].on /\ Changed(snap, new))]]

Store(new) ==
    /\ snap' = new
    /\ subs' = Notified(new)
    /\ reader' = Behind(new)

-----------------------------------------------------------------------------
(* The poll side.                                                           *)

\* The fields the stream protects from a poll fetched at t: those it has
\* supplied, while its last frame is newer than the poll.
StreamFresher(t) == snap.streamFields > t /\ snap.state
Held(t) == IF StreamFresher(t) THEN snap.present ELSE {}

\* Faulty variant: the gear is read again at every poll of the run.
OfflineRunRecomputed(p) ==
    [count   |-> IF p # "offline" THEN 0
                 ELSE IF offline.count < SleepConfirm THEN offline.count + 1 ELSE offline.count,
     driving |-> p = "offline" /\ InDrive(snap.gear)]

\* classifyPollLiveness: the run of offline polls after one reporting power p.
OfflineRun(p) ==
    IF p # "offline" THEN [count |-> 0, driving |-> FALSE]
    ELSE [count   |-> IF offline.count < SleepConfirm THEN offline.count + 1
                      ELSE offline.count,
          driving |-> IF offline.count = 0 THEN InDrive(snap.gear)
                      ELSE offline.driving]

PollPower(p) ==
    IF p = "offline" /\ ~OfflineRun(p).driving /\ OfflineRun(p).count >= SleepConfirm
    THEN "asleep" ELSE p

MergedPoll(r, t) ==
    [state        |-> TRUE,
     power        |-> PollPower(r.power),
     gear         |-> IF "gear" \in Held(t) THEN snap.gear ELSE r.gear,
     at           |-> [f \in Streamed |-> IF f \in Held(t) THEN snap.at[f]
                                          ELSE IF f \in r.has THEN t ELSE 0],
     live         |-> IF StreamFresher(t) /\ snap.live # "none" THEN snap.live ELSE r.live,
     fetchedAt    |-> t,
     streamFields |-> snap.streamFields,
     present      |-> snap.present,
     asOf         |-> 0]

\* The source answers; FetchedAt is stamped here, the merge comes later.
FetchPoll ==
    /\ pollAt = 0
    /\ pollAt' = clock
    /\ pollNow' = FALSE
    /\ UNCHANGED <<clock, snap, anchor, offline, drive, wake, sessions, subs, reader, woke>>

\* Faulty variant: the anchor moves to the poll even where the stream's fresher
\* value stays served.
MergePollAnchorsAll(r) ==
    /\ pollAt # 0
    /\ Store(Committed(MergedPoll(r, pollAt)))
    /\ anchor' = [f \in Anchored |-> IF f \in r.has THEN pollAt ELSE anchor[f]]
    /\ offline' = OfflineRun(r.power)
    /\ pollAt' = 0
    /\ UNCHANGED <<clock, drive, wake, sessions, pollNow, woke>>

MergePoll(r) ==
    /\ pollAt # 0
    /\ Store(Committed(MergedPoll(r, pollAt)))
    /\ anchor' = [f \in Anchored |-> IF f \notin Held(pollAt) /\ f \in r.has
                                     THEN pollAt ELSE anchor[f]]
    /\ offline' = OfflineRun(r.power)
    /\ pollAt' = 0
    /\ woke' = IF PollPower(r.power) = "asleep" THEN woke ELSE 0
    /\ UNCHANGED <<clock, drive, wake, sessions, pollNow>>

-----------------------------------------------------------------------------
(* The stream side.                                                         *)

\* The live session after a frame: a 0 kW reading does not count as a power
\* reading, so the last non-zero power stays served.
MergedLive(fr) ==
    IF fr.charge = "kw" THEN "charging"
    ELSE IF fr.amps /\ snap.live = "none" THEN "idle"
    ELSE snap.live

FrameLive(fr) ==
    IF fr.charge = "kw" THEN "charging"
    ELSE IF fr.charge = "zero" \/ fr.amps THEN "idle"
    ELSE "none"

\* Faulty variant: the stream owns only what its last frame carried.
MergedFrameForgets(fr, acc, t) ==
    [snap EXCEPT
       !.state        = TRUE,
       !.gear         = IF "gear" \in acc THEN fr.gear ELSE snap.gear,
       !.at           = [f \in Streamed |-> IF f \in acc THEN t ELSE snap.at[f]],
       !.streamFields = t,
       !.present      = acc]

\* mergeStreamLocked, for a frame of which the integrity gate accepted acc.
MergedFrame(fr, acc, t) ==
    IF ~snap.state
    THEN [state |-> TRUE, power |-> "unknown",
          gear |-> IF "gear" \in acc THEN fr.gear ELSE "none",
          at |-> [f \in Streamed |-> IF f \in acc THEN t ELSE 0],
          live |-> FrameLive(fr), fetchedAt |-> t, streamFields |-> t,
          present |-> acc, asOf |-> 0]
    ELSE [snap EXCEPT
            !.power        = IF snap.power \in {"unknown", "offline"} THEN "online"
                             ELSE snap.power,
            !.gear         = IF "gear" \in acc THEN fr.gear ELSE snap.gear,
            !.at           = [f \in Streamed |-> IF f \in acc THEN t ELSE snap.at[f]],
            !.live         = MergedLive(fr),
            !.streamFields = t,
            !.present      = snap.present \union acc]

\* The fields the gate may refuse: a value out of its range, or a step from the
\* served value that is too fast.
Refusable(fr) ==
    (fr.has \intersect Ranged)
      \union {f \in fr.has \intersect Anchored : snap.state /\ snap.at[f] # 0}

ChargeEnded(fr) == snap.live = "charging" /\ fr.charge = "zero"
ChargeStarted(fr) == snap.live # "charging" /\ fr.charge = "kw"

\* driveDebouncer.boundary: the class it compares with is seeded from the
\* snapshot before its first frame, and a flip within the window is swallowed.
DriveClass == IF drive.set THEN drive.class ELSE InDrive(snap.gear)
DriveFires(now, t) ==
    /\ InDrive(now.gear) # DriveClass
    /\ drive.at = 0 \/ t - drive.at >= FlapWindow
\* Faulty variant: a swallowed flip still moves the class.
DriveAfterSwallowed(now, t) ==
    [class |-> InDrive(now.gear), set |-> TRUE,
     at    |-> IF DriveFires(now, t) THEN t ELSE drive.at]

DriveAfter(now, t) ==
    IF DriveFires(now, t)
    THEN [class |-> InDrive(now.gear), at |-> t, set |-> TRUE]
    ELSE [class |-> DriveClass, at |-> drive.at, set |-> TRUE]

\* wakeDebouncer.frame.  Its count only matters up to the threshold.
WakeRun(t) ==
    [count |-> IF wake.count < WakeFrames THEN wake.count + 1 ELSE wake.count,
     first |-> IF wake.count = 0 THEN t ELSE wake.first,
     fired |-> wake.fired]
WakeFires(t) ==
    /\ snap.power = "asleep"
    /\ ~wake.fired
    /\ WakeRun(t).count >= WakeFrames
    /\ t - WakeRun(t).first >= WakeWindow
\* Faulty variant: the run starts over after firing.
WakeAfterUnlatched(t) ==
    IF snap.power # "asleep" \/ WakeFires(t)
    THEN [count |-> 0, first |-> wake.first, fired |-> FALSE]
    ELSE WakeRun(t)

WakeAfter(t) ==
    IF snap.power # "asleep"
    THEN [count |-> 0, first |-> wake.first, fired |-> FALSE]
    ELSE [WakeRun(t) EXCEPT !.fired = wake.fired \/ WakeFires(t)]

\* Service.Put: merge, detect boundaries under the same lock, count, and ask
\* for a poll.  The wake run only advances when no boundary fired.
Put(fr, t, refused) ==
    LET out      == MergedFrame(fr, fr.has \ refused, t)
        boundary == DriveFires(out, t) \/ ChargeEnded(fr)
        fireWake == ~boundary /\ WakeFires(t)
        opened   == IF ~DriveFires(out, t) THEN 0 ELSE IF InDrive(out.gear) THEN 1 ELSE -1
        charged  == IF ChargeEnded(fr) THEN -1 ELSE IF ChargeStarted(fr) THEN 1 ELSE 0
        new      == Committed(out)
    IN  /\ refused \subseteq Refusable(fr)
        /\ sessions.charges + charged \in (-ChargeBound)..ChargeBound
        /\ Store(new)
        /\ anchor' = [f \in Anchored |-> IF f \in fr.has \ refused THEN t ELSE anchor[f]]
        /\ drive' = DriveAfter(out, t)
        /\ wake' = IF boundary THEN wake ELSE WakeAfter(t)
        /\ woke' = IF new.power # "asleep" THEN 0
                    ELSE IF fireWake /\ woke < 2 THEN woke + 1 ELSE woke
        /\ sessions' = [drives |-> sessions.drives + opened,
                        charges |-> sessions.charges + charged]
        /\ pollNow' = (pollNow \/ boundary \/ fireWake)
        /\ UNCHANGED <<clock, pollAt, offline>>

MergeStream(fr) ==
    \E t \in 1..clock : \E refused \in SUBSET Refusable(fr) :
        clock - t <= MaxSkew /\ Put(fr, t, refused)

\* Service.OnStreamDisconnect: a recycle whose last frame is recent asks for
\* nothing.  (The code's age is 0 only for a car that never streamed: one
\* instant of the model is an interval of real time.)
Recycle == snap.streamFields # 0 /\ clock - snap.streamFields < FreshWithin

OnStreamDisconnect ==
    /\ ~Recycle
    /\ pollNow' = TRUE
    /\ UNCHANGED <<clock, snap, pollAt, anchor, offline, drive, wake, sessions,
                   subs, reader, woke>>

-----------------------------------------------------------------------------
(* Subscribers: receive signals, then read Latest.                          *)

Subscribe(s) ==
    /\ ~subs[s].on
    /\ subs' = [subs EXCEPT ![s] = [on |-> TRUE, events |-> 0]]
    /\ reader' = [reader EXCEPT ![s] = [woken |-> FALSE, behind |-> FALSE]]
    /\ UNCHANGED <<clock, snap, pollAt, anchor, offline, drive, wake, sessions, pollNow, woke>>

Unsubscribe(s) ==
    /\ subs[s].on
    /\ subs' = [subs EXCEPT ![s] = [on |-> FALSE, events |-> 0]]
    /\ reader' = [reader EXCEPT ![s] = [woken |-> FALSE, behind |-> FALSE]]
    /\ UNCHANGED <<clock, snap, pollAt, anchor, offline, drive, wake, sessions, pollNow, woke>>

\* Faulty variant: a signal received while another waits is dropped unread.
ReceiveCoalesced(s) ==
    /\ subs[s].on /\ subs[s].events > 0
    /\ subs' = [subs EXCEPT ![s].events = subs[s].events - 1]
    /\ UNCHANGED <<clock, snap, pollAt, anchor, offline, drive, wake, sessions, pollNow,
                   reader, woke>>

\* The broadcaster may drain more signals before it reads: it coalesces them.
Receive(s) ==
    /\ subs[s].on /\ subs[s].events > 0
    /\ subs' = [subs EXCEPT ![s].events = subs[s].events - 1]
    /\ reader' = [reader EXCEPT ![s].woken = TRUE]
    /\ UNCHANGED <<clock, snap, pollAt, anchor, offline, drive, wake, sessions, pollNow, woke>>

Latest(s) ==
    /\ reader[s].woken
    /\ reader' = [reader EXCEPT ![s] = [woken |-> FALSE, behind |-> FALSE]]
    /\ UNCHANGED <<clock, snap, pollAt, anchor, offline, drive, wake, sessions, pollNow,
                   subs, woke>>

Tick ==
    /\ clock < MaxClock
    /\ clock' = clock + 1
    /\ UNCHANGED <<snap, pollAt, anchor, offline, drive, wake, sessions, pollNow,
                   subs, reader, woke>>

-----------------------------------------------------------------------------

Empty ==
    [state |-> FALSE, power |-> "unknown", gear |-> "none", at |-> [f \in Streamed |-> 0],
     live |-> "none", fetchedAt |-> 0, streamFields |-> 0, present |-> {}, asOf |-> 0]

Init ==
    /\ clock = 1
    /\ snap = Empty
    /\ pollAt = 0
    /\ anchor = [f \in Anchored |-> 0]
    /\ offline = [count |-> 0, driving |-> FALSE]
    /\ drive = [class |-> FALSE, at |-> 0, set |-> FALSE]
    /\ wake = [count |-> 0, first |-> 0, fired |-> FALSE]
    /\ sessions = [drives |-> 0, charges |-> 0]
    /\ pollNow = FALSE
    /\ subs = [s \in Subscribers |-> [on |-> FALSE, events |-> 0]]
    /\ reader = [s \in Subscribers |-> [woken |-> FALSE, behind |-> FALSE]]
    /\ woke = 0

Next ==
    \/ Tick
    \/ FetchPoll
    \/ \E r \in PollResults : MergePoll(r)
    \/ \E fr \in Frames : MergeStream(fr)
    \/ OnStreamDisconnect
    \/ \E s \in Subscribers : Subscribe(s) \/ Unsubscribe(s) \/ Receive(s) \/ Latest(s)

Spec == Init /\ [][Next]_vars

\* A sink's broadcaster is a loop that waits on its change channel and, at once
\* or at its next coalescing tick, reads Latest; nothing else is assumed to move.
FairSpec ==
    /\ Spec
    /\ \A s \in Subscribers : WF_vars(Receive(s)) /\ WF_vars(Latest(s))

-----------------------------------------------------------------------------
(* Properties.                                                              *)

\* The implied-velocity checks divide by the time since the served fix itself
\* was observed: the anchor of a served field is its own observation time, not
\* the time of some other frame or of a poll the stream overrode.
AnchorsMatchServed ==
    \A f \in Anchored : snap.at[f] # 0 => anchor[f] = snap.at[f]

\* The one emitted time is never older than anything served under it, and
\* never in the future.
ServedTimeCovers ==
    /\ snap.asOf <= clock
    /\ snap.fetchedAt <= snap.asOf /\ snap.streamFields <= snap.asOf
    /\ \A f \in Streamed : snap.at[f] <= snap.asOf

\* Neither a stale poll nor a late frame moves the emitted time backwards.
ServedTimeNeverRegresses == [][snap'.asOf >= snap.asOf]_vars

PollMerged == pollAt # 0 /\ pollAt' = 0

\* A poll that was in flight while frames arrived never replaces a value by an
\* older observation (by more than the reordering of two overlapping read
\* loops), whichever mix of fields those frames carried.
PollNeverRegresses ==
    [][PollMerged => \A f \in Streamed :
            snap'.at[f] # 0 => snap'.at[f] + MaxSkew >= snap.at[f]]_vars

\* The served snapshot as its readers see it.
Served == [state |-> snap.state, power |-> snap.power, gear |-> snap.gear, at |-> snap.at,
           live |-> snap.live, asOf |-> snap.asOf]

Reg == INSTANCE Register WITH
           Fields <- Streamed, Powers <- Power, Gears <- Gear, Lives <- Live, Floor <- 0,
           Contents <- [power: Power, gear: Gear, live: Live, has: SUBSET Streamed],
           snap <- Served

\* The merger keeps what the cache promises its readers: whichever way polls and
\* frames interleave, each merge is one write of the register.
ImplementsRegister == Reg!Spec

\* A car that was lost while driving is never presented as asleep while its run
\* of offline polls lasts, although those polls clear the gear.
LostDriveHeldOffline ==
    [][offline.driving /\ offline'.count > 0 => snap'.power # "asleep"]_vars

\* Drives opened and drives closed alternate: the counters balance up to the
\* drive that is open now (or was already open at the first frame).
DriveCountersBalance ==
    sessions.drives \in IF drive.class THEN {0, 1} ELSE {-1, 0}

\* A stream that keeps sending while the car is presented as asleep asks for
\* one wake poll in that spell of sleep, however many frames arrive.
OneWakePollPerSleep == woke <= 1

\* A subscriber that has not yet read the latest change has a signal waiting or
\* is about to read: dropping a signal on a full channel loses no change.
NoChangeLost ==
    \A s \in Subscribers : reader[s].behind => subs[s].events > 0 \/ reader[s].woken

\* However fast the changes come, a subscriber gets to read a snapshot that is
\* at least as new as each of them (or leaves).
SubscriberCatchesUp == \A s \in Subscribers : reader[s].behind ~> ~reader[s].behind
=============================================================================
