# red-switchboard: a TLA+ development

red-switchboard reads a car from one vendor API (a *source*), keeps one
snapshot per vehicle in a cache, and serves it in the shape of another API (a
*sink*). The cache has two kinds of writers, a poll loop and a telemetry
stream, and readers that trust one emitted timestamp. These modules model the
served path from end to end: how a car is reached and polled, what is served,
what survives a restart, what streaming and polling consumers are told, how
tokens are refreshed and commands sent, and what the wire formats keep.
TLC checks the models on small instances; TLAPS proves their safety properties
for every value of the constants, that the cache implements the register its
readers rely on, and that the REST sink on the cache is the REST sink on that
register.

Paths below are relative to `src/`; `cache/`, `poll/` and so on are under
`src/internal/`.

## 1. Inventory

| Component | State | Operations | What is hard |
|---|---|---|---|
| cache Merger (`cache/merge.go`, `trigger.go`, `session.go`) | served snapshot with its times and presence mask, anchors, offline run, two debouncers, counters, change channels | `MergePoll`, `MergeStreamDetect`, `Latest`, `Subscribe` | polls and frames merged out of the order of their times; provenance per field; debouncing; dropped signals |
| integrity gate (`cache/integrity.go`) | rejection counters | `gateStream` | divides by the age of the right reading |
| cache Service and restart state (`cache/service.go`, `asofstore.go`, `replaybuffer.go`, `lifecycle.go`) | marks and rings, in memory and on disk | `Put`, `MergePoll`, `OnStreamDisconnect`, `Replay`, the flushes, `ShutdownOn` | throttled writes, crash between two of them, failed writes, two critical sections per write |
| poll loop (`poll/poll.go`) | timer, backoff, idle streak, status, one-slot trigger channel | `Run`, `pollOnce`, `handleError`, `triggerNow` | triggers racing polls; three error paths; delays with floors and caps |
| stream sink (`protocol/tesla/stream/v1`) | per connection: broadcasters, last push, pending | `OnMessage`, `broadcast`, `OnClose` | replay then subscribe; coalescing; re-subscription |
| websocket sender (`transport/wssutil`) | send buffer, closed | `Send`, `Close`, `writeLoop` | full buffer, close once |
| REST sink (`protocol/tesla/fleet/poll/v1` adapter, server) | per vehicle: previous payload, cached body and its AsOf | `translate`, `currentState`, `degradeIfStale` | a cached body keyed by a time; concurrent reads |
| wire formats (`*_mapping.go`, `stream_encode.go`, `rivian/.../parse.go`) | the last body, for hold-last-known | encode, decode | zero, unknown and absent; units; formats that feed each other |
| Fleet Telemetry source (`protocol/tesla/fleet/stream/v1`) | connections, counts per address | accept, `OnMessage`, `OnClose` | connection recycling, limits, acknowledgements |
| Owner stream source (`protocol/tesla/owner/stream/v1`) | one dialer per awake vehicle | `supervise`, `run`, `connect` | stopping one dialer while starting the next |
| token manager (`protocol/tesla/auth`) | credentials in memory and on disk | `Token`, `RefreshAfter401`, `loop` | single flight, rotation, crash before the save |
| command path (`protocol/tesla/command/v1`) | a lock per VIN, counters | `SendCommand` | waiting with a running deadline |
| Rivian source (`protocol/rivian/graphql/poll/v1`) | session | `callWithRefresh` | concurrent refreshes |
| id map (`plugin/sink/idmap`) | ids in memory and on disk | `ID`, `GUID` | collisions, failed writes |
| the rest: TeslaFi file and cursor, plugin registries, configuration, metrics, one-shot commands, mock car | little or none | request, render | |

How they interact. The poll loop calls its source and writes the answer
through `Service.MergePoll`; the stream's read loops write through
`Service.Put`. Both take the vehicle's Merger lock, then append to the replay
ring. A frame that crosses a session boundary, or a stream that falls silent,
calls back into the poll loop (`Manager.PollNow`, which is `triggerNow`). The
stream sink subscribes to a Merger's changes and reads `Latest`; the REST sink
reads `Latest` for each request. The poll loop reads `LastStreamAt` to choose
its cadence while a drive is streamed.

What makes each one correct:

* **Merger**: a poll never replaces a newer observation; the emitted time
  covers all that is served and never goes back; anchors belong to the served
  value; sessions balance; a spell of sleep asks for one wake poll; a lost
  drive is not put to sleep; no change is lost to a full channel.
* **restart state**: a crash loses only what was served within an interval; a
  replay followed by live data does not go back in time.
* **poll loop**: it waits at least what the floor and the server ask for and at
  most what its own settings say; triggers are neither lost nor unbounded;
  status and warnings tell of one outage once; it keeps polling until it is
  cancelled, then stops.
* **stream sink**: no change is dropped between the channel, the coalescing and
  the push; a consumer that is not served any more is disconnected; no
  broadcaster outlives what it serves.
* **REST sink**: a value once told is not told as zero again for the want of one;
  a car nobody has heard from is not said to be online; one consumer's bodies do not go back in
  time, however requests overtake each other.
* **wire formats**: no conversion invents a drive, a charge or a waking car;
  readings survive; a second hub serves what the first does; a Tesla's answer and
  its frames, read together, start and end no drive and no charge.
* **telemetry listener**: its counts are the connections there are; every record
  is delivered in spite of failing links; the cache hears of the silence.
* **Owner dialer**: one uncancelled dialer, a backoff that only a frame resets,
  none left behind.
* **tokens**: no exchange with a spent token; the file follows the grants; an
  expired token is replaced although nobody asks.
* **commands**: one at a time per car, none after its timeout, each answered.

`PROJECT.json` lists every component with its status, every hazard at its line
with the properties that watch it, and which lines each definition stands for.

## 2. Modules

| Module | Stands for |
|---|---|
| `Merger` | one vehicle's Merger with the parts of `Service` that call it |
| `MCMerger` | instances of Merger: the polls and frames of each run |
| `MergerProofs` | theorems about Merger and RestOverCache |
| `ServedTime` | marks, rings, crash, shutdown and start, for several vehicles |
| `ServedTimeProofs` | theorems about ServedTime |
| `Poller` | one vehicle's poll loop |
| `MCPoller` | an instance of Poller: its cadence |
| `PollerProofs` | theorems about Poller |
| `StreamSink` | one consumer's connection to the stream sink, with its Sender |
| `StreamSinkProofs` | theorems about StreamSink |
| `Register` | what the cache promises its readers: the abstract specification Merger implements |
| `RestSink`, `MCRestSink` | the REST sink's handlers, on that register |
| `RestSinkProofs` | theorems about RestSink |
| `RestOverCache`, `MCRestOverCache` | the same handlers on the real Merger |
| `Codecs` | vehicle_data, data:update and TeslaFi rows, both directions, as operators |
| `Payloads` | the decoding of Fleet Telemetry payloads and their overlay on a snapshot |
| `Rivian` | the Rivian format, both directions |
| `Relay`, `MCRelay` | hubs that feed each other through these formats |
| `RelayProofs` | theorems about the formats and the hubs |
| `Listener` | the Fleet Telemetry source and its capped listener |
| `ListenerProofs` | theorems about Listener |
| `Dialer` | the Owner stream's supervisor and dialers |
| `Tokens`, `MCTokens` | the token manager and the poll sources that use it |
| `Commands`, `MCCommands` | the command path |
| `AccountProofs` | theorems about Tokens, Dialer and Commands |

### Merger

One action per critical section of the Merger's mutex. A streamed field is
represented by the instant its served value was observed (`snap.at[f]`),
because the merge only decides *whose* observation is served; the gear keeps
its value since the detectors read it, and a live charging session is none,
idle or charging.

* `FetchPoll` is the source's answer, stamped before the lock is taken;
  `MergePoll(r)` is `Merger.MergePoll` with `classifyPollLiveness` and `commit`.
  A poll is a loop, so one at a time is in flight.
* `MergeStream(fr)` is `Service.Put`: gate, merge, commit, boundary and wake
  detection, counters and the trigger, under one lock. A frame's receive time
  may be up to `MaxSkew` old: a recycled connection briefly has two read loops.
  What the gate refuses is chosen freely among the fields it may refuse.
* `Committed` and `Store` are `commit`: stamp, age out a stalled stream, store
  and signal the subscribers without blocking.
* `OnStreamDisconnect`, `Subscribe`, `Unsubscribe`, `Receive`, `Latest` are the
  methods of those names, the last two as the stream sink's broadcaster uses
  them. `Receive` may be repeated before `Latest`, which is the coalescing.
* `woke` is a history variable: the wake polls asked for in this spell of sleep.

Assumption on skew: with aging on, `MaxSkew <= StaleAfter`: a frame
does not wait longer for a mutex than a stream may stay silent (minutes).

### ServedTime

A snapshot is reduced to its three times. A writer merges (stamping the served
time and advancing the mark in one step) and appends what the merge *returned*
in another. `Persisted` writes a file as a whole or fails. `Down` is both a
crash and the end of an ordered shutdown (`FlushAsOf`, then `FlushReplay`, with
writers still going); `Boot` is `NewService`. The history parts are `failed`,
the `at` of an entry and `appendedAt`.

### Poller

`pollOnce` is three actions, by the answer of the source: `PollSucceeds`,
`PollFails`, `PollBlocked` (quota). The select of `Run` is `Scheduled`,
`Boundary` and `Stop`; `triggerNow` is two steps, `TriggerCheck` and
`TriggerSend`, since the send happens after the unlock. Time is relative
(timers count down), so no instant is bounded, and a randomized delay is any
value of its range. `asked`, `rest`, `burst`, `wanted` and `warned` are history
variables.

### StreamSink

One accepted connection. Its read loop calls `OnMessage` (a subscribe message)
and `OnClose` in turn; each subscription starts a broadcaster (`task[b]`), whose
steps are those of `broadcast`: `Replay` reads the ring, `ReplayOne` pushes one
snapshot of it, `Subscribe`, then the cases of the select, `TakeSignal`,
`CoalesceTick`, `Hello` and `Return`. A push is two steps, `ReadLatest` and
`SendLatest`, since the cache and another broadcaster move in between. `Send`,
`Write` and `WriteFails` are the Sender; closing it is one step, so a message
written between closing `done` and closing the connection is left out. The
vehicle is an abstract feed: `Merge` serves a snapshot and signals, `RingAppend`
follows it, as in `Service.Put` and `MergePoll`. A snapshot is its number. What a
subscribe message that does not parse, or names no vehicle, causes is `OnClose`.
`sent`, `joined` and `received` are history. The limit on connections is not in
this module.

### Register, RestSink and RestOverCache

`Register` is one vehicle's `Provider.Latest`: a snapshot that, once there is
one, is never taken back, under an emitted time that covers it, is not in the
future and never goes back. It leaves open who writes, and promises neither
that a field stays nor that the data stays while AsOf does. Its restart floor is
the constant `Floor`. `Merger!ImplementsRegister` is the refinement, with the
fields readers see as the mapping (`Served`).

`RestSink` extends `Register` with the handlers. `ReadLatest` is the read of the
cache and `Translate` the part under the entry's mutex, so requests overtake
each other; `Translate` is the fast path or a translation that becomes `prev`
and `cached`; `Summary` is the routes that only tell the state. `answer`, `seen`
and `told` are history. A value is the instant it was observed: the sink only
looks whether it is zero. How large a reading is is left open, and with it
whether the code makes a zero of it (`MayBeZero`): a level or a limit (`Whole`)
is held by a test of the reading and told without its fraction, and the energy
of a live session is told as it is, which is 0 for one that has just begun or
that a frame without energy has started.

`RestOverCache` composes the two: the same handlers on Merger's own snapshot
(`CacheStep` is any step of the cache, `ServeStep` any of a handler). Whatever
they do together is a behaviour of RestSink (`SinkOnRegister`). It also asks what
the register leaves open: whether the data may change without AsOf
(`CachedIsCurrent`, section 6), under `AnewSpec`, in which no two observations
have the same time.

### Codecs, Payloads, Rivian and Relay

The formats are pure operators, one per function of the mapping files, over a
snapshot (`Relay!Snapshot`) that keeps one field of each kind the mappings treat
alike: an enum, a position, a range with its unit, a percentage, a live session,
and a panel with one seat heater, lock pair, door, tyre warning and update state.
Optional values are sets of at most one element. Units are integers (a mile is
1.609 km, percentages and kilowatts are in tenths), rounded or truncated where
the code does. `Relay` lets a first hub report, receive telemetry and be polled by a
second hub (`Report`, `Put`, `Hop`); its invariants relate a snapshot to what
each format makes of it, its action properties what the two hubs serve. The
words of a panel are any but the sentinels of a faulty sensor, which `parse.go`
drops (`Word`), and a datum of a payload whose encoding is numeric is a number
(`Sane`).

Two operators stand for a real Tesla rather than for a hub's encoder, from how
the sources decode it: `CarAnswers` is the set of vehicle_data bodies it may give
in a state (a parked car's shift state is null or "P", the level is a whole
percent, rounded either way, the power a whole kilowatt, and a car that draws
none may name any charging state), and `CarPayload` what it streams of the same
state (level and power in their tenths, AC or DC by what flows), as either
generation of firmware writes it: typed values, or strings. `SourcesAgree` decodes
both and overlays one on the other.

### Listener

A car numbers its records, sends them in order and retransmits what is not
acknowledged; a second peer has no identity, or a VIN the cache does not know.
Links fail silently (`LinkFails`), so half-open connections hold places until
the read deadline (`Idle`) or, before the upgrade, TCP's keepalive ends them.
Both the websocket library and the HTTP server close a connection (`Ends`, then
`CloseAgain`). What the cache does when told of a disconnect is
`Merger!OnStreamDisconnect`.

### Dialer

`supervise` is `Evaluate`, `Notified` and `SuperviseReturns`; a dialer is
`Loop`, `Handshake`, `OnMessage`, `PeerCloses`, `WatcherCloses`, `BackOff` and
`Wake`. Cancelling a dialer does not wait for it, so `Slots` dialers may be
alive. A delay is any within a tenth of its interval (`Jittered`), the jitter of
`backoff.go`. `barren` is history.

### Tokens

A grant of the endpoint is a number carrying an access and a refresh token; the
endpoint always rotates (as Tesla does) and accepts only the newest refresh
token. A poller's request is `Token`, `Respond` and, after a 401,
`RefreshAfter401`; `BeginRefresh`, `Exchange`, `Apply` and `Save` are the parts of
`refresh` between which others run or the process dies. `lost` is history: after
a grant whose answer was lost, or that a crash kept from the file, only a new
login helps, and the properties say nothing. Stopping the manager is left out:
only tests do it.

### Commands

A command waits for its vehicle's lock with its context running (`LockVIN`), then
makes its session and acts. Calls of the vehicle-command SDK are external: one
that needs the network fails once the context has expired. Of the token only
whether the API accepts it is kept.

## 3. Runs

| Run | Instance | Shows |
|---|---|---|
| `merge` | gear and a location with an anchor and a range; polls with and without a fix; 4 instants, skew 1 | provenance, anchors and the register under every order of polls and frames |
| `sessions` | gear, charge power and liveness, one subscriber with a buffer of 1; 3 instants | drives, the wake latch, lost drives, no change lost, subscribers catch up |
| `served_time` | one vehicle, one read loop, interval 2, rings of 2; 3 instants | what crashes and failed writes leave |
| `poller` | two triggering goroutines, two derived states, floor 2, cap 3, server delays of 0 and 5 | waits, triggers, progress |
| `stream_sink` | two subscriptions, one writer, two snapshots, ring, channel and send buffer of 1, with or without a ring left by an earlier process | no change dropped, nobody left unserved, progress, no broadcaster left behind |
| `rest_sink` | two consumers, one held field told without its fraction, gear, session and liveness; a restart floor; 4 instants, stale after 1 | held values, lost cars, times of bodies |
| `tokens` | two vehicles and the loop, two grants, one crash | rotation, the file, recovery |
| `commands` | two clients, one vehicle, timeout 2, one restart | serialization, timeouts, answers |
| `dialer` | two dialers alive, three flaps, an interval of 5 that doubles once to its cap of 10 | the gauge, the backoff, who is left |
| `relay` | 870 snapshots of both vendors to start from, a week of six reports and three telemetry payloads | the formats, and a second hub |
| `listener` | three connections, two places, two records of which one is an alert, three faults | places, delivery, disconnects |
| `stale_body` | one consumer, one poll overtaken by a frame; 4 instants | a counterexample, section 6 |

Why the bounds are enough. In `merge`, four instants let a poll be answered,
overtaken by two frames of different age, and merged after the stream has
stalled (`StaleAfter` 2). In `sessions`, three instants hold a flap within and
beyond the window (2), a wake run of two frames over one instant, and two
offline polls with frames in between. In `served_time`, three instants hold a
write, an advance within the interval, one after it, a crash and a restart; a
ring of two evicts. In `poller`, the server's delay (5) exceeds every delay of
the loop's own (at most 4 with jitter), the cap is reached after one doubling
and idle polls are counted past the grace. In `stream_sink`, buffers of one are
full after one signal or message, a replayed snapshot starts the push interval
in which the next change must be coalesced, and the first broadcaster is
cancelled at every point of its life while the second one starts. In
`rest_sink`, three merges and two readers suffice for an older snapshot to be
translated after a newer one, with and without the held value, and for the
body to outlive the staleness limit. In `tokens`, a first refresh makes a spent
token and a second one is needed to offer it; one crash falls between any two
steps of either. In `commands`, one client waits while the other's context
expires. In `dialer`, three flaps start a dialer while a cancelled one is still
dialing, and the interval doubles to its cap, where a tenth of it is a whole
step, so a delay may be a tenth short or long. In `listener`, the car's address may
fill both places with half-open connections while the foreign peer competes.
In `relay`, the behaviour is short (report, put, hop) and the breadth is in the
snapshots; two of the reports sit on a boundary of the formats, half a percent of
charge and AC power just below 25 kW. Counters that only matter up to a threshold
stop there (`IdleBound`, `BurstMax`, `warned`, `woke`, `barren`), and
`ChargeBound` cuts a counter the code lets grow. What is proved (section 4) does
not depend on these bounds.

Deadlock is checked in the ServedTime, Poller, Listener and Relay runs. It is
not in the runs of Merger and RestSink, where the last instant is a bound of the
model and a system without frames or polls may rest; nor where an actor may
really stop: the consumer of StreamSink leaves, the clients of Commands are
served, the Dialer is cancelled, and the process that holds a spent token rests.

Every property has a faulty variant of a mapped definition (`PROJECT.json`,
"mutants"; the operators commented "Faulty variant") under which TLC finds it
violated, so no property holds for want of interesting states.

### Fairness

`Merger!FairSpec`: only a subscriber's `Receive` and `Latest` are weakly fair.
The broadcaster is a loop over a select, so a waiting signal is received and
then `Latest` is read; nothing makes a poll or a frame arrive.

`Poller!FairSpec`: weak fairness of time, of a poll's return (each client has a
request timeout) and of leaving the select when a case is ready; strong
fairness of `Stop`, because Go chooses among ready cases at random, so a
cancelled context is not passed over for ever.

`StreamSink!FairSpec`: weak fairness of each broadcaster while it has a step to
take, whichever ready case its select picks, of the write loop (a write ends by
its deadline, perhaps in failure), and of the clock. The consumer, the vehicle
and the sink's end are not fair.

`Tokens!FairTokensSpec`: time passes and goroutines run (weak fairness of each step);
strong fairness of acquiring `refreshMu`, which Go's mutex hands to a waiter
after a millisecond; and an endpoint that is asked again and again with its
newest token grants in the end. Nothing makes a crash happen, or not happen.

`Commands!CommandsSpec`: strong fairness of the lock per VIN, for the same reason, and
weak fairness of the calls that end with the context.

`Dialer!Spec`: weak fairness of the goroutines and their timers, strong fairness of
the supervisor's return, since its select chooses at random while changes keep
coming. The peer, the vehicle and the operator owe nothing.

`Listener!FairSpec`: weak fairness of the connections' goroutines and timers, and
of a car that has something to say. Links need not fail and peers need not leave.

## 4. Proofs

All from the assumptions named in the modules, for any sets of fields, answers,
frames, vehicles and subscribers, any windows, intervals and depths, and any
snapshots and payloads.

*Type correctness* (`TypeCorrect` in each) is the base of the others; in
ServedTime it bounds each ring by its depth.

*Served time* (`ServedTime`, `ServedTimeMonotonic`). The invariant `TimeInv`
adds that nothing is observed in the future and that an empty snapshot serves
nothing; `StampCovers` says what `commit` stamps.

*Refinement* (`CacheIsRegister`): `Spec => ImplementsRegister`. The initial states
map to the register's; under the types and `TimeInv`, a merge of a poll or of a
frame is one write of the register (`MergeWrites`: its stamp is at least the time
of what it merged, which is not 0), a tick is a tick, and all else leaves the
clock and what readers see alone (`RegisterStep`).

*The sink on the cache* (`SinkOnCache`): `ComposedSpec => SinkOnRegister`. What a
merge writes is a write as RestSink spells it out (`WriteSpelledOut`), so every
step of the cache is a write, a tick or unseen (`CacheStepMaps`), and a handler's
step is itself. The constants substituted for RestSink's satisfy what it assumes
of them (`SinkSuitsCache`, of any streamed fields of which some are `Whole`). The theorems on the REST sink below are about every
behaviour of RestSink and any such constants, so they hold of the sink on the
cache, with `Floor` 0. The prover does not open a theorem of an instantiated
module, so this last substitution is the reader's.

*Anchors* (`AnchorsSound`): each merge sets value and anchor together or leaves
both, given the types and `TimeInv`.

*A poll in flight* (`PollSafe`). `FlightInv`: while a poll is in flight, a
served value is no newer than the poll, or it belongs to the stream and the
stream's last frame is at most `MaxSkew` older than it, so the merge will find
the stream fresher and protect it. Being merged out of order is exactly what
makes the slack necessary.

*Sessions* (`DrivesBalance`, `OneWake`, `LostDriveKept`). `SessionInv` ties the
counters to the debounced class, the count of wake polls to the latch, and a
latched lost drive to a run of offline polls not presented as asleep.

*Signals* (`ChangesReachSubscribers`): `NoChangeLost` is inductive by itself.

*Restart*: `MarksInv` says that in memory the mark is the served time and that
what the file lacks was advanced before the next write was due (`MarksRecent`).
`RingsInv` says the same of the rings (`TailUnsaved`) and adds that nothing in
a ring, a file or a writer's hand is newer than it can be, which with the
merge's recency gives `ReplayThenLive`: it holds across crashes although the
ring's file may be newer than the marks'.

*Cadence* (`Waits`, `Cadence`). `CadenceInv` is the two properties and the fact
that a loop that waits without a failure waits for a state a success reported.
The lemmas on delays carry it: jitter takes or adds a part of the delay
(`JitterPart`), so the longest delay grows with the delay (`LongestGrows`), and
an idle car's interval stays below the cap or its base (`StretchBounds`).

*Triggers* (`BurstsBounded`, `TriggersKept`). `TriggerInv` counts: polls of the
burst so far, the token in the channel and the callers past their check are
together at most the callers and one. A poll that starts trades the token for
a member of the burst, a send trades a caller for the token, and a caller
passes its check only when the cooldown is over, where the burst is empty.

*Status* (`StatusSound`, `OneWarning`): by `StatusInv`, a warning has been given
only while the status says that a login is needed.

*Stream sink* (`ChangesKept`, `OpenServed`). `TaskInv` adds to the property what
makes clearing `pending` after a push safe: a broadcaster that has read a
snapshot holds the latest one, or a signal of a newer one waits in its channel.
`NumbersInv` keeps the snapshots in the order they were made. `ServedInv`: the
broadcaster of an open connection is not cancelled, and has returned only when
the Sender is closed.

*REST sink* (`StaleIsNotOnline`, `NothingForgotten`, `BodiesInOrder`), on any
register, so on the cache. Requests translate in another order than they read,
so none of the properties is inductive. `RestInv` says that what a request has read, and what its consumer has seen, is no newer than
what `Latest` returns (`RequestsPast`, `SeenPast`), that a cached body stamped
with the AsOf of a state was made from a state (`CachedStamped`), and that the
entry knows all that has been told but climate_state and has told all it knows
(`Remembered`). What `NothingForgotten` says is what the code keeps: a value told
to any consumer is told as zero again only by a snapshot that has a reading of
it, and of those only where `MayBeZero` says that the code can make a zero of it.

*Tokens* (`RotatedOfferedOnce`, `FileIsLive`, `OneExchange`,
`LoopOutlivesFailures`). `Exclusive`: whoever is between the check of its stale
token and the save holds `refreshMu`. Then, while no grant is lost, `HolderKnows`
says which of the holder, the manager and the file has the newest grant between
the three steps of an exchange, `Settled` that between two exchanges the manager
has it, and `FileKnows` that only a failed save keeps it from the file. The
assumption that no poller is called "none" is about the model's names.

*Formats* (`NoPhantomHolds`, `SourcesAgreeHolds`, `ReadingsSurviveHolds`), of
every snapshot of the type `Relay!Snapshot`, with the range and the percentage
any natural number. One lemma per operator says what it returns; the three
properties relate a snapshot to what the operators make of it, so what they need
of a behaviour is only that the first hub's cache holds a snapshot, through
reports and through frames (the first conjunct of `RelayInv`). The roundings are
carried by lemmas on `Round` and `Trunc` (a mile and back is the same number of
metres). `SourcesAgreeHolds` is of every state of a car whose gear is known, every
answer it may give in it and both generations of firmware; what it grants, the
property names: the gear after a null shift state, less than a percent of level,
half a kilowatt of power, and the session of a car that does not charge. `LiteralsAreStrings` is assumed, since the provers know of strings only
that two literals differ. Proving them showed that two arms of a CASE overlapped in
`ChargingState`, `TeslaFiCharging` and two Rivian mappings, where TLA+ leaves the
choice open and the code takes the first: they are IF now.

*Hubs* (`HubsInStep`, `HopIsTransparentHolds`, `SleepHoldsDownstreamHolds`).
Neither property is inductive: a second hub that held a position, a range or a
trim which the first has never known would go on serving it. `RelayInv` adds that
it never does (`KnowsNoMore`), which the sink preserves because it holds the last
known value at every hop. `HopIsTransparent` was false as first stated, of
snapshots its run did not have: it now names the two boundary readings of section
6, which the run has as well.

*Listener* (`CapsHold`, `DisconnectTold`, `AckMeansPut`). Places are given back
once because a connection's once is spent exactly when it has ended (`ConnInv`),
so the counters are cardinalities (`SlotInv`); `HeardInv` names the open
connection whose close will report the silence; an acknowledgement on its way
speaks of a record that has been put, which with `CarInv` (the car listens to a
connection of its own) carries `AckedIsPut`. `AckMeansPut` is the safety half of
`AllDelivered`. Assumed of the constants: the connections are finitely many.

*Dialer* (`OneServes`, `BarrenEscalate`, `LingeringBounded`). `GaugeInv` ties
the flag, the gauge and the one live context. `BackoffInv`: the interval is at
least what the barren sessions so far warrant, so the next delay is at least nine
tenths of it; the provers
know nothing of `2 ^ n`, so its doubling up to `MaxDelay` is an assumption
(`PowersDouble`) that TLC evaluates. `AliveInv` counts: two changes of Power lie
between two starts, and what is owed of them (`Owed`) depends on how far the
supervisor is behind the car. It bounds the cancelled dialers that linger, and
shows that `Slots` is a bound that loses no behaviour (`SlotForEveryStart`).

*Commands* (`OneCommandAtATime`, `LateCommandsDropped`, `CountersAccountFor`).
`Budget`: the time left of a context and the age of its request make at most the
timeout, so a context that lives belongs to a request that is not late.
`CountInv` counts the commands that are open, and bounds the counters.

Proved without a run of its own: type correctness, `ServedTimeCovers` and
`ServedTimeNeverRegresses` (both follow from the register),
`CadenceWithinCeiling`, `StatusTellsOutage` and `ReauthWarnedOnce`; and, stated
beside their proofs, `SingleFlight`, `LoopEndsForLoss`, `DialersBounded`,
`SlotForEveryStart` and `CountersAddUp`; and the refinement `SinkOnRegister`.
Each inductive invariant holds with TLC on the instance of its run.

Only model-checked: liveness (`SubscriberCatchesUp`, `KeepsPolling`,
`StopsWhenCancelled`, `CatchesUp`, `OrphansEnd`, `TokenRecovers`,
`EveryCommandAnswered`, `FollowsPower`, and that in `AllDelivered` every record
gets through), since the prover has no rules for fairness here. Every other
property of a passing run is a theorem.

## 5. Not modelled

The thresholds of the integrity gate are a free choice. Of the formats, fields
that are copied like one that is kept, time stamps, ids and names are left out,
and so are the bytes: JSON, CSV and protobuf. The Rivian session refresh
(`callWithRefresh`) is left out: a call is retried once, and what fails is
Poller's failure, as is a live-session request that is rate-limited. The id map is filled
while the sinks are constructed; an id whose write failed stays assigned in
memory, and a file torn by a crash fails the next start (`plugin/sink/idmap`). The TeslaFi replay cursor, the limit on
streaming consumers and the routing of the sinks' servers are not modelled.
Configuration, metrics, the plugin registries, the one-shot commands and the mock
car have no behaviour the served path depends on. In ServedTime a vehicle
removed from the configuration, and files edited by hand, are left out.

## 6. Where the code and its comments disagree

The run `stale_body` ends in a counterexample; `PROJECT.json`, "findings", quotes
the line: a body is cached by AsOf because "the encoded body cannot have
changed", but a poll answered before the last frame, or a late frame, changes
the snapshot without advancing AsOf.

The models show these as well. Each is the code's behaviour in the module named,
and a property that says what the comment says would be violated there:

* Poller: a stream boundary polls in the middle of a delay the server asked for,
  because `triggerNow` looks at the last success only (`poll/poll.go:427`), while
  `poll.go:542-545` says it "must be honored in full".
* ServedTime: `commit` stamps its own copy, so the snapshot appended to the replay
  ring carries a zero or the previous AsOf (`cache/service.go:149`); one
  `lastFlushed` for all vehicles lets another vehicle's write postpone this one's
  (`cache/asofstore.go:71`), while `asofstore.go:20-22` bounds a crash's loss by
  the interval.
* Merger: repeated 0 kW frames close one charge session several times
  (`cache/trigger.go:174`, `session.go:9-12`); frames do not end a run of offline
  polls, so a car parked when the run began, and lost while driving later, is put
  to sleep (`cache/merge.go:202-222`).
* StreamSink: the ring is replayed before the broadcaster subscribes and the latest
  snapshot is not pushed on subscribing, so one merged in between is withheld
  until the vehicle changes again (`protocol/tesla/stream/v1/sink.go:270-280`).
* Commands: the session cache is exported before the deferred
  `UpdateCachedSessions` puts this command's session into it
  (`protocol/tesla/command/v1/commander.go:237-251`), so the first session of a
  vehicle is not in the file the comment says it is persisted to.
* Dialer: during a quick flap the cancelled dialer's connection and the next one's
  are open together, though `owner/stream/v1/source.go:130-131` says the dialer is
  "the only connection held per vehicle".
* Codecs: an available update has no vehicle_data status, so it does not survive
  decoding, which `source_mapping.go:62-65` calls the inverse of the sink's
  mapping; the last energy of a finished charge is dropped by `liveFromTesla`
  (`HopIsTransparent` excepts both); the REST sink truncates level and heading
  where data:update rounds, and compares the level with 0 before it truncates, so
  a car below one percent is served the 0 that the comment at
  `fleet/poll/v1/sink_mapping.go:235` says it holds back, and the next hub, which
  does hold it back, serves another level; a session of AC power that rounds up
  to 25 kW becomes a DC session at the next hub
  (`sink_mapping.go:274` and `:318`; `HopIsTransparent` names both boundaries); `toSnapshot` of a TeslaFi row truncates the range, up
  to a kilometre short, and has no unknown power.
* RestSink: the energy of a live session is told as it is, zero included
  (`sink_mapping.go:271-277`), so a session that a frame without energy started
  (`cache/merge.go:298-299`) tells 0 after a told energy, while the comment at
  `sink_mapping.go:292-294` carries the last one "so an interrupted session doesn't
  reset to 0"; only without a session is it carried (`MayBeZero`).
* Payloads: a null shift_state, the answer of a parked car, is decoded as unknown
  (`fleet/poll/v1/source_mapping.go:240-241`), while the comment at `:226-228` says
  Park. A parked car is therefore in another gear by poll than by stream, and the
  sink, which holds the last shift state while the gear is unknown
  (`sink_mapping.go:205-207`), tells a driven car's "D" until a frame says "P". A
  charge under half a kilowatt is none by poll, whose power is whole, and the
  first frame of its power opens one (`SourcesAgree` names the null and the half kilowatt).
* Rivian: `tsValue.i` truncates where its comment says rounded.
* Payloads: AC and DC charging power share one field and the last datum of a payload
  wins, so a 0 of one hides the other; a frame is stamped when it is received, so
  a record retransmitted over a second connection may replace a newer one.

## 7. Plan

1. *(done)* Merger, ServedTime, Poller, StreamSink: the cache, its restart, the
   cadence, the streaming consumer, and their proofs.
2. *(done)* Register and the refinement, model-checked and proved; RestSink on it;
   RestOverCache.
3. *(done)* Tokens, Commands, Dialer, Listener; the formats and Relay.
4. *(done)* Proofs of Tokens, RestSink, Listener, Dialer, Commands, the formats
   and the hubs, and of the refinement of the sink on the cache.
5. `Switchboard`: Merger's trigger feeding Poller feeding Merger, with progress:
   a drive that ends is eventually polled.
6. Smaller state: the id map, the TeslaFi cursor, the Rivian session.
