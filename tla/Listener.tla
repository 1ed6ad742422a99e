------------------------------ MODULE Listener ------------------------------
(***************************************************************************)
(* The Fleet Telemetry source (fleet/stream/v1/source.go) and its capped    *)
(* listener (source_listener.go): a car dials in, its connections are       *)
(* counted, upgraded, read, acknowledged, reaped and closed, while links    *)
(* fail and records are retransmitted until acknowledged.                   *)
(*                                                                          *)
(* The car, at address "home", numbers its records; a second peer, at       *)
(* "away", has no certificate of Tesla's, or a VIN the cache does not know. *)
(***************************************************************************)
EXTENDS Integers, Sequences, FiniteSets

CONSTANTS
    Conns,      \* connections that may exist at once
    MaxConns,   \* max_conns
    PerIP,      \* max_conns_per_ip; 0 disables it
    Records,    \* bound: the records the car sends are 1..Records
    Alerts,     \* those of another topic than vehicle_data, or without a streamed field
    MaxFaults   \* bound on lost links and undecodable frames

ASSUME ListenerAssumption ==
    /\ IsFiniteSet(Conns) /\ "none" \notin Conns
    /\ MaxConns \in Nat \ {0} /\ {PerIP, Records, MaxFaults} \subseteq Nat
    /\ Alerts \subseteq 1..Records

Ips == {"home", "away"}
None == "none"
Free == [phase |-> "free", ip |-> "home", wire |-> <<>>, acks |-> {}, peer |-> FALSE,
         released |-> TRUE]

VARIABLES
    listener,   \* cappedListener: active, byIP
    conn,       \* each connection: its phase, peer address, records on their way in and
                \* acknowledgements out, whether the peer is still there, its once
    car,        \* the connection it uses, and the records acknowledged to it
    hub,        \* records put into the cache, and whether one came after the last disconnect
                \* the cache was told of
    faults      \* faults so far

vars == <<listener, conn, car, hub, faults>>

Conn == [phase: {"free", "accepted", "rejected", "open", "closed"}, ip: Ips,
         wire: Seq(0..Records), acks: SUBSET (0..Records), peer: BOOLEAN, released: BOOLEAN]

TypeOK ==
    /\ listener \in [active: Int, byIP: [Ips -> Int]]
    /\ conn \in [Conns -> Conn]
    /\ car \in [conn: Conns \union {None}, acked: SUBSET (1..Records)]
    /\ hub \in [put: SUBSET (1..Records), untold: BOOLEAN]
    /\ faults \in 0..MaxFaults

-----------------------------------------------------------------------------
(* The listener.                                                            *)

\* reserve's two caps.
Admits(ip) ==
    /\ listener.active < MaxConns
    /\ PerIP > 0 => listener.byIP[ip] < PerIP

Reserve(l, ip) == [active |-> l.active + 1, byIP |-> [l.byIP EXCEPT ![ip] = @ + 1]]

\* Faulty variant: every Close gives a place back.
ReleaseEachTime(l, k) == [active |-> l.active - 1, byIP |-> [l.byIP EXCEPT ![k.ip] = @ - 1]]

\* release, through cappedConn's once: only the first Close gives the place back.
Release(l, k) ==
    IF k.released THEN l
    ELSE [active |-> l.active - 1, byIP |-> [l.byIP EXCEPT ![k.ip] = @ - 1]]

\* Accept: a peer's connection is admitted, or closed before TLS and as if never made.
Accept(c, ip) ==
    /\ conn[c].phase = "free" /\ Admits(ip)
    /\ listener' = Reserve(listener, ip)
    /\ conn' = [conn EXCEPT ![c] = [Free EXCEPT !.phase = "accepted", !.ip = ip, !.peer = TRUE,
                                                !.released = FALSE]]
    /\ UNCHANGED <<hub, faults>>

\* The car dials when it has no connection it believes in.
Dial(c) == car.conn = None /\ Accept(c, "home") /\ car' = [car EXCEPT !.conn = c]

\* The other peer tries once at a time.
DialOther(c) ==
    /\ \A d \in Conns : conn[d].phase # "free" => conn[d].ip = "home"
    /\ Accept(c, "away") /\ UNCHANGED car

-----------------------------------------------------------------------------
(* handleVehicle and the gws handlers.                                      *)

\* handleVehicle: the car's certificate carries its VIN; the connection is upgraded, its
\* deadline armed (OnOpen).  A peer without an identity is answered 401; one with an unknown
\* VIN is upgraded too.
HandleVehicle(c) ==
    /\ conn[c].phase = "accepted" /\ conn[c].peer
    /\ \/ conn' = [conn EXCEPT ![c].phase = "open"]
       \/ conn[c].ip = "away" /\ conn' = [conn EXCEPT ![c].phase = "rejected"]
    /\ UNCHANGED <<listener, car, hub, faults>>

\* Reliable delivery (external): the car sends its oldest unacknowledged record that is not
\* on its way, or makes a new one.
Send(c) ==
    /\ car.conn = c /\ conn[c].phase = "open" /\ conn[c].peer
    /\ \E r \in 1..Records :
          /\ r \notin car.acked /\ \A i \in DOMAIN conn[c].wire : conn[c].wire[i] # r
          /\ r \notin conn[c].acks
          /\ \A q \in 1..(r - 1) :
                q \in car.acked \/ q \in conn[c].acks \/ \E i \in DOMAIN conn[c].wire : conn[c].wire[i] = q
          /\ conn' = [conn EXCEPT ![c].wire = Append(@, r)]
    /\ UNCHANGED <<listener, car, hub, faults>>

\* The other peer's VIN is not the cache's: record 0.
SendOther(c) ==
    /\ conn[c].ip = "away" /\ conn[c].phase = "open" /\ conn[c].peer
    /\ conn[c].wire = <<>> /\ conn[c].acks = {}
    /\ conn' = [conn EXCEPT ![c].wire = <<0>>]
    /\ UNCHANGED <<listener, car, hub, faults>>

\* handleVehicleData: a record that carries a streamed field of a known VIN is put.
Cached(h, r) ==
    IF r \in Alerts \union {0} THEN h ELSE [put |-> h.put \union {r}, untold |-> TRUE]

\* OnMessage: the record is handled, then acknowledged whatever came of it, on the
\* connection it came by.
OnMessage(c) ==
    /\ conn[c].phase = "open" /\ conn[c].wire # <<>>
    /\ LET r == Head(conn[c].wire)
       IN  /\ hub' = Cached(hub, r)
           /\ conn' = [conn EXCEPT ![c].wire = Tail(@),
                                   ![c].acks = IF conn[c].peer THEN @ \union {r} ELSE @]
    /\ UNCHANGED <<listener, car, faults>>

\* A frame NewRecord cannot read is answered with an error at most.
Undecodable(c) ==
    /\ conn[c].phase = "open" /\ conn[c].wire # <<>> /\ faults < MaxFaults
    /\ conn' = [conn EXCEPT ![c].wire = Tail(@)]
    /\ faults' = faults + 1
    /\ UNCHANGED <<listener, car, hub>>

AckArrives(c) ==
    /\ conn[c].peer
    /\ \E r \in conn[c].acks :
          /\ conn' = [conn EXCEPT ![c].acks = @ \ {r}]
          /\ car' = IF conn[c].ip = "home" THEN [car EXCEPT !.acked = @ \union {r}] ELSE car
    /\ UNCHANGED <<listener, hub, faults>>

\* The link fails (external): the car drops the connection and will dial again, the hub does
\* not know; what it had received may still be read.
LinkFails(c) ==
    /\ conn[c].phase \notin {"free", "closed"} /\ conn[c].peer /\ faults < MaxFaults
    /\ \E wire \in {conn[c].wire, <<>>} :
          conn' = [conn EXCEPT ![c].peer = FALSE, ![c].wire = wire, ![c].acks = {}]
    /\ car' = IF car.conn = c THEN [car EXCEPT !.conn = None] ELSE car
    /\ faults' = faults + 1
    /\ UNCHANGED <<listener, hub>>

\* Faulty variant: the cache is told only when the deadline has passed.
OnCloseIdleOnly(c, h) == IF conn[c].peer THEN h ELSE [h EXCEPT !.untold = FALSE]

\* OnClose: OnStreamDisconnect of a known VIN.  Whether it asks for a poll is decided there
\* (Merger!OnStreamDisconnect).
OnClose(c, h) == IF conn[c].ip = "home" THEN [h EXCEPT !.untold = FALSE] ELSE h

\* The connection ends: OnClose if it was upgraded, and a Close.
Ends(c) ==
    /\ hub' = IF conn[c].phase = "open" THEN OnClose(c, hub) ELSE hub
    /\ listener' = Release(listener, conn[c])
    /\ conn' = [conn EXCEPT ![c].phase = "closed", ![c].released = TRUE, ![c].wire = <<>>,
                            ![c].acks = {}]
    /\ car' = IF car.conn = c THEN [car EXCEPT !.conn = None] ELSE car
    /\ UNCHANGED faults

\* Faulty variant: the deadline is not armed before the first frame.
DeadlineAfterFrame(c) == conn[c].wire = <<>> /\ \E r \in hub.put : TRUE

\* resetDeadline: armed at the upgrade and by every frame, so it passes once nothing comes.
DeadlinePasses(c) == conn[c].wire = <<>>

\* The read deadline passes: of a peer that is gone, or of a car with nothing to say (a
\* healthy one pushes well inside it).
Idle(c) ==
    /\ conn[c].phase = "open" /\ DeadlinePasses(c)
    /\ conn[c].peer => conn[c].acks = {} /\ (conn[c].ip = "home" => car.acked = 1..Records)
    /\ Ends(c)

\* The peer closes: the car recycles its connection when all it sent is answered.
PeerCloses(c) ==
    /\ conn[c].phase \in {"accepted", "rejected", "open"} /\ conn[c].peer
    /\ conn[c].wire = <<>> /\ conn[c].acks = {}
    /\ conn[c].ip = "home" => conn[c].phase = "open" /\ car.acked = 1..Records
    /\ Ends(c)

\* Before the upgrade no deadline is set: TCP's keepalive (external) finds the peer gone.
KeepaliveFails(c) ==
    /\ conn[c].phase \in {"accepted", "rejected"} /\ ~conn[c].peer
    /\ Ends(c)

\* The websocket library and the HTTP server each close what they are done with: a second
\* Close.
CloseAgain(c) ==
    /\ conn[c].phase = "closed"
    /\ listener' = Release(listener, conn[c])
    /\ conn' = [conn EXCEPT ![c] = Free]
    /\ UNCHANGED <<car, hub, faults>>

-----------------------------------------------------------------------------
Init ==
    /\ listener = [active |-> 0, byIP |-> [ip \in Ips |-> 0]]
    /\ conn = [c \in Conns |-> Free]
    /\ car = [conn |-> None, acked |-> {}]
    /\ hub = [put |-> {}, untold |-> FALSE]
    /\ faults = 0

Served(c) == HandleVehicle(c) \/ OnMessage(c) \/ Idle(c) \/ KeepaliveFails(c) \/ CloseAgain(c)
Driven(c) == Dial(c) \/ Send(c) \/ AckArrives(c)

Next ==
    \E c \in Conns :
        \/ Served(c) \/ Driven(c)
        \/ DialOther(c) \/ SendOther(c) \/ PeerCloses(c)
        \/ Undecodable(c) \/ LinkFails(c)

Spec == Init /\ [][Next]_vars

\* The goroutine of a connection runs, its timers fire, and a car with something to say dials,
\* sends and hears; nothing obliges a peer to leave, or the link to fail.
Fairness ==
    /\ WF_vars(\E c \in Conns : Dial(c))
    /\ \A c \in Conns :
          /\ WF_vars(HandleVehicle(c)) /\ WF_vars(OnMessage(c)) /\ WF_vars(Idle(c))
          /\ WF_vars(KeepaliveFails(c)) /\ WF_vars(CloseAgain(c))
          /\ WF_vars(Send(c)) /\ WF_vars(AckArrives(c))

FairSpec == Spec /\ Fairness

-----------------------------------------------------------------------------
(* Properties.                                                              *)

\* The places taken are those of the connections there are, whatever is closed, by whom and
\* how often: the caps neither open nor wedge.
SlotsAccounted ==
    LET Taken(ip) == Cardinality({c \in Conns : conn[c].phase \notin {"free", "closed"} /\ conn[c].ip = ip})
    IN  /\ \A ip \in Ips : listener.byIP[ip] = Taken(ip) /\ (PerIP > 0 => Taken(ip) <= PerIP)
        /\ listener.active = Taken("home") + Taken("away") /\ listener.active <= MaxConns

\* When the last connection of the car is gone, the cache has been told of a disconnect after
\* the last frame put, even if connections overlapped: it has had the occasion to poll a car
\* that left in the middle of a drive.
SilenceReported ==
    (\A c \in Conns : conn[c].ip = "home" => conn[c].phase \in {"free", "closed"}) => ~hub.untold

\* What is acknowledged and has data is in the cache.
AckedIsPut == car.acked \ Alerts \subseteq hub.put

\* Every record of the car is acknowledged in the end, and what has data is in the cache by
\* then, although links fail with records and acknowledgements on the way and half-open
\* connections hold the places of its address until they are reaped.
AllDelivered ==
    /\ <>(car.acked = 1..Records)
    /\ []AckedIsPut
=============================================================================
