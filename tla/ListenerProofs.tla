--------------------------- MODULE ListenerProofs ---------------------------
(***************************************************************************)
(* Proofs about Listener, for any number of connections, caps, records and *)
(* faults.                                                                 *)
(*                                                                         *)
(* The counters are right because a connection's once is spent exactly     *)
(* when it has ended; an acknowledgement on its way speaks of a record     *)
(* that has been put; and a frame not followed by a disconnect has an open *)
(* connection of the car that will bring one.                              *)
(***************************************************************************)
EXTENDS Listener, FiniteSetTheorems, TLAPS

\* What may travel on a connection from ip.
RecordsOf(ip) == IF ip = "home" THEN 1..Records ELSE {0}

\* The connection counts against the caps.
Busy(k) == k.phase \notin {"free", "closed"}

\* Each connection carries its own peer's records, its once is spent when it has ended,
\* and what it acknowledges has been put.
ConnInv(k) ==
    /\ k.wire \in Seq(RecordsOf(k.ip)) /\ k.acks \subseteq RecordsOf(k.ip)
    /\ k.released <=> ~Busy(k)
    /\ ~Busy(k) => k.acks = {}
    /\ k.acks \ (Alerts \union {0}) \subseteq hub.put

\* The car believes in a connection of its own that the hub has not ended.
CarInv == \A c \in Conns : car.conn = c => Busy(conn[c]) /\ conn[c].ip = "home"

\* The connections from ip that count.
Places(ip) == {c \in Conns : Busy(conn[c]) /\ conn[c].ip = ip}

SlotInv ==
    /\ \A ip \in Ips : /\ listener.byIP[ip] = Cardinality(Places(ip))
                       /\ PerIP > 0 => listener.byIP[ip] <= PerIP
    /\ listener.active = listener.byIP["home"] + listener.byIP["away"]
    /\ listener.active <= MaxConns

\* A frame the cache was not told of a disconnect after came by a connection that is open.
HeardInv == hub.untold => \E c \in Conns : conn[c].phase = "open" /\ conn[c].ip = "home"

ListenerInv ==
    /\ TypeOK /\ (\A c \in Conns : ConnInv(conn[c])) /\ CarInv /\ AckedIsPut
    /\ SlotInv /\ HeardInv

-----------------------------------------------------------------------------
(* What every step needs.                                                   *)

\* The constants, and a free place.
LEMMA Constants ==
    /\ IsFiniteSet(Conns) /\ None \notin Conns /\ MaxConns \in Nat /\ PerIP \in Nat
    /\ Records \in Nat /\ MaxFaults \in Nat /\ Alerts \subseteq 1..Records
    /\ "home" \in Ips /\ "away" \in Ips
    /\ \A ip \in Ips : RecordsOf(ip) \subseteq 0..Records
    /\ Free \in Conn /\ Free.phase = "free" /\ Free.ip = "home" /\ Free.wire = <<>>
    /\ Free.acks = {} /\ Free.released
  <1>1. /\ IsFiniteSet(Conns) /\ None \notin Conns /\ MaxConns \in Nat /\ PerIP \in Nat
        /\ Records \in Nat /\ MaxFaults \in Nat /\ Alerts \subseteq 1..Records
        /\ "home" \in Ips /\ "away" \in Ips
    BY ListenerAssumption DEF None, Ips
  <1>2. \A ip \in Ips : RecordsOf(ip) \subseteq 0..Records
    BY <1>1 DEF RecordsOf
  <1>3. Free \in Conn
    BY <1>1 DEF Free, Conn
  <1> QED
    BY <1>1, <1>2, <1>3 DEF Free

\* What is read off a wire was on it.
LEMMA HeadTail ==
    ASSUME NEW S, NEW w \in Seq(S), w # <<>> PROVE Head(w) \in S /\ Tail(w) \in Seq(S)
  OBVIOUS

\* A step changes one connection.
LEMMA OneConn ==
    ASSUME TypeOK, NEW c \in Conns, NEW k \in Conn, conn' = [conn EXCEPT ![c] = k]
    PROVE  /\ conn' \in [Conns -> Conn] /\ conn'[c] = k
           /\ \A d \in Conns \ {c} : conn'[d] = conn[d]
  BY DEF TypeOK

\* The connections that count are finitely many.
LEMMA PlacesFinite ==
    \A ip \in Ips : IsFiniteSet(Places(ip)) /\ Cardinality(Places(ip)) \in Nat
  <1>1. \A ip \in Ips : Places(ip) \subseteq Conns
    BY DEF Places
  <1> QED
    BY <1>1, Constants, FS_Subset, FS_CardinalityType

\* A connection that neither begins nor ends counts as before.
LEMMA PlacesKept ==
    ASSUME TypeOK, NEW c \in Conns, NEW k \in Conn, conn' = [conn EXCEPT ![c] = k],
           Busy(k) <=> Busy(conn[c]), Busy(k) => k.ip = conn[c].ip
    PROVE  \A ip \in Ips : Places(ip)' = Places(ip)
  <1>1. /\ conn'[c] = k /\ \A d \in Conns \ {c} : conn'[d] = conn[d]
    BY OneConn
  <1>2. \A d \in Conns : (Busy(conn'[d]) <=> Busy(conn[d]))
                         /\ (Busy(conn[d]) => conn'[d].ip = conn[d].ip)
    BY <1>1
  <1> QED
    BY <1>2 DEF Places, Busy

\* One that begins counts for its address.
LEMMA PlacesTaken ==
    ASSUME TypeOK, NEW c \in Conns, NEW k \in Conn, conn' = [conn EXCEPT ![c] = k],
           ~Busy(conn[c]), Busy(k)
    PROVE  \A ip \in Ips : Cardinality(Places(ip))' =
                           Cardinality(Places(ip)) + (IF ip = k.ip THEN 1 ELSE 0)
  <1>1. /\ conn'[c] = k /\ \A d \in Conns \ {c} : conn'[d] = conn[d]
    BY OneConn
  <1> TAKE ip \in Ips
  <1>2. CASE ip = k.ip
    <2>1. Places(ip)' = Places(ip) \union {c} /\ c \notin Places(ip)
      BY <1>1, <1>2 DEF Places, Busy
    <2> QED
      BY <1>2, <2>1, PlacesFinite, FS_AddElement
  <1>3. CASE ip # k.ip
    <2>1. Places(ip)' = Places(ip)
      BY <1>1, <1>3 DEF Places, Busy
    <2>2. Cardinality(Places(ip)) \in Nat
      BY PlacesFinite
    <2> QED
      BY <1>3, <2>1, <2>2
  <1> QED
    BY <1>2, <1>3

\* One that ends does no more.
LEMMA PlacesLeft ==
    ASSUME TypeOK, NEW c \in Conns, NEW k \in Conn, conn' = [conn EXCEPT ![c] = k],
           Busy(conn[c]), ~Busy(k)
    PROVE  \A ip \in Ips : Cardinality(Places(ip))' =
                           Cardinality(Places(ip)) - (IF ip = conn[c].ip THEN 1 ELSE 0)
  <1>1. /\ conn'[c] = k /\ \A d \in Conns \ {c} : conn'[d] = conn[d]
    BY OneConn
  <1> TAKE ip \in Ips
  <1>2. CASE ip = conn[c].ip
    <2>1. Places(ip)' = Places(ip) \ {c} /\ c \in Places(ip)
      BY <1>1, <1>2 DEF Places, Busy
    <2> QED
      BY <1>2, <2>1, PlacesFinite, FS_RemoveElement
  <1>3. CASE ip # conn[c].ip
    <2>1. Places(ip)' = Places(ip)
      BY <1>1, <1>3 DEF Places, Busy
    <2>2. Cardinality(Places(ip)) \in Nat
      BY PlacesFinite
    <2> QED
      BY <1>3, <2>1, <2>2
  <1> QED
    BY <1>2, <1>3

\* The connections keep their part if the one that changes has it.
LEMMA ConnsKept ==
    ASSUME ListenerInv, NEW c \in Conns, NEW k \in Conn, conn' = [conn EXCEPT ![c] = k],
           ConnInv(k)', hub.put \subseteq hub'.put
    PROVE  \A d \in Conns : ConnInv(conn[d])'
  <1>1. TypeOK /\ conn'[c] = k /\ \A d \in Conns \ {c} : conn'[d] = conn[d]
    BY OneConn DEF ListenerInv
  <1>2. ASSUME NEW d \in Conns \ {c} PROVE ConnInv(conn[d])'
    BY <1>1 DEF ListenerInv, ConnInv, Busy
  <1>3. ConnInv(conn[c])'
    BY <1>1 DEF ConnInv, Busy
  <1> QED
    BY <1>2, <1>3

\* A step on a connection that stays what it is keeps the places, and the car's belief.
LEMMA SameConn ==
    ASSUME ListenerInv, NEW c \in Conns, NEW k \in Conn, conn' = [conn EXCEPT ![c] = k],
           Busy(conn[c]), Busy(k), k.ip = conn[c].ip, listener' = listener,
           car'.conn \in {car.conn, None}
    PROVE  SlotInv' /\ CarInv'
  <1>1. TypeOK /\ conn'[c] = k /\ \A d \in Conns \ {c} : conn'[d] = conn[d]
    BY OneConn DEF ListenerInv
  <1>2. \A ip \in Ips : Places(ip)' = Places(ip)
    BY <1>1, PlacesKept
  <1>3. SlotInv'
    BY <1>2 DEF ListenerInv, SlotInv
  <1>4. CarInv'
    BY <1>1, Constants DEF ListenerInv, CarInv
  <1> QED
    BY <1>3, <1>4

-----------------------------------------------------------------------------
(* Steps.                                                                   *)

\* The listener has just been opened.
LEMMA ListenerInit == Init => ListenerInv
  <1> SUFFICES ASSUME Init PROVE ListenerInv
    OBVIOUS
  <1>1. /\ listener.active = 0 /\ \A ip \in Ips : listener.byIP[ip] = 0
        /\ \A c \in Conns : conn[c] = Free
        /\ car.conn = None /\ car.acked = {} /\ hub.put = {} /\ hub.untold = FALSE
    BY DEF Init
  <1>2. TypeOK
    <2>1. listener \in [active: Int, byIP: [Ips -> Int]] /\ conn \in [Conns -> Conn]
      BY Constants DEF Init
    <2>2. /\ car \in [conn: Conns \union {None}, acked: SUBSET (1..Records)]
          /\ hub \in [put: SUBSET (1..Records), untold: BOOLEAN]
          /\ faults \in 0..MaxFaults
      BY Constants DEF Init
    <2> QED
      BY <2>1, <2>2 DEF TypeOK
  <1>3. \A c \in Conns : ConnInv(conn[c])
    <2>1. ConnInv(Free)
      <3>1. Free.wire \in Seq(RecordsOf(Free.ip)) /\ Free.acks \subseteq RecordsOf(Free.ip)
        BY DEF Free
      <3> QED
        BY <3>1 DEF ConnInv, Busy, Free
    <2> QED
      BY <1>1, <2>1
  <1>4. SlotInv
    <2>1. \A ip \in Ips : Places(ip) = {}
      BY <1>1, Constants DEF Places, Busy
    <2> QED
      <3>1. \A ip \in Ips : Cardinality(Places(ip)) = 0
        BY <2>1, FS_EmptySet
      <3>2. listener.byIP["home"] = 0 /\ listener.byIP["away"] = 0
        BY <1>1 DEF Ips
      <3> QED
        BY <1>1, <3>1, <3>2, ListenerAssumption DEF SlotInv
  <1> QED
    BY <1>1, <1>2, <1>3, <1>4, Constants DEF ListenerInv, CarInv, AckedIsPut, HeardInv

\* Accept: the place is reserved before the connection exists.
LEMMA AcceptStep ==
    ASSUME ListenerInv, NEW c \in Conns, NEW ip \in Ips, Accept(c, ip),
           \/ ip = "home" /\ car' = [car EXCEPT !.conn = c]
           \/ car' = car
    PROVE  ListenerInv'
  <1> DEFINE k == [Free EXCEPT !.phase = "accepted", !.ip = ip, !.peer = TRUE,
                               !.released = FALSE]
  <1>0. /\ TypeOK /\ conn[c].phase = "free" /\ Admits(ip) /\ listener' = Reserve(listener, ip)
        /\ conn' = [conn EXCEPT ![c] = k] /\ UNCHANGED <<hub, faults>>
    BY DEF ListenerInv, Accept
  <1>1. /\ k \in Conn /\ k.phase = "accepted" /\ k.ip = ip /\ k.wire = <<>> /\ k.acks = {}
        /\ k.released = FALSE
    BY Constants DEF Conn, Free
  <1> HIDE DEF k
  <1>2. /\ conn' \in [Conns -> Conn] /\ conn'[c] = k
        /\ \A d \in Conns \ {c} : conn'[d] = conn[d]
    BY <1>0, <1>1, OneConn
  <1>3. Busy(k) /\ ~Busy(conn[c])
    BY <1>0, <1>1 DEF Busy
  <1>4. /\ listener.active \in Int /\ \A i \in Ips : listener.byIP[i] \in Int
        /\ listener' \in [active: Int, byIP: [Ips -> Int]]
        /\ listener'.active = listener.active + 1
        /\ \A i \in Ips : listener'.byIP[i] = listener.byIP[i] + (IF i = ip THEN 1 ELSE 0)
    BY <1>0 DEF Reserve, TypeOK
  <1>6. \A d \in Conns : ConnInv(conn[d])'
    <2>1. ConnInv(k)'
      BY <1>1, <1>3 DEF ConnInv
    <2> QED
      BY <1>0, <1>1, <2>1, ConnsKept
  <1>7. SlotInv'
    <2>1. \A i \in Ips : Cardinality(Places(i))' =
                         Cardinality(Places(i)) + (IF i = ip THEN 1 ELSE 0)
      BY <1>0, <1>1, <1>3, PlacesTaken
    <2>2. \A i \in Ips : listener'.byIP[i] = Cardinality(Places(i))'
      BY <1>4, <2>1 DEF ListenerInv, SlotInv
    <2>3. ASSUME NEW i \in Ips, PerIP > 0 PROVE listener'.byIP[i] <= PerIP
      <3>1. PerIP \in Nat /\ listener.byIP[i] \in Int /\ listener.byIP[i] <= PerIP
        BY <1>4, <2>3, Constants DEF ListenerInv, SlotInv
      <3>2. listener.byIP[ip] < PerIP
        BY <1>0, <2>3 DEF Admits
      <3>3. CASE i = ip
        BY <1>4, <3>1, <3>2, <3>3
      <3>4. CASE i # ip
        BY <1>4, <3>1, <3>4
      <3> QED
        BY <3>3, <3>4
    <2>4. listener'.active <= MaxConns
      BY <1>0, <1>4, Constants DEF Admits
    <2>5. listener'.active = listener'.byIP["home"] + listener'.byIP["away"]
      <3> DEFINE h == listener.byIP["home"]
                 a == listener.byIP["away"]
      <3>1. h \in Int /\ a \in Int /\ listener.active = h + a
        BY <1>4 DEF ListenerInv, SlotInv, Ips
      <3>2. CASE ip = "home"
        <4>1. listener'.byIP["home"] = h + 1 /\ listener'.byIP["away"] = a
          BY <1>4, <3>1, <3>2 DEF Ips
        <4> QED
          BY <1>4, <3>1, <4>1
      <3>3. CASE ip = "away"
        <4>1. listener'.byIP["home"] = h /\ listener'.byIP["away"] = a + 1
          BY <1>4, <3>1, <3>3 DEF Ips
        <4> QED
          BY <1>4, <3>1, <4>1
      <3> QED
        BY <3>2, <3>3 DEF Ips
    <2> QED
      BY <2>2, <2>3, <2>4, <2>5 DEF SlotInv
  <1>8. CarInv'
    <2>1. CASE ip = "home" /\ car' = [car EXCEPT !.conn = c]
      <3>1. car'.conn = c
        BY <1>0, <2>1 DEF TypeOK
      <3> QED
        BY <1>1, <1>2, <1>3, <2>1, <3>1 DEF CarInv
    <2>2. CASE car' = car
      BY <1>2, <1>3, <2>2 DEF ListenerInv, CarInv
    <2> QED
      BY <2>1, <2>2
  <1>9. car'.acked = car.acked
    BY <1>0 DEF TypeOK
  <1>10. HeardInv'
    BY <1>0, <1>2 DEF ListenerInv, HeardInv
  <1>11. TypeOK'
    <2>1. car' \in [conn: Conns \union {None}, acked: SUBSET (1..Records)]
      BY <1>0 DEF TypeOK
    <2> QED
      BY <1>0, <1>2, <1>4, <2>1 DEF TypeOK
  <1> QED
    BY <1>0, <1>6, <1>7, <1>8, <1>9, <1>10, <1>11 DEF ListenerInv, AckedIsPut

\* A step on a connection that stays what it is: its wire and its acknowledgements change,
\* or it is upgraded or refused, and the cache has at least what it had.
LEMMA UseStep ==
    ASSUME ListenerInv, TypeOK', NEW c \in Conns, NEW k \in Conn,
           conn' = [conn EXCEPT ![c] = k], listener' = listener,
           Busy(conn[c]), Busy(k), k.ip = conn[c].ip, k.released = conn[c].released,
           conn[c].phase = "open" => k.phase = "open",
           k.wire \in Seq(RecordsOf(k.ip)), k.acks \subseteq RecordsOf(k.ip),
           k.acks \ (Alerts \union {0}) \subseteq hub'.put,
           hub.put \subseteq hub'.put,
           hub'.untold => hub.untold \/ (k.phase = "open" /\ k.ip = "home"),
           car'.conn \in {car.conn, None}, car'.acked \ Alerts \subseteq hub'.put
    PROVE  ListenerInv'
  <1>1. TypeOK /\ conn'[c] = k /\ \A d \in Conns \ {c} : conn'[d] = conn[d]
    BY OneConn DEF ListenerInv
  <1>2. \A d \in Conns : ConnInv(conn[d])'
    <2>1. ConnInv(k)'
      <3>1. ConnInv(conn[c])
        BY DEF ListenerInv
      <3> QED
        BY <3>1 DEF ConnInv, Busy
    <2> QED
      BY <2>1, ConnsKept
  <1>3. SlotInv' /\ CarInv'
    BY SameConn
  <1>4. HeardInv'
    BY <1>1 DEF ListenerInv, HeardInv
  <1> QED
    BY <1>2, <1>3, <1>4 DEF ListenerInv, AckedIsPut

\* handleVehicle: upgraded or refused.
LEMMA HandleStep == ASSUME ListenerInv, NEW c \in Conns, HandleVehicle(c) PROVE ListenerInv'
  <1>0. /\ TypeOK /\ conn[c] \in Conn /\ conn[c].phase = "accepted"
        /\ UNCHANGED <<listener, car, hub, faults>> /\ ConnInv(conn[c])
    BY DEF ListenerInv, HandleVehicle, TypeOK
  <1>1. PICK ph \in {"open", "rejected"} :
            conn' = [conn EXCEPT ![c] = [conn[c] EXCEPT !.phase = ph]]
    BY DEF HandleVehicle
  <1> DEFINE k == [conn[c] EXCEPT !.phase = ph]
  <1>2. /\ k \in Conn /\ k.phase = ph /\ k.ip = conn[c].ip /\ k.released = conn[c].released
        /\ k.wire = conn[c].wire /\ k.acks = conn[c].acks
    BY <1>0 DEF Conn
  <1> HIDE DEF k
  <1>3. conn' = [conn EXCEPT ![c] = k]
    BY <1>1 DEF k
  <1>4. TypeOK'
    BY <1>0, <1>2, <1>3, OneConn DEF TypeOK
  <1>5. Busy(conn[c]) /\ Busy(k)
    BY <1>0, <1>2 DEF Busy
  <1>6. car'.acked \ Alerts \subseteq hub'.put
    BY <1>0 DEF ListenerInv, AckedIsPut
  <1> QED
    BY <1>0, <1>2, <1>3, <1>4, <1>5, <1>6, UseStep DEF ConnInv

\* A peer sends a record of its own.
LEMMA SendStep ==
    ASSUME ListenerInv, NEW c \in Conns, Send(c) \/ SendOther(c) PROVE ListenerInv'
  <1>0. /\ TypeOK /\ conn[c] \in Conn /\ conn[c].phase = "open"
        /\ UNCHANGED <<listener, car, hub, faults>> /\ ConnInv(conn[c])
        /\ conn[c].wire \in Seq(0..Records)
    BY DEF ListenerInv, Send, SendOther, TypeOK, Conn
  <1>1. PICK w \in Seq(RecordsOf(conn[c].ip)) :
            conn' = [conn EXCEPT ![c] = [conn[c] EXCEPT !.wire = w]]
    <2>1. CASE Send(c)
      <3>1. conn[c].ip = "home"
        BY <2>1 DEF ListenerInv, CarInv, Send
      <3>2. PICK r \in 1..Records :
              conn' = [conn EXCEPT ![c] = [conn[c] EXCEPT !.wire = Append(conn[c].wire, r)]]
        BY <2>1 DEF Send
      <3>3. Append(conn[c].wire, r) \in Seq(RecordsOf(conn[c].ip))
        BY <1>0, <3>1 DEF ConnInv, RecordsOf
      <3> QED
        BY <3>2, <3>3
    <2>2. CASE SendOther(c)
      <3>1. conn[c].ip = "away"
            /\ conn' = [conn EXCEPT ![c] = [conn[c] EXCEPT !.wire = <<0>>]]
        BY <2>2 DEF SendOther
      <3>2. <<0>> \in Seq(RecordsOf(conn[c].ip))
        BY <3>1 DEF RecordsOf
      <3> QED
        BY <3>1, <3>2
    <2> QED
      BY <2>1, <2>2
  <1> DEFINE k == [conn[c] EXCEPT !.wire = w]
  <1>2. w \in Seq(0..Records)
    <2>1. conn[c].ip \in Ips
      BY <1>0 DEF Conn
    <2> QED
      BY <2>1, Constants
  <1>3. /\ k \in Conn /\ k.phase = "open" /\ k.ip = conn[c].ip
        /\ k.released = conn[c].released /\ k.wire = w /\ k.acks = conn[c].acks
    BY <1>0, <1>2 DEF Conn
  <1> HIDE DEF k
  <1>4. conn' = [conn EXCEPT ![c] = k]
    BY <1>1 DEF k
  <1>5. TypeOK'
    BY <1>0, <1>3, <1>4, OneConn DEF TypeOK
  <1>6. Busy(conn[c]) /\ Busy(k)
    BY <1>0, <1>3 DEF Busy
  <1>7. car'.acked \ Alerts \subseteq hub'.put
    BY <1>0 DEF ListenerInv, AckedIsPut
  <1> QED
    BY <1>0, <1>1, <1>3, <1>4, <1>5, <1>6, <1>7, UseStep DEF ConnInv

\* OnMessage: the record is put, if it has data, before it is acknowledged.
LEMMA MessageStep == ASSUME ListenerInv, NEW c \in Conns, OnMessage(c) PROVE ListenerInv'
  <1> DEFINE r == Head(conn[c].wire)
             k == [conn[c] EXCEPT !.wire = Tail(conn[c].wire),
                                  !.acks = IF conn[c].peer THEN conn[c].acks \union {r}
                                           ELSE conn[c].acks]
  <1>0. /\ TypeOK /\ conn[c] \in Conn /\ conn[c].phase = "open" /\ conn[c].wire # <<>>
        /\ UNCHANGED <<listener, car, faults>> /\ ConnInv(conn[c])
        /\ hub' = Cached(hub, r) /\ conn' = [conn EXCEPT ![c] = k]
    BY DEF ListenerInv, OnMessage, TypeOK
  <1>1. /\ r \in RecordsOf(conn[c].ip) /\ Tail(conn[c].wire) \in Seq(RecordsOf(conn[c].ip))
        /\ conn[c].ip \in Ips
    <2>1. conn[c].wire \in Seq(RecordsOf(conn[c].ip)) /\ conn[c].ip \in Ips
      BY <1>0 DEF ConnInv, Conn
    <2> QED
      BY <1>0, <2>1, HeadTail
  <1>2. r \in 0..Records /\ Tail(conn[c].wire) \in Seq(0..Records)
    BY <1>1, Constants
  <1>3. /\ k \in Conn /\ k.phase = "open" /\ k.ip = conn[c].ip
        /\ k.released = conn[c].released /\ k.wire = Tail(conn[c].wire)
        /\ k.acks \subseteq conn[c].acks \union {r}
    <2>1. conn[c].acks \union {r} \in SUBSET (0..Records)
      BY <1>0, <1>2 DEF Conn
    <2> HIDE DEF r
    <2> QED
      BY <1>0, <1>2, <2>1 DEF Conn
  <1>4. /\ hub' \in [put: SUBSET (1..Records), untold: BOOLEAN] /\ hub.put \subseteq hub'.put
        /\ r \notin Alerts \union {0} => r \in hub'.put
        /\ hub'.untold => hub.untold \/ r \notin Alerts \union {0}
    <2>1. CASE r \in Alerts \union {0}
      BY <1>0, <2>1 DEF Cached, TypeOK
    <2>2. CASE r \notin Alerts \union {0}
      <3>1. r \in 1..Records
        BY <1>2, <2>2
      <3> QED
        BY <1>0, <2>2, <3>1 DEF Cached, TypeOK
    <2> QED
      BY <2>1, <2>2
  <1> HIDE DEF r, k
  <1>5. TypeOK'
    BY <1>0, <1>3, <1>4, OneConn DEF TypeOK
  <1>6. Busy(conn[c]) /\ Busy(k)
    BY <1>0, <1>3 DEF Busy
  <1>7. car'.acked \ Alerts \subseteq hub'.put
    BY <1>0, <1>4 DEF ListenerInv, AckedIsPut
  <1>8. k.acks \ (Alerts \union {0}) \subseteq hub'.put /\ k.acks \subseteq RecordsOf(k.ip)
    BY <1>0, <1>1, <1>3, <1>4 DEF ConnInv
  <1>9. r \notin Alerts \union {0} => k.ip = "home"
    BY <1>1, <1>3 DEF RecordsOf
  <1> QED
    BY <1>0, <1>1, <1>3, <1>4, <1>5, <1>6, <1>7, <1>8, <1>9, UseStep

\* A frame that cannot be read.
LEMMA UndecodableStep == ASSUME ListenerInv, NEW c \in Conns, Undecodable(c) PROVE ListenerInv'
  <1> DEFINE k == [conn[c] EXCEPT !.wire = Tail(conn[c].wire)]
  <1>0. /\ TypeOK /\ conn[c] \in Conn /\ conn[c].phase = "open" /\ conn[c].wire # <<>>
        /\ UNCHANGED <<listener, car, hub>> /\ ConnInv(conn[c])
        /\ faults < MaxFaults /\ faults' = faults + 1 /\ conn' = [conn EXCEPT ![c] = k]
    BY DEF ListenerInv, Undecodable, TypeOK
  <1>1. /\ Tail(conn[c].wire) \in Seq(RecordsOf(conn[c].ip))
        /\ Tail(conn[c].wire) \in Seq(0..Records)
    <2>1. conn[c].wire \in Seq(RecordsOf(conn[c].ip)) /\ conn[c].wire \in Seq(0..Records)
      BY <1>0 DEF ConnInv, Conn
    <2> QED
      BY <1>0, <2>1, HeadTail
  <1>2. /\ k \in Conn /\ k.phase = "open" /\ k.ip = conn[c].ip
        /\ k.released = conn[c].released /\ k.wire = Tail(conn[c].wire)
        /\ k.acks = conn[c].acks
    BY <1>0, <1>1 DEF Conn
  <1> HIDE DEF k
  <1>3. TypeOK'
    <2>1. faults' \in 0..MaxFaults
      BY <1>0, Constants DEF TypeOK
    <2> QED
      BY <1>0, <1>2, <2>1, OneConn DEF TypeOK
  <1>4. Busy(conn[c]) /\ Busy(k)
    BY <1>0, <1>2 DEF Busy
  <1>5. car'.acked \ Alerts \subseteq hub'.put
    BY <1>0 DEF ListenerInv, AckedIsPut
  <1> QED
    BY <1>0, <1>1, <1>2, <1>3, <1>4, <1>5, UseStep DEF ConnInv

\* An acknowledgement arrives: of a record that has been put.
LEMMA AckStep == ASSUME ListenerInv, NEW c \in Conns, AckArrives(c) PROVE ListenerInv'
  <1>0. /\ TypeOK /\ conn[c] \in Conn /\ UNCHANGED <<listener, hub, faults>>
        /\ ConnInv(conn[c]) /\ car \in [conn: Conns \union {None}, acked: SUBSET (1..Records)]
    BY DEF ListenerInv, AckArrives, TypeOK
  <1>1. PICK r \in conn[c].acks :
          /\ conn' = [conn EXCEPT ![c] = [conn[c] EXCEPT !.acks = conn[c].acks \ {r}]]
          /\ car' = IF conn[c].ip = "home" THEN [car EXCEPT !.acked = car.acked \union {r}]
                    ELSE car
    BY DEF AckArrives
  <1> DEFINE k == [conn[c] EXCEPT !.acks = conn[c].acks \ {r}]
  <1>2. /\ k \in Conn /\ k.phase = conn[c].phase /\ k.ip = conn[c].ip
        /\ k.released = conn[c].released /\ k.wire = conn[c].wire
        /\ k.acks \subseteq conn[c].acks
    BY <1>0 DEF Conn
  <1>3. Busy(conn[c]) /\ Busy(k)
    BY <1>0, <1>2 DEF Busy, ConnInv
  <1> HIDE DEF k
  <1>4. conn' = [conn EXCEPT ![c] = k]
    BY <1>1 DEF k
  <1>5. /\ car' \in [conn: Conns \union {None}, acked: SUBSET (1..Records)]
        /\ car'.conn = car.conn
        /\ car'.acked \ Alerts \subseteq hub.put
    <2>1. CASE conn[c].ip = "home"
      <3>1. r \in 1..Records
        BY <1>0, <2>1 DEF ConnInv, RecordsOf
      <3>2. r \notin Alerts => r \in hub.put
        BY <1>0, <3>1 DEF ConnInv
      <3>3. car' = [car EXCEPT !.acked = car.acked \union {r}]
        BY <1>1, <2>1
      <3>4. car.acked \ Alerts \subseteq hub.put
        BY DEF ListenerInv, AckedIsPut
      <3> QED
        BY <1>0, <3>1, <3>2, <3>3, <3>4
    <2>2. CASE conn[c].ip # "home"
      BY <1>0, <1>1, <2>2 DEF ListenerInv, AckedIsPut
    <2> QED
      BY <2>1, <2>2
  <1>6. TypeOK'
    BY <1>0, <1>2, <1>4, <1>5, OneConn DEF TypeOK
  <1> QED
    BY <1>0, <1>2, <1>3, <1>4, <1>5, <1>6, UseStep DEF ConnInv

\* The link fails: the hub does not know, the car does.
LEMMA LinkStep == ASSUME ListenerInv, NEW c \in Conns, LinkFails(c) PROVE ListenerInv'
  <1>0. /\ TypeOK /\ conn[c] \in Conn /\ Busy(conn[c]) /\ UNCHANGED <<listener, hub>>
        /\ ConnInv(conn[c]) /\ faults < MaxFaults /\ faults' = faults + 1
        /\ car' = IF car.conn = c THEN [car EXCEPT !.conn = None] ELSE car
        /\ car \in [conn: Conns \union {None}, acked: SUBSET (1..Records)]
    BY DEF ListenerInv, LinkFails, TypeOK, Busy
  <1>1. PICK w \in {conn[c].wire, <<>>} :
          conn' = [conn EXCEPT ![c] = [conn[c] EXCEPT !.peer = FALSE, !.wire = w, !.acks = {}]]
    BY DEF LinkFails
  <1> DEFINE k == [conn[c] EXCEPT !.peer = FALSE, !.wire = w, !.acks = {}]
  <1>2. w \in Seq(RecordsOf(conn[c].ip)) /\ w \in Seq(0..Records)
    <2>1. conn[c].wire \in Seq(RecordsOf(conn[c].ip)) /\ conn[c].wire \in Seq(0..Records)
      BY <1>0 DEF ConnInv, Conn
    <2>2. CASE w = <<>>
      BY <2>2
    <2> QED
      BY <2>1, <2>2
  <1>3. /\ k \in Conn /\ k.phase = conn[c].phase /\ k.ip = conn[c].ip
        /\ k.released = conn[c].released /\ k.wire = w /\ k.acks = {}
    BY <1>0, <1>2 DEF Conn
  <1>4. Busy(k)
    BY <1>0, <1>3 DEF Busy
  <1> HIDE DEF k
  <1>5. conn' = [conn EXCEPT ![c] = k]
    BY <1>1 DEF k
  <1>6. /\ car' \in [conn: Conns \union {None}, acked: SUBSET (1..Records)]
        /\ car'.conn \in {car.conn, None} /\ car'.acked = car.acked
    BY <1>0
  <1>7. TypeOK'
    <2>1. faults' \in 0..MaxFaults
      BY <1>0, Constants DEF TypeOK
    <2> QED
      BY <1>0, <1>3, <1>5, <1>6, <2>1, OneConn DEF TypeOK
  <1>8. car'.acked \ Alerts \subseteq hub'.put
    BY <1>0, <1>6 DEF ListenerInv, AckedIsPut
  <1> QED
    BY <1>0, <1>2, <1>3, <1>4, <1>5, <1>6, <1>7, <1>8, UseStep

\* The connection ends, however: its place is given back once, and the cache is told if it
\* was open.
LEMMA EndsStep == ASSUME ListenerInv, NEW c \in Conns, Busy(conn[c]), Ends(c) PROVE ListenerInv'
  <1> DEFINE ended == [conn[c] EXCEPT !.phase = "closed", !.released = TRUE, !.wire = <<>>,
                                      !.acks = {}]
             ip == conn[c].ip
  <1>0. /\ TypeOK /\ conn[c] \in Conn /\ ip \in Ips /\ ConnInv(conn[c])
        /\ hub' = IF conn[c].phase = "open" THEN OnClose(c, hub) ELSE hub
        /\ listener' = Release(listener, conn[c]) /\ ~conn[c].released
        /\ conn' = [conn EXCEPT ![c] = ended] /\ UNCHANGED faults
        /\ car' = IF car.conn = c THEN [car EXCEPT !.conn = None] ELSE car
        /\ car \in [conn: Conns \union {None}, acked: SUBSET (1..Records)]
        /\ hub \in [put: SUBSET (1..Records), untold: BOOLEAN]
    BY DEF ListenerInv, Ends, TypeOK, Conn, ConnInv
  <1>1. /\ ended \in Conn /\ ended.phase = "closed" /\ ended.ip = ip /\ ended.released
        /\ ended.wire = <<>> /\ ended.acks = {} /\ ~Busy(ended)
    <2>1. <<>> \in Seq(0..Records)
      OBVIOUS
    <2> QED
      BY <1>0, <2>1 DEF Conn, Busy
  <1> HIDE DEF ended, ip
  <1>k. PICK k \in Conn : k = ended
    BY <1>1
  <1>2. /\ conn' \in [Conns -> Conn] /\ conn'[c] = k
        /\ \A d \in Conns \ {c} : conn'[d] = conn[d]
    BY <1>0, <1>k, OneConn
  <1>3. /\ listener.active \in Int /\ \A i \in Ips : listener.byIP[i] \in Int
        /\ listener' \in [active: Int, byIP: [Ips -> Int]]
        /\ listener'.active = listener.active - 1
        /\ \A i \in Ips : listener'.byIP[i] = listener.byIP[i] - (IF i = ip THEN 1 ELSE 0)
    BY <1>0 DEF Release, TypeOK, ip
  <1>4. /\ car' \in [conn: Conns \union {None}, acked: SUBSET (1..Records)]
        /\ car'.conn # c /\ car'.conn \in {car.conn, None} /\ car'.acked = car.acked
    BY <1>0, Constants
  <1>5. /\ hub' \in [put: SUBSET (1..Records), untold: BOOLEAN] /\ hub'.put = hub.put
        /\ hub'.untold => hub.untold /\ ~(conn[c].phase = "open" /\ ip = "home")
    BY <1>0 DEF OnClose, ip
  <1>6. TypeOK'
    BY <1>0, <1>2, <1>3, <1>4, <1>5 DEF TypeOK
  <1>7. \A d \in Conns : ConnInv(conn[d])'
    <2>1. k.wire \in Seq(RecordsOf(k.ip)) /\ k.acks \subseteq RecordsOf(k.ip)
      <3>1. k.wire = <<>> /\ k.acks = {}
        BY <1>1, <1>k
      <3> QED
        BY <3>1
    <2>2. ConnInv(k)'
      BY <1>1, <1>k, <2>1 DEF ConnInv, Busy
    <2>3. hub.put \subseteq hub'.put
      BY <1>5
    <2> QED
      BY <1>0, <1>k, <2>2, <2>3, ConnsKept
  <1>8. SlotInv'
    <2>1. \A i \in Ips : Cardinality(Places(i))' =
                         Cardinality(Places(i)) - (IF i = ip THEN 1 ELSE 0)
      BY <1>0, <1>1, <1>k, PlacesLeft DEF ip
    <2>2. \A i \in Ips : listener'.byIP[i] = Cardinality(Places(i))'
      BY <1>3, <2>1 DEF ListenerInv, SlotInv
    <2>3. ASSUME NEW i \in Ips, PerIP > 0 PROVE listener'.byIP[i] <= PerIP
      <3>1. PerIP \in Nat /\ listener.byIP[i] \in Int /\ listener.byIP[i] <= PerIP
        BY <1>3, <2>3, Constants DEF ListenerInv, SlotInv
      <3>2. listener'.byIP[i] \in {listener.byIP[i], listener.byIP[i] - 1}
        BY <1>3
      <3> QED
        BY <3>1, <3>2
    <2> DEFINE h == listener.byIP["home"]
               a == listener.byIP["away"]
    <2>4. h \in Int /\ a \in Int /\ listener.active = h + a /\ listener.active <= MaxConns
      BY <1>3 DEF ListenerInv, SlotInv, Ips
    <2>5. listener'.active <= MaxConns
      BY <1>3, <2>4, Constants
    <2>6. listener'.active = listener'.byIP["home"] + listener'.byIP["away"]
      <3>1. CASE ip = "home"
        <4>1. listener'.byIP["home"] = h - 1 /\ listener'.byIP["away"] = a
          BY <1>3, <2>4, <3>1 DEF Ips
        <4> QED
          BY <1>3, <2>4, <4>1
      <3>2. CASE ip = "away"
        <4>1. listener'.byIP["home"] = h /\ listener'.byIP["away"] = a - 1
          BY <1>3, <2>4, <3>2 DEF Ips
        <4> QED
          BY <1>3, <2>4, <4>1
      <3> QED
        BY <1>0, <3>1, <3>2 DEF Ips
    <2> QED
      BY <2>2, <2>3, <2>5, <2>6 DEF SlotInv
  <1>9. CarInv'
    BY <1>2, <1>4, Constants DEF ListenerInv, CarInv
  <1>10. HeardInv'
    <2> SUFFICES ASSUME hub'.untold
                 PROVE  \E d \in Conns : conn'[d].phase = "open" /\ conn'[d].ip = "home"
      BY DEF HeardInv
    <2>1. PICK d \in Conns : conn[d].phase = "open" /\ conn[d].ip = "home"
      BY <1>5 DEF ListenerInv, HeardInv
    <2>2. d # c
      BY <1>5, <2>1 DEF ip
    <2> QED
      BY <1>2, <2>1, <2>2
  <1> QED
    BY <1>4, <1>5, <1>6, <1>7, <1>8, <1>9, <1>10 DEF ListenerInv, AckedIsPut

\* A second Close gives nothing back.
LEMMA CloseAgainStep == ASSUME ListenerInv, NEW c \in Conns, CloseAgain(c) PROVE ListenerInv'
  <1>0. /\ TypeOK /\ conn[c].phase = "closed" /\ ConnInv(conn[c])
        /\ listener' = Release(listener, conn[c]) /\ conn' = [conn EXCEPT ![c] = Free]
        /\ UNCHANGED <<car, hub, faults>>
    BY DEF ListenerInv, CloseAgain
  <1>1. listener' = listener
    BY <1>0 DEF ConnInv, Busy, Release
  <1>2. /\ conn' \in [Conns -> Conn] /\ conn'[c] = Free
        /\ \A d \in Conns \ {c} : conn'[d] = conn[d]
    BY <1>0, Constants, OneConn
  <1>3. ~Busy(Free) /\ ~Busy(conn[c])
    BY <1>0, Constants DEF Busy
  <1>4. \A ip \in Ips : Places(ip)' = Places(ip)
    BY <1>0, <1>3, Constants, PlacesKept
  <1>5. TypeOK'
    BY <1>0, <1>1, <1>2 DEF TypeOK
  <1>6. \A d \in Conns : ConnInv(conn[d])'
    <2>1. ConnInv(Free)'
      <3>1. Free.wire \in Seq(RecordsOf(Free.ip)) /\ Free.acks \subseteq RecordsOf(Free.ip)
        BY DEF Free
      <3> QED
        BY <3>1 DEF ConnInv, Busy, Free
    <2> QED
      BY <1>0, <2>1, Constants, ConnsKept
  <1>7. SlotInv'
    BY <1>1, <1>4 DEF ListenerInv, SlotInv
  <1>8. CarInv'
    BY <1>0, <1>2, <1>3 DEF ListenerInv, CarInv
  <1>9. HeardInv'
    <2> SUFFICES ASSUME hub.untold
                 PROVE  \E d \in Conns : conn'[d].phase = "open" /\ conn'[d].ip = "home"
      BY <1>0 DEF HeardInv
    <2>1. PICK d \in Conns : conn[d].phase = "open" /\ conn[d].ip = "home"
      BY DEF ListenerInv, HeardInv
    <2> QED
      BY <1>0, <1>2, <2>1
  <1> QED
    BY <1>0, <1>5, <1>6, <1>7, <1>8, <1>9 DEF ListenerInv, AckedIsPut

\* Every step keeps the invariant.
LEMMA ListenerStep == ListenerInv /\ [Next]_vars => ListenerInv'
  <1> SUFFICES ASSUME ListenerInv, [Next]_vars PROVE ListenerInv'
    OBVIOUS
  <1>1. ASSUME NEW c \in Conns, Idle(c) \/ PeerCloses(c) \/ KeepaliveFails(c)
        PROVE  ListenerInv'
    <2>1. Busy(conn[c]) /\ Ends(c)
      BY <1>1 DEF Idle, PeerCloses, KeepaliveFails, Busy
    <2> QED
      BY <2>1, EndsStep
  <1>2. ASSUME NEW c \in Conns, Dial(c) \/ DialOther(c) PROVE ListenerInv'
    BY <1>2, AcceptStep DEF Dial, DialOther, Ips
  <1>3. ASSUME NEW c \in Conns, Served(c) \/ Driven(c) PROVE ListenerInv'
    BY <1>1, <1>2, <1>3, HandleStep, MessageStep, CloseAgainStep, SendStep, AckStep
       DEF Served, Driven
  <1>4. CASE UNCHANGED vars
    <2>1. TypeOK' /\ CarInv' /\ AckedIsPut' /\ HeardInv'
      BY <1>4 DEF vars, ListenerInv, TypeOK, CarInv, AckedIsPut, HeardInv
    <2>2. \A c \in Conns : ConnInv(conn[c])'
      BY <1>4 DEF vars, ListenerInv, ConnInv
    <2>3. SlotInv'
      BY <1>4 DEF vars, ListenerInv, SlotInv, Places
    <2> QED
      BY <2>1, <2>2, <2>3 DEF ListenerInv
  <1>5. CASE Next
    BY <1>1, <1>2, <1>3, <1>5, SendStep, UndecodableStep, LinkStep DEF Next
  <1> QED
    BY <1>4, <1>5

-----------------------------------------------------------------------------
(* Theorems.                                                                *)

\* The invariant holds.
LEMMA ListenerInvariant == Spec => []ListenerInv
  BY ListenerInit, ListenerStep, PTL DEF Spec

\* The listener, its connections and the car keep their types.
THEOREM ListenerTyped == Spec => []TypeOK
  BY ListenerInvariant, PTL DEF ListenerInv

\* reserve and release: active and byIP are the numbers of the connections there are, and
\* within the caps, although a connection is closed by several parties.
THEOREM CapsHold == Spec => []SlotsAccounted
  <1>1. ListenerInv => SlotsAccounted
    <2> SUFFICES ASSUME ListenerInv PROVE SlotsAccounted
      OBVIOUS
    <2>1. \A ip \in Ips : Places(ip) =
              {c \in Conns : conn[c].phase \notin {"free", "closed"} /\ conn[c].ip = ip}
      BY DEF Places, Busy
    <2> QED
      BY <2>1 DEF SlotsAccounted, ListenerInv, SlotInv, Ips
  <1> QED
    BY <1>1, ListenerInvariant, PTL

\* OnClose: when no connection of the car is left the cache has been told of a disconnect
\* after the last frame.
THEOREM DisconnectTold == Spec => []SilenceReported
  <1>1. ListenerInv => SilenceReported
    BY DEF ListenerInv, HeardInv, SilenceReported
  <1> QED
    BY <1>1, ListenerInvariant, PTL

\* OnMessage acknowledges what it has put: no record with data is acknowledged to the car
\* and missing in the cache, whichever connection carried it.
THEOREM AckMeansPut == Spec => []AckedIsPut
  BY ListenerInvariant, PTL DEF ListenerInv
=============================================================================
