---------------------------- MODULE UpstreamProofs ---------------------------
(***************************************************************************)
(* Proofs about Upstream, for every set of routers and every bound.        *)
(***************************************************************************)
EXTENDS Upstream, FiniteSetTheorems, TLAPS

RouteType == [pc : {"idle", "deliver"} \cup Dialling, kind : Kinds,
              sess : 0..MaxConns, addr : Nat, hit : BOOLEAN]

\* What the routers, the table and the cache hold; the pumps play no part in
\* the theorems below.
RouteOK ==
    /\ route \in [Routers -> RouteType]
    /\ table \in 0..MaxConns
    /\ cache \in Nat
    /\ resolved \in Nat
    /\ overlap \in BOOLEAN

\* As long as no two dials have overlapped at most one router dials, the table
\* is empty while it does, and nothing has been displaced.
OneDial ==
    ~overlap =>
        /\ displaced = {}
        /\ \A r \in Routers : route[r].pc \in Dialling => table = 0
        /\ \A r, q \in Routers :
               route[r].pc \in Dialling /\ route[q].pc \in Dialling => r = q

\* An address in use comes from a look-up that has happened; one served from
\* the cache is an address.  So a later look-up is never condemned.
AddressesKnown ==
    /\ cache <= resolved
    /\ \A a \in condemned : a \in Nat /\ 1 <= a /\ a <= resolved
    /\ \A r \in Routers : route[r].addr <= resolved /\ (route[r].hit => 1 <= route[r].addr)

Inv == RouteOK /\ OneDial /\ AddressesKnown /\ FailedAddressGone

\* The constants are natural numbers.
LEMMA Bounds == MaxConns \in Nat /\ MaxFrames \in Nat /\ MaxResolved \in Nat
  BY BoundsAssumption

\* An idle router.
LEMMA IdleType == Idle \in RouteType /\ Idle.pc = "idle" /\ Idle.addr = 0 /\ Idle.hit = FALSE
  BY Bounds DEF Idle, RouteType, Kinds, Dialling

\* A step that moves one router to c leaves the others where they are.
LEMMA OneRouterMoves ==
    ASSUME Inv, NEW r \in Routers, NEW c \in RouteType,
           route' = [route EXCEPT ![r] = c]
    PROVE  /\ route' \in [Routers -> RouteType]
           /\ route'[r] = c
           /\ \A q \in Routers \ {r} : route'[q] = route[q]
  BY DEF Inv, RouteOK

\* The initial state.
LEMMA InitInv == Init => Inv
  <1> SUFFICES ASSUME Init PROVE Inv
    OBVIOUS
  <1> USE DEF Init
  <1>1. RouteOK
    <2>1. route \in [Routers -> RouteType]
      BY IdleType
    <2> QED
      BY <2>1, Bounds, overlap \in BOOLEAN DEF RouteOK
  <1>2. \A r \in Routers : route[r].pc = "idle" /\ route[r].addr = 0 /\ route[r].hit = FALSE
    BY IdleType
  <1>3. OneDial
    BY <1>2 DEF OneDial, Dialling
  <1>4. AddressesKnown /\ FailedAddressGone
    BY <1>2 DEF AddressesKnown, FailedAddressGone
  <1> QED
    BY <1>1, <1>3, <1>4 DEF Inv

\* A router that does not start to dial, while nothing but it changes.
LEMMA QuietMove ==
    ASSUME Inv, NEW r \in Routers, NEW c \in RouteType,
           route' = [route EXCEPT ![r] = c],
           c.addr = 0 \/ c.addr = route[r].addr, c.hit => route[r].hit /\ c.addr = route[r].addr,
           c.pc \in Dialling => route[r].pc \in Dialling,
           table' = table, overlap' = overlap, displaced' = displaced,
           resolved' = resolved, condemned' = condemned, cache' \in {0, cache}
    PROVE  Inv'
  <1>1. /\ route' \in [Routers -> RouteType]
        /\ route'[r] = c
        /\ \A q \in Routers \ {r} : route'[q] = route[q]
    BY OneRouterMoves
  <1>2. RouteOK'
    BY <1>1 DEF Inv, RouteOK
  <1>3. OneDial'
    BY <1>1 DEF Inv, RouteOK, OneDial
  <1>4. route[r].addr \in Nat
    BY DEF Inv, RouteOK, RouteType
  <1>5. AddressesKnown'
    BY <1>1, <1>4 DEF Inv, RouteOK, AddressesKnown
  <1>6. FailedAddressGone'
    BY DEF Inv, AddressesKnown, FailedAddressGone
  <1> QED
    BY <1>2, <1>3, <1>5, <1>6 DEF Inv

\* A step of a pump, of a poll or of a collector.
LEMMA NoMove ==
    ASSUME Inv, UNCHANGED <<route, cache, resolved, condemned, displaced, overlap>>,
           table' \in {0, table}
    PROVE  Inv'
  <1>1. RouteOK' /\ OneDial'
    BY Bounds DEF Inv, RouteOK, OneDial
  <1>2. AddressesKnown' /\ FailedAddressGone'
    BY DEF Inv, AddressesKnown, FailedAddressGone
  <1> QED
    BY <1>1, <1>2 DEF Inv

\* A SYN is let through: whoever dials already makes it an overlap.
LEMMA RouteSynInv ==
    ASSUME Inv, NEW r \in Routers, RouteSyn(r)
    PROVE  Inv'
  <1> DEFINE c == [Idle EXCEPT !.pc = "lookup", !.kind = "syn"]
  <1>0. c \in RouteType /\ c.pc = "lookup" /\ c.hit = FALSE /\ c.addr = 0
    <2>1. Idle \in RouteType /\ Idle.hit = FALSE /\ Idle.addr = 0
      BY IdleType
    <2> QED
      BY <2>1 DEF RouteType, Kinds, Dialling
  <1>1. /\ route' \in [Routers -> RouteType]
        /\ route'[r] = c
        /\ \A q \in Routers \ {r} : route'[q] = route[q]
    BY <1>0, OneRouterMoves DEF RouteSyn
  <1> HIDE DEF c
  <1>2. RouteOK'
    BY <1>1 DEF Inv, RouteOK, RouteSyn
  <1>3. OneDial'
    <2> SUFFICES ASSUME ~overlap'
                 PROVE  /\ displaced' = {} /\ table' = 0
                        /\ \A q \in Routers \ {r} : route'[q].pc \notin Dialling
      BY DEF OneDial
    <2>1. ~overlap /\ \A q \in Routers : route[q].pc \notin Dialling
      BY DEF RouteSyn
    <2> QED
      BY <2>1, <1>1 DEF Inv, OneDial, RouteSyn, SeesNoEntry
  <1>4. AddressesKnown'
    <2>1. \A q \in Routers : route'[q].addr <= resolved /\ (route'[q].hit => 1 <= route'[q].addr)
      BY <1>0, <1>1 DEF Inv, RouteOK, AddressesKnown
    <2> QED
      BY <2>1 DEF Inv, AddressesKnown, RouteSyn
  <1>5. FailedAddressGone'
    BY DEF Inv, FailedAddressGone, RouteSyn
  <1> QED
    BY <1>2, <1>3, <1>4, <1>5 DEF Inv

\* The address a router takes from the cache comes from a look-up.
LEMMA CacheHitInv ==
    ASSUME Inv, NEW r \in Routers, CacheHit(r)
    PROVE  Inv'
  <1> DEFINE c == [route[r] EXCEPT !.pc = "connect", !.addr = cache, !.hit = TRUE]
  <1>0. c \in RouteType /\ c.pc = "connect" /\ c.hit = TRUE /\ c.addr = cache
    BY DEF Inv, RouteOK, RouteType, Dialling
  <1>a. route' = [route EXCEPT ![r] = c]
    BY DEF CacheHit
  <1>1. /\ route' \in [Routers -> RouteType]
        /\ route'[r] = c
        /\ \A q \in Routers \ {r} : route'[q] = route[q]
    BY <1>0, <1>a, OneRouterMoves
  <1> HIDE DEF c
  <1>2. RouteOK'
    BY <1>1 DEF Inv, RouteOK, CacheHit
  <1>3. OneDial'
    BY <1>1 DEF Inv, OneDial, CacheHit, Dialling
  <1>4. AddressesKnown' /\ FailedAddressGone'
    BY <1>0, <1>1 DEF Inv, RouteOK, AddressesKnown, FailedAddressGone, CacheHit
  <1> QED
    BY <1>2, <1>3, <1>4 DEF Inv

\* A fresh look-up is newer than every condemned one.
LEMMA ResolvedInv ==
    ASSUME Inv, NEW r \in Routers, Resolved(r)
    PROVE  Inv'
  <1> DEFINE c == [route[r] EXCEPT !.pc = "connect", !.addr = resolved + 1]
  <1>0. c \in RouteType /\ c.pc = "connect" /\ c.hit = route[r].hit /\ c.addr = resolved + 1
    <2>1. resolved + 1 \in Nat /\ route[r] \in RouteType
      BY DEF Inv, RouteOK
    <2> QED
      BY <2>1 DEF RouteType, Dialling
  <1>a. route' = [route EXCEPT ![r] = c]
    BY DEF Resolved
  <1>1. /\ route' \in [Routers -> RouteType]
        /\ route'[r] = c
        /\ \A q \in Routers \ {r} : route'[q] = route[q]
    BY <1>0, <1>a, OneRouterMoves
  <1> HIDE DEF c
  <1>2. RouteOK'
    BY <1>1 DEF Inv, RouteOK, Resolved
  <1>3. OneDial'
    BY <1>1 DEF Inv, OneDial, Resolved, Dialling
  <1>4. \A q \in Routers : route[q].addr \in Nat
    BY DEF Inv, RouteOK, RouteType
  <1>5. AddressesKnown'
    BY <1>0, <1>1, <1>4 DEF Inv, RouteOK, AddressesKnown, Resolved
  <1>6. FailedAddressGone'
    BY DEF Inv, RouteOK, AddressesKnown, FailedAddressGone, Resolved
  <1> QED
    BY <1>2, <1>3, <1>5, <1>6 DEF Inv

\* The address that is condemned leaves the cache in the same step.
LEMMA DialFailsInv ==
    ASSUME Inv, NEW r \in Routers, DialFails(r)
    PROVE  Inv'
  <1>1. /\ route' \in [Routers -> RouteType]
        /\ route'[r] = Idle
        /\ \A q \in Routers \ {r} : route'[q] = route[q]
    BY IdleType, OneRouterMoves DEF DialFails
  <1>2. RouteOK'
    BY <1>1 DEF Inv, RouteOK, DialFails, Evicted
  <1>3. OneDial'
    BY <1>1, IdleType DEF Inv, OneDial, DialFails, Dialling
  <1>4. route[r].addr \in Nat
    BY DEF Inv, RouteOK, RouteType
  <1>5. AddressesKnown' /\ FailedAddressGone'
    BY <1>1, <1>4, IdleType DEF Inv, RouteOK, AddressesKnown, FailedAddressGone, DialFails, Evicted
  <1> QED
    BY <1>2, <1>3, <1>5 DEF Inv

\* The only dialling router registers its session in an empty table.
LEMMA OpenSessionInv ==
    ASSUME Inv, NEW r \in Routers, OpenSession(r)
    PROVE  Inv'
  <1> DEFINE c == [Idle EXCEPT !.pc = "deliver", !.kind = "syn", !.sess = NextConn]
  <1>t. NextConn \in 0..MaxConns
    BY Bounds DEF OpenSession, Conns
  <1>0. c \in RouteType /\ c.pc = "deliver" /\ c.hit = FALSE /\ c.addr = 0
    <2>1. Idle \in RouteType /\ Idle.hit = FALSE /\ Idle.addr = 0
      BY IdleType
    <2> QED
      BY <1>t, <2>1 DEF RouteType, Kinds
  <1>a. route' = [route EXCEPT ![r] = c]
    BY DEF OpenSession
  <1>1. /\ route' \in [Routers -> RouteType]
        /\ route'[r] = c
        /\ \A q \in Routers \ {r} : route'[q] = route[q]
    BY <1>0, <1>a, OneRouterMoves
  <1> HIDE DEF c
  <1>2. RouteOK'
    BY <1>1, <1>t DEF Inv, RouteOK, OpenSession
  <1>3. OneDial'
    <2> SUFFICES ASSUME ~overlap' PROVE OneDial'
      BY DEF OneDial
    <2>1. /\ displaced = {} /\ table = 0
          /\ \A q \in Routers \ {r} : route[q].pc \notin Dialling
      BY DEF Inv, OneDial, OpenSession, Dialling
    <2>2. displaced' = {}
      BY <2>1 DEF OpenSession
    <2>3. \A q \in Routers : route'[q].pc \notin Dialling
      BY <1>0, <1>1, <2>1 DEF Dialling
    <2> QED
      BY <2>2, <2>3 DEF OneDial
  <1>4. AddressesKnown'
    <2>1. \A q \in Routers : route'[q].addr <= resolved /\ (route'[q].hit => 1 <= route'[q].addr)
      BY <1>0, <1>1 DEF Inv, RouteOK, AddressesKnown
    <2> QED
      BY <2>1 DEF Inv, AddressesKnown, OpenSession
  <1>5. FailedAddressGone'
    BY DEF Inv, FailedAddressGone, OpenSession
  <1> QED
    BY <1>2, <1>3, <1>4, <1>5 DEF Inv

\* The remaining steps of a router.
LEMMA QuietRouterInv ==
    ASSUME Inv, NEW r \in Routers,
           \/ \E k \in Kinds : RouteKnown(r, k) \/ RouteRST(r, k)
           \/ CacheMiss(r) \/ Unresolved(r) \/ Deliver(r) \/ DeliverTimesOut(r)
    PROVE  Inv'
  <1>0. route[r] \in RouteType /\ table \in 0..MaxConns
    BY DEF Inv, RouteOK
  <1>1. ASSUME NEW k \in Kinds, RouteKnown(r, k) PROVE Inv'
    <2> DEFINE c == [Idle EXCEPT !.pc = "deliver", !.kind = k, !.sess = table]
    <2>1. c \in RouteType /\ c.pc = "deliver" /\ c.hit = FALSE /\ c.addr = 0
      BY <1>0, Bounds DEF Idle, RouteType, Kinds, Dialling
    <2>2. route' = [route EXCEPT ![r] = c]
      BY <1>1 DEF RouteKnown
    <2> HIDE DEF c
    <2> QED
      BY <1>1, <2>1, <2>2, QuietMove DEF RouteKnown, Dialling
  <1>2. ASSUME NEW k \in Kinds, RouteRST(r, k) PROVE Inv'
    BY <1>2, NoMove DEF RouteRST
  <1>3. CASE CacheMiss(r)
    <2> DEFINE c == [route[r] EXCEPT !.pc = "resolve"]
    <2>1. c \in RouteType /\ c.pc = "resolve" /\ c.hit = route[r].hit /\ c.addr = route[r].addr
      BY <1>0 DEF RouteType, Dialling
    <2>2. route' = [route EXCEPT ![r] = c]
      BY <1>3 DEF CacheMiss
    <2> HIDE DEF c
    <2> QED
      BY <1>3, <2>1, <2>2, QuietMove DEF CacheMiss, Dialling
  <1>4. CASE Unresolved(r)
    <2> DEFINE c == [route[r] EXCEPT !.pc = "connect"]
    <2>1. c \in RouteType /\ c.pc = "connect" /\ c.hit = route[r].hit /\ c.addr = route[r].addr
      BY <1>0 DEF RouteType, Dialling
    <2>2. route' = [route EXCEPT ![r] = c]
      BY <1>4 DEF Unresolved
    <2> HIDE DEF c
    <2> QED
      BY <1>4, <2>1, <2>2, QuietMove DEF Unresolved, Dialling
  <1>5. CASE Deliver(r) \/ DeliverTimesOut(r)
    BY <1>5, IdleType, QuietMove DEF Deliver, DeliverTimesOut, Dialling
  <1> QED
    BY <1>1, <1>2, <1>3, <1>4, <1>5

\* Every step.
LEMMA NextInv == Inv /\ [Next]_vars => Inv'
  <1> SUFFICES ASSUME Inv, [Next]_vars PROVE Inv'
    OBVIOUS
  <1>1. ASSUME NEW r \in Routers,
               (\E k \in Kinds : RouteKnown(r, k) \/ RouteRST(r, k)) \/ RouteSyn(r) \/ RouterStep(r)
        PROVE  Inv'
    BY <1>1, RouteSynInv, CacheHitInv, ResolvedInv, DialFailsInv, OpenSessionInv, QuietRouterInv
       DEF RouterStep
  <1>2. ASSUME NEW k \in Conns, PumpStep(k) PROVE Inv'
    <2>1. UNCHANGED <<route, cache, resolved, condemned, displaced, overlap>> /\ table' = table
      BY <1>2 DEF PumpStep, ReadData, ReadEnds, WriteDone, WriteFails, WriterExit, SetConn
    <2> QED
      BY <2>1, NoMove
  <1>3. CASE Drain \/ GcDone \/ GcIdle \/ GrowIdle
    BY <1>3, NoMove DEF Drain, GcDone, GcIdle, GrowIdle
  <1>4. CASE UNCHANGED vars
    BY <1>4, NoMove DEF vars
  <1> QED
    BY <1>1, <1>2, <1>3, <1>4 DEF Next

\* With any number of routers, connections and repeated frames, a registered
\* session is overwritten only if two of its SYNs were dialled at the same time
\* (routeIncoming's look-up and openSession's registration are two sections).
THEOREM OnlyRacesDisplace == Spec => []DisplacedOnlyByOverlap
  <1>1. Inv => DisplacedOnlyByOverlap
    BY DEF Inv, RouteOK, OneDial, DisplacedOnlyByOverlap
  <1> QED
    BY <1>1, InitInv, NextInv, PTL DEF Spec

\* With any number of routers and look-ups, an address that failed when
\* dialWithDNSCache took it from the cache is never in the cache again.
THEOREM CondemnedStaysOut == Spec => []FailedAddressGone
  <1>1. Inv => FailedAddressGone
    BY DEF Inv
  <1> QED
    BY <1>1, InitInv, NextInv, PTL DEF Spec

-----------------------------------------------------------------------------
(* The connections. *)

ConnType == [reader : {"none", "read", "parked", "done"},
             writer : {"none", "run", "done"},
             open : BOOLEAN, rx : {"open", "closed"},
             chan : 0..RxCap, buf : 0..HighWater + 1, finSent : BOOLEAN]

\* What is left of TypeOK beside Inv, but for conn.
CountsOK ==
    /\ fresh \in BOOLEAN /\ dialFail \in BOOLEAN
    /\ frames \in 0..MaxFrames /\ resolved <= MaxResolved
    /\ displaced \subseteq Conns

\* A frame is delivered to a connection, and the table holds one.
SessionsMade ==
    /\ table # 0 => table \in Conns /\ Made(table)
    /\ \A r \in Routers : route[r].pc = "deliver" => route[r].sess \in Conns /\ Made(route[r].sess)

\* The connections are used in their order.
MadeInOrder == \E n \in 0..MaxConns : {k \in Conns : Made(k)} = 1..n

\* The FIN is sent when the read pump has ended, which closes the connection.
FinIsLast ==
    \A k \in Conns : /\ conn[k].finSent => CloseReq(k)
                     /\ CloseReq(k) => ~conn[k].open

\* The pumps of a connection are started together.
WritersMade == \A k \in Conns : conn[k].writer = "run" => Made(k)

\* A session that has left the table, unless another took its place there, has
\* a closed connection and a closed RxChan: its pumps have no way but out.
LeftIsClosed ==
    \A k \in Conns : Made(k) /\ table # k =>
        k \in displaced \/ (~conn[k].open /\ conn[k].rx = "closed")

ConnInv == /\ conn \in [Conns -> ConnType]
           /\ CountsOK /\ SessionsMade /\ WritersMade /\ MadeInOrder /\ FinIsLast /\ LeftIsClosed

\* A step of one connection: it is not unmade, nor opened again.
LEMMA OneConnMoves ==
    ASSUME ConnInv, NEW k \in Conns, NEW c \in ConnType,
           conn' = [conn EXCEPT ![k] = c],
           Made(k), c.reader # "none",
           c.finSent => c.reader = "done", c.reader = "done" => ~c.open,
           ~conn[k].open => ~c.open, conn[k].rx = "closed" => c.rx = "closed",
           \/ table' = table
           \/ table' = 0 /\ table = k /\ ~c.open /\ c.rx = "closed",
           displaced' = displaced,
           \A r \in Routers : route'[r].pc = "deliver" =>
               \/ route'[r].sess \in Conns /\ Made(route'[r].sess)
               \/ route'[r] = route[r],
           CountsOK'
    PROVE  ConnInv'
  <1>1. /\ conn' \in [Conns -> ConnType]
        /\ conn'[k] = c
        /\ \A j \in Conns \ {k} : conn'[j] = conn[j]
    BY DEF ConnInv
  <1>2. \A j \in Conns : Made(j)' <=> Made(j)
    BY <1>1 DEF Made
  <1>3. SessionsMade'
    <2>1. table' # 0 => table' \in Conns /\ Made(table')
      BY DEF ConnInv, SessionsMade
    <2>2. table' # 0 => table' \in Conns /\ Made(table)'
      BY <1>2, <2>1 DEF Made
    <2>3. \A r \in Routers : route'[r].pc = "deliver" =>
            route'[r].sess \in Conns /\ conn[route'[r].sess].reader # "none"
      BY DEF ConnInv, SessionsMade, Made
    <2>4. \A r \in Routers : route'[r].pc = "deliver" =>
            route'[r].sess \in Conns /\ conn'[route'[r].sess].reader # "none"
      BY <1>2, <2>3 DEF Made
    <2> QED
      BY <2>2, <2>4 DEF SessionsMade, Made
  <1>0. WritersMade'
    BY <1>1, <1>2 DEF ConnInv, WritersMade
  <1>4. MadeInOrder'
    <2>1. {j \in Conns : Made(j)}' = {j \in Conns : Made(j)}
      BY <1>2
    <2> QED
      BY <2>1 DEF ConnInv, MadeInOrder
  <1>5. FinIsLast'
    <2>1. ASSUME NEW j \in Conns
          PROVE  /\ conn'[j].finSent => conn'[j].reader = "done"
                 /\ conn'[j].reader = "done" => ~conn'[j].open
      BY <1>1 DEF ConnInv, FinIsLast, CloseReq
    <2> QED
      BY <2>1 DEF FinIsLast, CloseReq
  <1>6. LeftIsClosed'
    <2>1. ASSUME NEW j \in Conns, Made(j), table' # j, j \notin displaced
          PROVE  ~conn'[j].open /\ conn'[j].rx = "closed"
      <3>1. CASE j # k
        <4>1. table # j
          BY <2>1, <3>1
        <4> QED
          BY <1>1, <2>1, <3>1, <4>1 DEF ConnInv, LeftIsClosed
      <3>2. CASE j = k /\ table # k
        BY <1>1, <2>1, <3>2 DEF ConnInv, LeftIsClosed
      <3>3. CASE j = k /\ table = k
        BY <1>1, <2>1, <3>3
      <3> QED
        BY <3>1, <3>2, <3>3
    <2> QED
      BY <1>2, <2>1 DEF LeftIsClosed
  <1> QED
    BY <1>0, <1>1, <1>3, <1>4, <1>5, <1>6 DEF ConnInv

\* A step that leaves the connections alone.
LEMMA NoConnMoves ==
    ASSUME ConnInv, conn' = conn, table' = table, displaced' = displaced,
           \A r \in Routers : route'[r].pc = "deliver" =>
               route'[r] = route[r] \/ (route'[r].sess = table /\ table # 0),
           CountsOK'
    PROVE  ConnInv'
  <1>1. SessionsMade'
    <2>1. table # 0 => table \in Conns /\ Made(table)
      BY DEF ConnInv, SessionsMade
    <2>2. \A r \in Routers : route'[r].pc = "deliver" =>
            route'[r].sess \in Conns /\ conn[route'[r].sess].reader # "none"
      BY <2>1 DEF ConnInv, SessionsMade, Made
    <2> QED
      BY <2>1, <2>2 DEF SessionsMade, Made
  <1>2. WritersMade' /\ MadeInOrder' /\ FinIsLast' /\ LeftIsClosed'
    BY DEF ConnInv, WritersMade, MadeInOrder, FinIsLast, LeftIsClosed, Made, CloseReq
  <1> QED
    BY <1>1, <1>2 DEF ConnInv

\* A connection that is registered is a new one.
LEMMA NextConnIsNew ==
    ASSUME ConnInv, NextConn \in Conns
    PROVE  ~Made(NextConn) /\ {k \in Conns : Made(k)} \cup {NextConn} = 1..NextConn
  <1>1. PICK n \in 0..MaxConns : {k \in Conns : Made(k)} = 1..n
    BY DEF ConnInv, MadeInOrder
  <1>2. n \in Nat
    BY Bounds
  <1>3. Cardinality(1..n) = n
    BY <1>2, FS_Interval
  <1>4. NextConn = n + 1
    BY <1>1, <1>3 DEF NextConn
  <1>5. n + 1 \notin 1..n /\ 1..n \cup {n + 1} = 1..n + 1
    BY <1>2
  <1> QED
    BY <1>1, <1>4, <1>5

\* openSession.
LEMMA OpenSessionConns ==
    ASSUME Inv, ConnInv, NEW r \in Routers, OpenSession(r)
    PROVE  ConnInv'
  <1> DEFINE k == NextConn
             c == [conn[k] EXCEPT !.reader = "read", !.writer = "run", !.open = TRUE]
  <1>1. k \in Conns /\ ~Made(k) /\ {j \in Conns : Made(j)} \cup {k} = 1..k
    BY NextConnIsNew DEF OpenSession
  <1>2. conn' = [conn EXCEPT ![k] = c] /\ table' = k /\ displaced' = displaced \cup ({table} \ {0})
    BY DEF OpenSession
  <1>3. route' = [route EXCEPT ![r] = [Idle EXCEPT !.pc = "deliver", !.kind = "syn", !.sess = k]]
    BY DEF OpenSession
  <1>4. CountsOK'
    BY DEF OpenSession, ConnInv, CountsOK, SessionsMade
  <1> HIDE DEF k
  <1>5. c \in ConnType /\ c.reader = "read" /\ c.finSent = conn[k].finSent
    <2>1. conn[k] \in ConnType
      BY <1>1 DEF ConnInv
    <2> QED
      BY <2>1 DEF ConnType
  <1> HIDE DEF c
  <1>6. /\ conn' \in [Conns -> ConnType]
        /\ conn'[k] = c
        /\ \A j \in Conns \ {k} : conn'[j] = conn[j]
    BY <1>1, <1>2, <1>5 DEF ConnInv
  <1>7. \A j \in Conns : Made(j)' <=> Made(j) \/ j = k
    BY <1>5, <1>6 DEF Made
  <1>8. SessionsMade'
    <2>1. \A q \in Routers \ {r} : route'[q] = route[q]
      BY <1>3 DEF Inv, RouteOK
    <2>2. route'[r].sess = k
      BY <1>3 DEF Inv, RouteOK, Idle
    <2>3. \A q \in Routers : route'[q].pc = "deliver" =>
            route'[q].sess \in Conns /\ conn'[route'[q].sess].reader # "none"
      BY <1>1, <1>7, <2>1, <2>2 DEF ConnInv, SessionsMade, Made
    <2> QED
      BY <1>1, <1>2, <1>7, <2>3 DEF SessionsMade, Made
  <1>0. WritersMade'
    BY <1>6, <1>7 DEF ConnInv, WritersMade
  <1>9. MadeInOrder'
    <2>1. {j \in Conns : Made(j)}' = 1..k
      BY <1>1, <1>7
    <2>2. k \in 0..MaxConns
      BY <1>1, Bounds DEF Conns
    <2> QED
      BY <2>1, <2>2 DEF MadeInOrder
  <1>10. FinIsLast'
    <2>1. ~conn[k].finSent
      BY <1>1 DEF ConnInv, FinIsLast, CloseReq, Made
    <2>2. ASSUME NEW j \in Conns
          PROVE  /\ conn'[j].finSent => conn'[j].reader = "done"
                 /\ conn'[j].reader = "done" => ~conn'[j].open
      BY <1>5, <1>6, <2>1 DEF ConnInv, FinIsLast, CloseReq
    <2> QED
      BY <2>2 DEF FinIsLast, CloseReq
  <1>11. LeftIsClosed'
    <2>1. ASSUME NEW j \in Conns, Made(j), j # k, j \notin displaced'
          PROVE  ~conn'[j].open /\ conn'[j].rx = "closed"
      <3>1. j \notin displaced /\ table # j
        BY <1>2, <2>1, Bounds DEF Conns
      <3> QED
        BY <1>6, <2>1, <3>1 DEF ConnInv, LeftIsClosed
    <2> QED
      BY <1>2, <1>7, <2>1 DEF LeftIsClosed
  <1> QED
    BY <1>0, <1>4, <1>6, <1>8, <1>9, <1>10, <1>11 DEF ConnInv

\* ProcessRx.
LEMMA DeliverConns ==
    ASSUME Inv, ConnInv, NEW r \in Routers, Deliver(r) \/ DeliverTimesOut(r)
    PROVE  ConnInv'
  <1> DEFINE k == route[r].sess
             c == conn[k]
  <1>1. k \in Conns /\ Made(k)
    BY DEF Deliver, DeliverTimesOut, ConnInv, SessionsMade
  <1>2. c \in ConnType
    BY <1>1 DEF ConnInv
  <1>3. CountsOK'
    BY DEF Deliver, DeliverTimesOut, ConnInv, CountsOK
  <1>4. \A q \in Routers : route'[q].pc = "deliver" => route'[q] = route[q]
    BY DEF Deliver, DeliverTimesOut, Inv, RouteOK, Idle
  <1>5. table' = table /\ displaced' = displaced
    BY DEF Deliver, DeliverTimesOut
  <1>6. \E e \in {c, [c EXCEPT !.chan = @ + 1], Stopped(c)} :
          /\ conn' = [conn EXCEPT ![k] = e]
          /\ e = [c EXCEPT !.chan = @ + 1] => c.chan < RxCap \/ e = c
    <2>1. CASE DeliverTimesOut(r)
      <3>1. conn' = [conn EXCEPT ![k] = Stopped(c)]
        BY <2>1 DEF DeliverTimesOut
      <3> QED
        BY <1>2, <3>1 DEF Stopped, ConnType
    <2>2. CASE Deliver(r) /\ (c.rx # "open" \/ route[r].kind = "syn")
      BY <2>2 DEF Deliver
    <2>3. CASE Deliver(r) /\ c.rx = "open" /\ route[r].kind = "data"
      BY <2>3 DEF Deliver
    <2>4. CASE Deliver(r) /\ c.rx = "open" /\ route[r].kind = "fin"
      <3>1. conn' = [conn EXCEPT ![k] = Stopped(c)]
        BY <2>4 DEF Deliver
      <3> QED
        BY <1>2, <3>1 DEF Stopped, ConnType
    <2>5. route[r].kind \in Kinds
      BY DEF Inv, RouteOK, RouteType
    <2> QED
      BY <2>1, <2>2, <2>3, <2>4, <2>5 DEF Kinds
  <1>7. PICK e \in {c, [c EXCEPT !.chan = @ + 1], Stopped(c)} :
          /\ conn' = [conn EXCEPT ![k] = e]
          /\ e = [c EXCEPT !.chan = @ + 1] => c.chan < RxCap \/ e = c
    BY <1>6
  <1>8. /\ e \in ConnType /\ e.reader = c.reader /\ e.finSent = c.finSent /\ e.open = c.open
        /\ c.rx = "closed" => e.rx = "closed"
    BY <1>2, <1>7, RxCapAssumption DEF ConnType, Stopped
  <1>9. /\ e.reader # "none"
        /\ e.finSent => e.reader = "done"
        /\ e.reader = "done" => ~e.open
    BY <1>1, <1>8 DEF ConnInv, FinIsLast, CloseReq, Made
  <1>10. conn' = [conn EXCEPT ![k] = e] /\ e \in ConnType
    BY <1>7, <1>8
  <1>11. (~conn[k].open => ~e.open) /\ (conn[k].rx = "closed" => e.rx = "closed")
    BY <1>8
  <1> HIDE DEF k, c
  <1> QED
    BY <1>1, <1>3, <1>4, <1>5, <1>9, <1>10, <1>11, OneConnMoves

\* The other steps of a router.
LEMMA RouterConns ==
    ASSUME Inv, ConnInv, NEW r \in Routers,
           \/ \E k \in Kinds : RouteKnown(r, k) \/ RouteRST(r, k)
           \/ RouteSyn(r) \/ CacheHit(r) \/ CacheMiss(r) \/ Resolved(r) \/ Unresolved(r)
           \/ DialFails(r)
    PROVE  ConnInv'
  <1>1. conn' = conn /\ table' = table /\ displaced' = displaced /\ fresh' = fresh
    BY DEF RouteKnown, RouteRST, RouteSyn, CacheHit, CacheMiss, Resolved, Unresolved, DialFails
  <1>2. frames' \in 0..MaxFrames
    <2>1. frames' = frames \/ (frames' = frames + 1 /\ frames < MaxFrames)
      BY DEF RouteKnown, RouteRST, RouteSyn, CacheHit, CacheMiss, Resolved, Unresolved, DialFails
    <2>2. frames \in 0..MaxFrames
      BY DEF ConnInv, CountsOK
    <2> QED
      BY <2>1, <2>2, Bounds
  <1>3. resolved' <= MaxResolved
    <2>1. resolved \in Nat /\ resolved <= MaxResolved
      BY DEF Inv, RouteOK, ConnInv, CountsOK
    <2>2. resolved' = resolved \/ (resolved' = resolved + 1 /\ resolved < MaxResolved)
      BY DEF RouteKnown, RouteRST, RouteSyn, CacheHit, CacheMiss, Resolved, Unresolved, DialFails
    <2> QED
      BY <2>1, <2>2, Bounds
  <1>4. dialFail' \in BOOLEAN
    <2>1. dialFail' = dialFail \/ dialFail' = TRUE \/ dialFail' = FALSE
      BY DEF RouteKnown, RouteRST, RouteSyn, CacheHit, CacheMiss, Resolved, Unresolved, DialFails
    <2>2. dialFail \in BOOLEAN
      BY DEF ConnInv, CountsOK
    <2> QED
      BY <2>1, <2>2, Zenon
  <1>5. CountsOK'
    BY <1>1, <1>2, <1>3, <1>4 DEF ConnInv, CountsOK
  <1>6. \A q \in Routers : route'[q].pc = "deliver" =>
          route'[q] = route[q] \/ (route'[q].sess = table /\ table # 0)
    <2>1. CASE \E k \in Kinds : RouteRST(r, k)
      BY <2>1 DEF RouteRST
    <2>2. CASE \E k \in Kinds : RouteKnown(r, k)
      BY <2>2 DEF RouteKnown, SeesNoEntry, Inv, RouteOK, Idle
    <2>3. CASE RouteSyn(r)
      BY <2>3 DEF RouteSyn, Inv, RouteOK, Idle
    <2>4. CASE CacheHit(r)
      BY <2>4 DEF CacheHit, Inv, RouteOK, RouteType
    <2>5. CASE CacheMiss(r)
      BY <2>5 DEF CacheMiss, Inv, RouteOK, RouteType
    <2>6. CASE Resolved(r)
      BY <2>6 DEF Resolved, Inv, RouteOK, RouteType
    <2>7. CASE Unresolved(r)
      BY <2>7 DEF Unresolved, Inv, RouteOK, RouteType
    <2>8. CASE DialFails(r)
      BY <2>8 DEF DialFails, Inv, RouteOK, Idle
    <2> QED
      BY <2>1, <2>2, <2>3, <2>4, <2>5, <2>6, <2>7, <2>8
  <1> QED
    BY <1>1, <1>5, <1>6, NoConnMoves

\* A step of a pump.
LEMMA PumpConns ==
    ASSUME Inv, ConnInv, NEW k \in Conns, PumpStep(k)
    PROVE  ConnInv'
  <1> DEFINE c == conn[k]
  <1>1. c \in ConnType
    BY DEF ConnInv
  <1>2. UNCHANGED <<table, fresh, route, frames, cache, resolved, dialFail, displaced>>
    BY DEF PumpStep, ReadData, ReadEnds, WriteDone, WriteFails, WriterExit, SetConn
  <1>3. CountsOK'
    BY <1>2 DEF ConnInv, CountsOK
  <1>4. /\ c.finSent => c.reader = "done"
        /\ c.reader = "done" => ~c.open
    BY DEF ConnInv, FinIsLast, CloseReq
  <1>5. ASSUME NEW e \in ConnType, conn' = [conn EXCEPT ![k] = e], Made(k), e.reader # "none",
               e.finSent => e.reader = "done", e.reader = "done" => ~e.open,
               ~c.open => ~e.open, c.rx = "closed" => e.rx = "closed"
        PROVE  ConnInv'
    BY <1>2, <1>3, <1>5, OneConnMoves
  <1>6. CASE ReadData(k)
    <2> DEFINE e == IF c.buf <= HighWater THEN [c EXCEPT !.buf = @ + 1]
                    ELSE [c EXCEPT !.reader = "parked"]
    <2>0. c.reader = "read" /\ Made(k)
      BY <1>6 DEF ReadData, Made
    <2>1. conn' = [conn EXCEPT ![k] = e]
      BY <1>6 DEF ReadData, SetConn
    <2>2. HighWater \in Nat
      BY BoundsAssumption
    <2>3. /\ e \in ConnType /\ e.reader \in {"read", "parked"}
          /\ e.finSent = c.finSent /\ e.open = c.open /\ e.rx = c.rx
      BY <1>1, <2>0, <2>2 DEF ConnType
    <2> HIDE DEF e
    <2> QED
      BY <1>4, <1>5, <2>0, <2>1, <2>3
  <1>7. CASE ReadEnds(k)
    <2> DEFINE e == [Stopped(c) EXCEPT !.reader = "done", !.open = FALSE]
    <2>1. conn' = [conn EXCEPT ![k] = e] /\ c.reader = "read" /\ Made(k)
      BY <1>7 DEF ReadEnds, SetConn, Made
    <2>2. e \in ConnType /\ e.reader = "done" /\ ~e.open /\ e.rx = "closed"
      BY <1>1 DEF ConnType, Stopped
    <2> HIDE DEF e
    <2> QED
      BY <1>5, <2>1, <2>2
  <1>8. CASE WriteDone(k) /\ Made(k)
    <2> DEFINE e == [c EXCEPT !.chan = @ - 1]
    <2>1. conn' = [conn EXCEPT ![k] = e] /\ c.chan > 0
      BY <1>8 DEF WriteDone, SetConn
    <2>2. /\ e \in ConnType /\ e.reader = c.reader
          /\ e.finSent = c.finSent /\ e.open = c.open /\ e.rx = c.rx
      BY <1>1, <2>1, RxCapAssumption DEF ConnType
    <2> HIDE DEF e
    <2> QED
      BY <1>4, <1>5, <1>8, <2>1, <2>2 DEF Made
  <1>9. CASE (WriteFails(k) \/ WriterExit(k)) /\ Made(k)
    <2> DEFINE e == [c EXCEPT !.writer = "done", !.open = FALSE]
    <2>1. conn' = [conn EXCEPT ![k] = e]
      BY <1>9 DEF WriteFails, WriterExit, SetConn
    <2>2. /\ e \in ConnType /\ e.reader = c.reader
          /\ e.finSent = c.finSent /\ ~e.open /\ e.rx = c.rx
      BY <1>1 DEF ConnType
    <2> HIDE DEF e
    <2> QED
      BY <1>4, <1>5, <1>9, <2>1, <2>2 DEF Made
  <1>10. c.writer = "run" => Made(k)
    BY DEF ConnInv, WritersMade
  <1> QED
    BY <1>6, <1>7, <1>8, <1>9, <1>10 DEF PumpStep, WriteDone, WriteFails, WriterExit

\* Drain and the collectors.
LEMMA TableConns ==
    ASSUME Inv, ConnInv, Drain \/ GcDone \/ GcIdle \/ GrowIdle
    PROVE  ConnInv'
  <1>1. CASE GrowIdle
    BY <1>1, NoConnMoves DEF GrowIdle, ConnInv, CountsOK
  <1>2. CASE Drain \/ GcDone \/ GcIdle
    <2> DEFINE k == table
               c == conn[k]
    <2>1. k \in Conns /\ Made(k) /\ k # 0
      BY <1>2 DEF Drain, GcDone, GcIdle, ConnInv, SessionsMade
    <2>2. c \in ConnType
      BY <2>1 DEF ConnInv
    <2>3. route' = route /\ displaced' = displaced
      BY <1>2 DEF Drain, GcDone, GcIdle
    <2>4. CountsOK'
      BY <1>2 DEF Drain, GcDone, GcIdle, ConnInv, CountsOK
    <2>5. /\ c.finSent => c.reader = "done"
          /\ c.reader = "done" => ~c.open
      BY <2>1 DEF ConnInv, FinIsLast, CloseReq
    <2>6. ASSUME NEW e \in ConnType, conn' = [conn EXCEPT ![k] = e], e.reader # "none",
                 e.finSent => e.reader = "done", e.reader = "done" => ~e.open,
                 ~c.open => ~e.open, c.rx = "closed" => e.rx = "closed",
                 table' = table \/ (table' = 0 /\ ~e.open /\ e.rx = "closed")
          PROVE  ConnInv'
      BY <2>1, <2>3, <2>4, <2>6, OneConnMoves
    <2>7. CASE Drain
      <3> DEFINE n == IF c.reader = "parked" THEN 1 ELSE 0
                 p == IF c.reader = "parked" THEN "read" ELSE c.reader
                 f == CloseReq(k)
                 e == [c EXCEPT !.buf = n, !.reader = p, !.finSent = f]
      <3>1. conn' = [conn EXCEPT ![k] = e] /\ table' = table
        BY <2>7 DEF Drain
      <3>2. f \in BOOLEAN /\ HighWater \in Nat /\ (f <=> c.reader = "done")
        BY BoundsAssumption DEF CloseReq
      <3>3. n \in 0..HighWater + 1 /\ p \in {"none", "read", "parked", "done"}
        BY <2>2, <3>2 DEF ConnType
      <3>4. p # "none" /\ (p = "done" <=> c.reader = "done")
        BY <2>1 DEF Made
      <3> HIDE DEF n, p, f
      <3>5. /\ e \in ConnType /\ e.reader = p /\ e.finSent = f
            /\ e.open = c.open /\ e.rx = c.rx
        BY <2>2, <3>2, <3>3 DEF ConnType
      <3> HIDE DEF e
      <3> QED
        BY <2>5, <2>6, <3>1, <3>2, <3>4, <3>5
    <2>8. CASE GcDone
      <3> DEFINE e == Stopped(c)
      <3>1. conn' = [conn EXCEPT ![k] = e] /\ table' = 0 /\ c.finSent
        BY <2>8 DEF GcDone
      <3>2. /\ e \in ConnType /\ e.reader = c.reader /\ e.finSent = c.finSent
            /\ e.open = c.open /\ e.rx = "closed"
        BY <2>2 DEF ConnType, Stopped
      <3> HIDE DEF e
      <3> QED
        BY <2>1, <2>5, <2>6, <3>1, <3>2 DEF Made
    <2>9. CASE GcIdle
      <3> DEFINE e == [c EXCEPT !.open = FALSE, !.rx = "closed"]
      <3>1. conn' = [conn EXCEPT ![k] = e] /\ table' = 0
        BY <2>9 DEF GcIdle
      <3>2. /\ e \in ConnType /\ e.reader = c.reader /\ e.finSent = c.finSent
            /\ ~e.open /\ e.rx = "closed"
        BY <2>2 DEF ConnType
      <3> HIDE DEF e
      <3> QED
        BY <2>1, <2>5, <2>6, <3>1, <3>2 DEF Made
    <2> QED
      BY <1>2, <2>7, <2>8, <2>9
  <1> QED
    BY <1>1, <1>2

\* The initial state.
LEMMA InitConns == Init => ConnInv
  <1> SUFFICES ASSUME Init PROVE ConnInv
    OBVIOUS
  <1> USE DEF Init
  <1>1. HighWater \in Nat /\ RxCap \in Nat
    BY BoundsAssumption, RxCapAssumption
  <1>2. NoConn \in ConnType
    BY <1>1 DEF NoConn, ConnType
  <1>3. \A k \in Conns : conn[k] = NoConn
    OBVIOUS
  <1>4. NoConn.reader = "none" /\ NoConn.writer = "none" /\ NoConn.finSent = FALSE
    BY DEF NoConn
  <1>5. conn \in [Conns -> ConnType]
    BY <1>2
  <1>6. CountsOK
    <2>1. fresh \in BOOLEAN /\ dialFail \in BOOLEAN
      BY Zenon
    <2> QED
      BY <2>1, Bounds DEF CountsOK
  <1>7. \A r \in Routers : route[r].pc = "idle"
    BY IdleType
  <1>8. {k \in Conns : Made(k)} = 1..0
    BY <1>3, <1>4 DEF Made
  <1>9. MadeInOrder
    BY <1>8, Bounds DEF MadeInOrder
  <1>10. SessionsMade /\ WritersMade /\ FinIsLast /\ LeftIsClosed
    BY <1>3, <1>4, <1>7 DEF SessionsMade, WritersMade, FinIsLast, LeftIsClosed, Made, CloseReq
  <1> QED
    BY <1>5, <1>6, <1>9, <1>10 DEF ConnInv

\* Every step.
LEMMA NextConns == Inv /\ ConnInv /\ [Next]_vars => ConnInv'
  <1> SUFFICES ASSUME Inv, ConnInv, [Next]_vars PROVE ConnInv'
    OBVIOUS
  <1>1. ASSUME NEW r \in Routers,
               (\E k \in Kinds : RouteKnown(r, k) \/ RouteRST(r, k)) \/ RouteSyn(r) \/ RouterStep(r)
        PROVE  ConnInv'
    BY <1>1, RouterConns, OpenSessionConns, DeliverConns DEF RouterStep
  <1>2. ASSUME NEW k \in Conns, PumpStep(k) PROVE ConnInv'
    BY <1>2, PumpConns
  <1>3. CASE Drain \/ GcDone \/ GcIdle \/ GrowIdle
    BY <1>3, TableConns
  <1>4. CASE UNCHANGED vars
    BY <1>4, NoConnMoves DEF vars, ConnInv, CountsOK
  <1> QED
    BY <1>1, <1>2, <1>3, <1>4 DEF Next

\* With any number of routers, connections and repeated frames: a frame is only
\* ever delivered to a session that was registered, the inbox of a session and
\* its transmit buffer stay within RxCap and one read above the high-water mark
\* (EnqueueTx, ProcessRx), and every counter is within its bound.
THEOREM UpstreamTypes == Spec => []TypeOK
  <1>1. Inv /\ ConnInv => TypeOK
    <2> SUFFICES ASSUME Inv, ConnInv PROVE TypeOK
      OBVIOUS
    <2>1. cache \in 0..MaxResolved /\ resolved \in 0..MaxResolved /\ condemned \subseteq 1..MaxResolved
      BY Bounds DEF Inv, RouteOK, AddressesKnown, ConnInv, CountsOK
    <2>2. route \in [Routers -> [pc : {"idle", "deliver"} \cup Dialling, kind : Kinds,
                                 sess : 0..MaxConns, addr : 0..MaxResolved, hit : BOOLEAN]]
      <3>1. ASSUME NEW r \in Routers
            PROVE  route[r] \in [pc : {"idle", "deliver"} \cup Dialling, kind : Kinds,
                                 sess : 0..MaxConns, addr : 0..MaxResolved, hit : BOOLEAN]
        <4>1. route[r] \in RouteType /\ route[r].addr <= resolved
          BY DEF Inv, RouteOK, AddressesKnown
        <4>2. route[r].addr \in 0..MaxResolved
          BY <2>1, <4>1, Bounds DEF RouteType
        <4> QED
          BY <4>1, <4>2 DEF RouteType
      <3> QED
        BY <3>1 DEF Inv, RouteOK
    <2> QED
      BY <2>1, <2>2 DEF TypeOK, Inv, RouteOK, ConnInv, CountsOK, ConnType
  <1> QED
    BY <1>1, InitInv, NextInv, InitConns, NextConns, PTL DEF Spec

\* With any number of routers, connections and repeated frames: a session that
\* gcDoneSessions or gcIdleSessions took out of the table has its connection and
\* its RxChan closed in the same step and never gets them back, so that both of
\* its pumps can only end; the one exception is a session that a racing SYN
\* displaced.
THEOREM CollectedIsClosed == Spec => []LeftIsClosed
  <1>1. ConnInv => LeftIsClosed
    BY DEF ConnInv
  <1> QED
    BY <1>1, InitInv, NextInv, InitConns, NextConns, PTL DEF Spec

=============================================================================
