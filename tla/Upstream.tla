------------------------------ MODULE Upstream ------------------------------
(***************************************************************************)
(* The exit server's side of one session id (internal/exit/exit.go and     *)
(* dnscache.go): routing of its frames by concurrent goroutines, the dial  *)
(* with its back-off and its DNS cache, the registration of the session,   *)
(* the two pumps of each upstream connection, and the collection of done   *)
(* and of idle sessions.                                                   *)
(*                                                                         *)
(* routeIncoming looks the session up in one critical section and          *)
(* openSession registers it in another, with a dial in between, so two     *)
(* SYNs of the same session may each open a connection.  Connections are   *)
(* numbered in the order they are registered; connection k belongs to the  *)
(* session object made for it, and table is the one the maps hold.         *)
(*                                                                         *)
(* The halves of a session are those of SessionTx and SessionRx, reduced   *)
(* to what the pumps see: how much is buffered downstream, whether RxChan  *)
(* is open, and how much waits in it.  Batches and long polls belong to    *)
(* Exit.  Calls that follow each other with no blocking call between them  *)
(* and whose effects no other actor can tell apart are one step.           *)
(***************************************************************************)
EXTENDS Naturals, FiniteSets

CONSTANTS
    Routers,     \* goroutines that route a frame: SYN goroutines and handlers
    MaxConns,    \* bound: connections registered in a behaviour
    MaxFrames,   \* bound: frames of the session that reach the server
    MaxResolved, \* bound: successful look-ups of the target's name
    HighWater,   \* TxBufHighWater, in reads of the upstream pump
    RxCap        \* payloads that fit between ProcessRx and the target

ASSUME RoutersAssumption == IsFiniteSet(Routers) /\ Routers # {}
ASSUME BoundsAssumption == {MaxConns, MaxFrames, MaxResolved, HighWater} \subseteq Nat
ASSUME RxCapAssumption == RxCap \in Nat \ {0}

VARIABLES
    table,     \* sessions[id] and upstreams[id]: a connection, 0 for no entry
    fresh,     \* lastActivity[id] is within idleSessionTimeout
    conn,      \* the connections with their pumps and session objects
    route,     \* what each router is doing
    frames,    \* number of frames that have reached the server
    cache,     \* dnsCache entry of the target: a look-up, 0 for no entry
    resolved,  \* number of successful look-ups so far
    dialFail,  \* the target has an entry in dialFail
    condemned, \* history: look-ups that failed when served from the cache
    displaced, \* history: connections whose entry was overwritten
    overlap    \* history: a SYN was let through while another was being dialled

vars == <<table, fresh, conn, route, frames, cache, resolved, dialFail,
          condemned, displaced, overlap>>

Conns == 1..MaxConns
Kinds == {"syn", "data", "fin"}
Dialling == {"lookup", "resolve", "connect"}

TypeOK ==
    /\ table \in 0..MaxConns
    /\ fresh \in BOOLEAN
    /\ conn \in [Conns -> [reader : {"none", "read", "parked", "done"},
                           writer : {"none", "run", "done"},
                           open : BOOLEAN,
                           rx : {"open", "closed"},
                           chan : 0..RxCap,
                           buf : 0..HighWater + 1,
                           finSent : BOOLEAN]]
    /\ route \in [Routers -> [pc : {"idle", "deliver"} \cup Dialling, kind : Kinds,
                              sess : 0..MaxConns, addr : 0..MaxResolved, hit : BOOLEAN]]
    /\ frames \in 0..MaxFrames
    /\ cache \in 0..MaxResolved
    /\ resolved \in 0..MaxResolved
    /\ dialFail \in BOOLEAN
    /\ condemned \subseteq 1..MaxResolved
    /\ displaced \subseteq Conns
    /\ overlap \in BOOLEAN

NoConn == [reader |-> "none", writer |-> "none", open |-> FALSE, rx |-> "open",
           chan |-> 0, buf |-> 0, finSent |-> FALSE]

Idle == [pc |-> "idle", kind |-> "data", sess |-> 0, addr |-> 0, hit |-> FALSE]

Init ==
    /\ table = 0
    /\ fresh = FALSE
    /\ conn = [k \in Conns |-> NoConn]
    /\ route = [r \in Routers |-> Idle]
    /\ frames = 0
    /\ cache = 0
    /\ resolved = 0
    /\ dialFail = FALSE
    /\ condemned = {}
    /\ displaced = {}
    /\ overlap = FALSE

Made(k) == conn[k].reader # "none"
NextConn == Cardinality({k \in Conns : Made(k)}) + 1

\* RequestClose is called by the read pump alone, when it ends.
CloseReq(k) == conn[k].reader = "done"

\* Session.Stop, and rxLoop that sees rxDone and closes RxChan.
Stopped(c) == [c EXCEPT !.rx = "closed"]

-----------------------------------------------------------------------------
(* routeIncoming *)

\* Mutant: a SYN opens a session whether or not there is one.
SeesNoEntryOfSyn(k) == k = "syn" \/ table = 0

\* The look-up of the session under s.mu finds nothing.
SeesNoEntry(k) == table = 0

\* A frame of a registered session: the session found is used after the unlock.
RouteKnown(r, k) ==
    /\ route[r].pc = "idle" /\ frames < MaxFrames
    /\ ~SeesNoEntry(k)
    /\ route' = [route EXCEPT ![r] = [Idle EXCEPT !.pc = "deliver", !.kind = k, !.sess = table]]
    /\ frames' = frames + 1
    /\ UNCHANGED <<table, fresh, conn, cache, resolved, dialFail, condemned, displaced, overlap>>

\* An RST answers a frame other than a SYN of an unknown session, and a SYN
\* whose target isDialSuppressed.
RouteRST(r, k) ==
    /\ route[r].pc = "idle" /\ frames < MaxFrames
    /\ SeesNoEntry(k)
    /\ k = "syn" => dialFail
    /\ frames' = frames + 1
    /\ UNCHANGED <<table, fresh, conn, route, cache, resolved, dialFail, condemned, displaced, overlap>>

\* A SYN of an unknown session is dialled: isDialSuppressed finds no entry, or
\* one that has run out and is deleted.
RouteSyn(r) ==
    /\ route[r].pc = "idle" /\ frames < MaxFrames
    /\ SeesNoEntry("syn")
    /\ dialFail' = FALSE
    /\ route' = [route EXCEPT ![r] = [Idle EXCEPT !.pc = "lookup", !.kind = "syn"]]
    /\ frames' = frames + 1
    /\ overlap' = (overlap \/ \E q \in Routers : route[q].pc \in Dialling)
    /\ UNCHANGED <<table, fresh, conn, cache, resolved, condemned,
                   displaced>>

\* dnsCache.get finds an address.
CacheHit(r) ==
    /\ route[r].pc = "lookup"
    /\ cache # 0
    /\ route' = [route EXCEPT ![r].pc = "connect", ![r].addr = cache, ![r].hit = TRUE]
    /\ UNCHANGED <<table, fresh, conn, frames, cache, resolved, dialFail,
                   condemned, displaced, overlap>>

\* dnsCache.get finds none, or evicts one past its time to live.
CacheMiss(r) ==
    /\ route[r].pc = "lookup"
    /\ cache' = 0
    /\ route' = [route EXCEPT ![r].pc = "resolve"]
    /\ UNCHANGED <<table, fresh, conn, frames, resolved, dialFail, condemned, displaced, overlap>>

\* The resolver answers; the address is cached before it is tried.
Resolved(r) ==
    /\ route[r].pc = "resolve"
    /\ resolved < MaxResolved
    /\ resolved' = resolved + 1
    /\ cache' = resolved + 1
    /\ route' = [route EXCEPT ![r].pc = "connect", ![r].addr = resolved + 1]
    /\ UNCHANGED <<table, fresh, conn, frames, dialFail, condemned,
                   displaced, overlap>>

\* The resolver fails: the name itself is dialled.  A literal IP and a dial
\* through the SOCKS proxy take this way too, without the cache.
Unresolved(r) ==
    /\ route[r].pc = "resolve"
    /\ route' = [route EXCEPT ![r].pc = "connect"]
    /\ UNCHANGED <<table, fresh, conn, frames, cache, resolved, dialFail,
                   condemned, displaced, overlap>>

\* Mutant: a failed address stays in the cache until its time runs out.
EvictedNever(r) == cache

\* The cache after a failed dial: forget evicts an address served from it.
Evicted(r) == IF route[r].hit THEN 0 ELSE cache

\* The dial fails.  recordDialFailure looks at the error; the client is told
\* nothing.
DialFails(r) ==
    /\ route[r].pc = "connect"
    /\ cache' = Evicted(r)
    /\ dialFail' \in {dialFail, TRUE}
    /\ condemned' = IF route[r].hit THEN condemned \cup {route[r].addr} ELSE condemned
    /\ route' = [route EXCEPT ![r] = Idle]
    /\ UNCHANGED <<table, fresh, conn, frames, resolved, displaced,
                   overlap>>

\* The dial succeeds: openSession registers the new session over whatever the
\* table holds and starts the pumps, and clearDialFailure ends the back-off.
OpenSession(r) ==
    /\ route[r].pc = "connect"
    /\ NextConn \in Conns
    /\ conn' = [conn EXCEPT ![NextConn].reader = "read", ![NextConn].writer = "run",
                            ![NextConn].open = TRUE]
    /\ table' = NextConn
    /\ fresh' = TRUE
    /\ dialFail' = FALSE
    /\ displaced' = displaced \cup ({table} \ {0})
    /\ route' = [route EXCEPT ![r] = [Idle EXCEPT !.pc = "deliver", !.kind = "syn",
                                                 !.sess = NextConn]]
    /\ UNCHANGED <<frames, cache, resolved, condemned, overlap>>

\* ProcessRx of the session found or opened, which may have been collected
\* since; the frame counts as activity of whatever session has the id now.
Deliver(r) ==
    LET k == route[r].sess
        c == conn[k]
    IN  /\ route[r].pc = "deliver"
        /\ c.rx = "open" /\ route[r].kind = "data" => c.chan < RxCap
        /\ conn' = [conn EXCEPT ![k] =
               CASE c.rx # "open" \/ route[r].kind = "syn" -> c
                 [] c.rx = "open" /\ route[r].kind = "data" -> [c EXCEPT !.chan = @ + 1]
                 [] c.rx = "open" /\ route[r].kind = "fin"  -> Stopped(c)]
        /\ fresh' = (fresh \/ table # 0)
        /\ route' = [route EXCEPT ![r] = Idle]
        /\ UNCHANGED <<table, frames, cache, resolved, dialFail, condemned, displaced, overlap>>

\* ProcessRx gives up on a full inbox after rxInboxBlockTimeout.
DeliverTimesOut(r) ==
    LET k == route[r].sess
    IN  /\ route[r].pc = "deliver" /\ route[r].kind = "data"
        /\ conn[k].rx = "open" /\ conn[k].chan = RxCap
        /\ conn' = [conn EXCEPT ![k] = Stopped(@)]
        /\ fresh' = (fresh \/ table # 0)
        /\ route' = [route EXCEPT ![r] = Idle]
        /\ UNCHANGED <<table, frames, cache, resolved, dialFail, condemned, displaced, overlap>>

-----------------------------------------------------------------------------
(* The pumps of connection k. *)

SetConn(c) ==
    /\ conn' = c
    /\ UNCHANGED <<table, fresh, route, frames, cache, resolved, dialFail,
                   condemned, displaced, overlap>>

\* The read pump reads, and EnqueueTx accepts the bytes or parks it above the
\* high-water mark.
ReadData(k) ==
    /\ conn[k].reader = "read" /\ conn[k].open
    /\ SetConn(IF conn[k].buf <= HighWater THEN [conn EXCEPT ![k].buf = @ + 1]
               ELSE [conn EXCEPT ![k].reader = "parked"])

\* Read returns EOF or an error, at the latest when the connection is closed
\* here: RequestClose, Stop and the deferred Close.
ReadEnds(k) ==
    /\ conn[k].reader = "read"
    /\ SetConn([conn EXCEPT ![k] = [Stopped(@) EXCEPT !.reader = "done", !.open = FALSE]])

\* The write pump hands a payload to the target.
WriteDone(k) ==
    /\ conn[k].writer = "run" /\ conn[k].chan > 0 /\ conn[k].open
    /\ SetConn([conn EXCEPT ![k].chan = @ - 1])

\* Write fails: the pump closes the connection and ends.
WriteFails(k) ==
    /\ conn[k].writer = "run" /\ conn[k].chan > 0
    /\ SetConn([conn EXCEPT ![k].writer = "done", ![k].open = FALSE])

\* RxChan is closed and empty: the pump closes the connection and ends.
WriterExit(k) ==
    /\ conn[k].writer = "run" /\ conn[k].chan = 0 /\ conn[k].rx = "closed"
    /\ SetConn([conn EXCEPT ![k].writer = "done", ![k].open = FALSE])

-----------------------------------------------------------------------------
(* The client's polls and the collectors. *)

Pending(k) == conn[k].buf > 0 \/ (CloseReq(k) /\ ~conn[k].finSent)

\* A poll drains the registered session, which counts as activity; a parked
\* pump wakes and enqueues the bytes in its hand.
Drain ==
    LET c == conn[table]
        parked == c.reader = "parked"
    IN  /\ table # 0 /\ Pending(table)
        /\ conn' = [conn EXCEPT ![table] =
               [c EXCEPT !.buf = IF parked THEN 1 ELSE 0,
                         !.reader = IF parked THEN "read" ELSE @,
                         !.finSent = CloseReq(table)]]
        /\ fresh' = TRUE
        /\ UNCHANGED <<table, route, frames, cache, resolved, dialFail,
                       condemned, displaced, overlap>>

\* gcDoneSessions; IsDone holds when both FINs have passed, or
\* sessionFinalTimeout after the one sent here.
GcDone ==
    /\ table # 0 /\ conn[table].finSent
    /\ conn' = [conn EXCEPT ![table] = Stopped(@)]
    /\ table' = 0
    /\ fresh' = FALSE
    /\ UNCHANGED <<route, frames, cache, resolved, dialFail, condemned,
                   displaced, overlap>>

\* Mutant: only a session that has sent its FIN is taken for idle.
GcIdleDone ==
    /\ table # 0 /\ ~fresh /\ conn[table].finSent
    /\ conn' = [conn EXCEPT ![table].open = FALSE, ![table].rx = "closed"]
    /\ table' = 0
    /\ UNCHANGED <<fresh, route, frames, cache, resolved, dialFail, condemned,
                   displaced, overlap>>

\* Mutant: only the connection is closed, the rest is left to the read pump.
GcIdleConnOnly ==
    /\ table # 0 /\ ~fresh
    /\ conn' = [conn EXCEPT ![table].open = FALSE]
    /\ table' = 0
    /\ UNCHANGED <<fresh, route, frames, cache, resolved, dialFail, condemned,
                   displaced, overlap>>

\* gcIdleSessions takes the session out and closes its connection and RxChan.
GcIdle ==
    /\ table # 0 /\ ~fresh
    /\ conn' = [conn EXCEPT ![table].open = FALSE, ![table].rx = "closed"]
    /\ table' = 0
    /\ UNCHANGED <<fresh, route, frames, cache, resolved, dialFail, condemned, displaced, overlap>>

\* idleSessionTimeout passes without a frame in either direction.
GrowIdle ==
    /\ fresh
    /\ fresh' = FALSE
    /\ UNCHANGED <<table, conn, route, frames, cache, resolved, dialFail,
                   condemned, displaced, overlap>>

-----------------------------------------------------------------------------
RouterStep(r) ==
    \/ CacheHit(r) \/ CacheMiss(r) \/ Resolved(r) \/ Unresolved(r)
    \/ DialFails(r) \/ OpenSession(r)
    \/ Deliver(r) \/ DeliverTimesOut(r)

PumpStep(k) ==
    \/ ReadData(k) \/ ReadEnds(k)
    \/ WriteDone(k) \/ WriteFails(k) \/ WriterExit(k)

Next ==
    \/ \E r \in Routers : \/ \E k \in Kinds : RouteKnown(r, k) \/ RouteRST(r, k)
                          \/ RouteSyn(r)
                          \/ RouterStep(r)
    \/ \E k \in Conns : PumpStep(k)
    \/ Drain \/ GcDone \/ GcIdle \/ GrowIdle

Spec == Init /\ [][Next]_vars

\* Routers and pumps are goroutines and run; a dial ends within its timeout;
\* Read and Write return once the connection is closed; the idle collector is
\* a ticker and time passes.  Nothing is assumed of the target while the
\* connection is open, nor of the client, which may stop polling at any time.
FairSpec ==
    /\ Spec
    /\ \A r \in Routers : WF_vars(RouterStep(r))
    /\ \A k \in Conns :
           /\ WF_vars(WriterExit(k))
           /\ WF_vars(~conn[k].open /\ (ReadEnds(k) \/ WriteFails(k)))
    /\ WF_vars(GcIdle) /\ WF_vars(GrowIdle)

-----------------------------------------------------------------------------
(* Properties. *)

\* An entry of the table is overwritten only when two SYNs of the session were
\* dialled at the same time: a SYN that is repeated later, when its session is
\* registered, never opens a second connection over the first.
DisplacedOnlyByOverlap == displaced # {} => overlap

\* The result of a look-up that failed when it was served from the cache is
\* never served again, although a fresh one stays cached when its own dial
\* fails, dials that read the entry before its eviction go on with it, and an
\* eviction may hit a newer entry.
FailedAddressGone == cache \notin condemned

\* A connection whose session has left the table is closed and its pumps end,
\* with the two exceptions the code has: a connection displaced by a racing
\* SYN, and a read pump parked in EnqueueTx, which nothing wakes after
\* gcIdleSessions.
NothingLeftBehind ==
    \A k \in Conns :
        Made(k) /\ table # k ~>
            \/ k \in displaced
            \/ /\ ~conn[k].open
               /\ conn[k].writer = "done"
               /\ conn[k].reader \in {"done", "parked"}

\* A session does not stay registered for ever without traffic, also when its
\* client was killed, or was told by an RST that overtook the dial to forget it.
OrphanCollected == <>[](table = 0) \/ []<>fresh

=============================================================================
