-------------------------------- MODULE Exit --------------------------------
(***************************************************************************)
(* The downstream half of the exit server (internal/exit/exit.go): the     *)
(* handlers of tunnel requests with their long poll and coalesce window,   *)
(* drainAll, the per-client wake channels, and the two collectors.         *)
(*                                                                         *)
(* Sessions are reduced to what drainAll tells apart: payload frames       *)
(* waiting and a FIN that is due.  Module SessionTx has the rest of the    *)
(* transmit half, SessionRx the receive half.  Payload is counted in       *)
(* frames of MaxFramePayload bytes, and so is the byte budget.             *)
(* Each action is one critical section of s.mu, or one event of a          *)
(* goroutine between two of them.  kick is one step: it looks the channel  *)
(* up under the mutex and sends after it, and only the collector, which    *)
(* never takes a token out of a channel, could come in between.            *)
(***************************************************************************)
EXTENDS Naturals, Sequences, FiniteSets, Functions

CONSTANTS
    Clients,       \* client ids
    NoClient,      \* of a handler that serves no request
    Sessions,      \* session ids; they are never reused
    Owner,         \* the client that opens each session
    Handlers,      \* goroutines that serve requests
    MaxData,       \* bound: payload frames waiting in one session
    MaxCtrl,       \* bound: RST and version frames waiting for one client
    MaxOut,        \* bound: frames in a response that goes on coalescing
    PerSession,    \* maxDrainFramesPerSession
    BatchCap,      \* maxDrainFramesPerBatch
    BatchCapBusy,  \* maxDrainFramesPerBatchBusy
    BusySessions,  \* busySessionThreshold
    Budget,        \* maxResponseBytesPreEncode
    CoalesceMin    \* coalesceMinFrames

ASSUME OwnerAssumption == Owner \in [Sessions -> Clients] /\ NoClient \notin Clients
ASSUME FiniteAssumption == /\ IsFiniteSet(Clients) /\ IsFiniteSet(Sessions)
                           /\ IsFiniteSet(Handlers)
ASSUME CapAssumption   == /\ PerSession \in Nat \ {0}
                          /\ BatchCap \in Nat \ {0}
                          /\ BatchCapBusy \in Nat /\ BatchCap <= BatchCapBusy
                          /\ BusySessions \in Nat
                          /\ Budget \in Nat \ {0}
                          /\ CoalesceMin \in Nat
ASSUME BoundAssumption == /\ MaxData \in Nat
                          /\ MaxCtrl \in Nat
                          /\ MaxOut \in Nat

VARIABLES
    \* sessions
    table,       \* "none" before the SYN, "in" the table, "out"
    data, closeReq, finSent,
    age,         \* sessions with a queue timestamp, oldest first
    pump,        \* upstream read pump: "run", or in OnTx: "ready" before the
                 \*   update of txReady, "kick" after it
    \* Server
    txReady, firstReply,
    ctrl,        \* frames of pendingRSTs and pendingCtrl, per client
    activity,    \* the client's wake channel, 0 when there is none
    token,       \* channels that hold a wake
    \* handlers
    pc,          \* "off", "route", "ctrlKick", "capture", "drain", "wait",
                 \*   "coalesce", "reply", "empty"
    client, chan,
    late,        \* the poll's deadline has passed
    from,        \* sessions with frames in the response
    out, bytes   \* frames in the response, payload among them

sess     == <<table, data, closeReq, finSent, age>>
server   == <<txReady, firstReply, ctrl, activity, token>>
handlers == <<pc, client, chan, late, from, out, bytes>>
vars     == <<sess, pump, server, handlers>>

InTable == {s \in Sessions : table[s] = "in"}

FinDue(s) == closeReq[s] /\ ~finSent[s]

HasPendingTx(s) == data[s] > 0 \/ FinDue(s)

Frames(s) == data[s] + (IF FinDue(s) THEN 1 ELSE 0)

\* firstQueuedAt is set unless it was already.
Queued(s) == IF s \in Range(age) THEN age ELSE Append(age, s)

Init ==
    /\ table = [s \in Sessions |-> "none"]
    /\ data = [s \in Sessions |-> 0]
    /\ closeReq = [s \in Sessions |-> FALSE]
    /\ finSent = [s \in Sessions |-> FALSE]
    /\ age = <<>>
    /\ pump = [s \in Sessions |-> "run"]
    /\ txReady = {}
    /\ firstReply = {}
    /\ ctrl = [c \in Clients |-> 0]
    /\ activity = [c \in Clients |-> 0]
    /\ token = {}
    /\ pc = [h \in Handlers |-> "off"]
    /\ client = [h \in Handlers |-> NoClient]
    /\ chan = [h \in Handlers |-> 0]
    /\ late = [h \in Handlers |-> FALSE]
    /\ from = [h \in Handlers |-> {}]
    /\ out = [h \in Handlers |-> 0]
    /\ bytes = [h \in Handlers |-> 0]

-----------------------------------------------------------------------------
(* Wake channels. *)

\* A channel that is in nobody's hands.
FreshChan ==
    CHOOSE n \in 1..(Cardinality(Clients) + Cardinality(Handlers)) :
        n \notin Range(activity) \cup Range(chan)

\* activityFor: the client's channel, allocated on first use.
ActivityFor(c) == IF activity[c] # 0 THEN activity[c] ELSE FreshChan

\* kick: a token in the client's channel, if there is none.
Kick(c) ==
    /\ activity' = [activity EXCEPT ![c] = ActivityFor(c)]
    /\ token' = token \cup {ActivityFor(c)}

-----------------------------------------------------------------------------
(* The upstream side: the read pump of openSession. *)

\* Upstream sent something: EnqueueTx.  (After a collection the next thing the
\* pump sees is its closed connection: UpstreamEnd.)
UpstreamRead(s) ==
    /\ s \in InTable
    /\ pump[s] = "run"
    /\ ~closeReq[s]
    /\ data[s] < MaxData
    /\ data' = [data EXCEPT ![s] = @ + 1]
    /\ age' = Queued(s)
    /\ pump' = [pump EXCEPT ![s] = "ready"]
    /\ UNCHANGED <<table, closeReq, finSent, server, handlers>>

\* Upstream ended: RequestClose.  (The pump's Stop is in SessionRx.)
UpstreamEnd(s) ==
    /\ table[s] # "none"
    /\ pump[s] = "run"
    /\ ~closeReq[s]
    /\ closeReq' = [closeReq EXCEPT ![s] = TRUE]
    /\ age' = Queued(s)
    /\ pump' = [pump EXCEPT ![s] = "ready"]
    /\ UNCHANGED <<table, data, finSent, server, handlers>>

\* The OnTx closure of openSession: the table's mutex, then the kick.
OnTxReady(s) ==
    /\ pump[s] = "ready"
    /\ txReady' = txReady \cup {s}
    /\ pump' = [pump EXCEPT ![s] = "kick"]
    /\ UNCHANGED <<sess, firstReply, ctrl, activity, token, handlers>>

OnTxKick(s) ==
    /\ pump[s] = "kick"
    /\ Kick(Owner[s])
    /\ pump' = [pump EXCEPT ![s] = "run"]
    /\ UNCHANGED <<sess, txReady, firstReply, ctrl, handlers>>

-----------------------------------------------------------------------------
(* handleTunnel: routing the request's frames. *)

Request(h, c) ==
    /\ pc[h] = "off"
    /\ pc' = [pc EXCEPT ![h] = "route"]
    /\ client' = [client EXCEPT ![h] = c]
    /\ UNCHANGED <<sess, pump, server, chan, late, from, out, bytes>>

\* A SYN whose dial succeeds: openSession registers the session.
OpenSession(h, s) ==
    /\ pc[h] = "route"
    /\ Owner[s] = client[h]
    /\ table[s] = "none"
    /\ table' = [table EXCEPT ![s] = "in"]
    /\ firstReply' = firstReply \cup {s}
    /\ pc' = [pc EXCEPT ![h] = "capture"]
    /\ UNCHANGED <<data, closeReq, finSent, age, pump, txReady, ctrl,
                   activity, token, client, chan, late, from, out, bytes>>

\* A frame that is answered with an RST (unknown session, another client's
\* session, suppressed dial) or with the version.
QueueRST(h) ==
    /\ pc[h] = "route"
    /\ ctrl[client[h]] < MaxCtrl
    /\ ctrl' = [ctrl EXCEPT ![client[h]] = @ + 1]
    /\ pc' = [pc EXCEPT ![h] = "ctrlKick"]
    /\ UNCHANGED <<sess, pump, txReady, firstReply, activity, token, client,
                   chan, late, from, out, bytes>>

QueueRSTKick(h) ==
    /\ pc[h] = "ctrlKick"
    /\ Kick(client[h])
    /\ pc' = [pc EXCEPT ![h] = "capture"]
    /\ UNCHANGED <<sess, pump, txReady, firstReply, ctrl, client, chan, late, from, out,
                   bytes>>

\* Mutant: waits before its first drain.
CaptureThenWait(h) ==
    /\ pc[h] \in {"route", "capture"}
    /\ activity' = [activity EXCEPT ![client[h]] = ActivityFor(client[h])]
    /\ chan' = [chan EXCEPT ![h] = ActivityFor(client[h])]
    /\ pc' = [pc EXCEPT ![h] = "wait"]
    /\ UNCHANGED <<sess, pump, txReady, firstReply, ctrl, token, client, late, from, out,
                   bytes>>

\* Nothing else to route: the wake channel is captured before the first drain.
Capture(h) ==
    /\ pc[h] \in {"route", "capture"}
    /\ activity' = [activity EXCEPT ![client[h]] = ActivityFor(client[h])]
    /\ chan' = [chan EXCEPT ![h] = ActivityFor(client[h])]
    /\ pc' = [pc EXCEPT ![h] = "drain"]
    /\ UNCHANGED <<sess, pump, txReady, firstReply, ctrl, token, client, late, from, out,
                   bytes>>

-----------------------------------------------------------------------------
(* drainAll: one critical section. *)

MinOf(a, b) == IF a <= b THEN a ELSE b

FrameCap == IF Cardinality(InTable) >= BusySessions THEN BatchCapBusy ELSE BatchCap

\* Mutant: no filter by owner.
DrainableAnyOwner(c) == txReady \cap InTable

\* Only sessions of the polling client.
Drainable(c) == {s \in txReady \cap InTable : Owner[s] = c}

\* Mutant: the session queued last comes first.
Younger(r, s) ==
    /\ s \in Range(age)
    /\ r \in Range(age) => \E i, j \in 1..Len(age) : i > j /\ age[i] = r /\ age[j] = s

\* Sorted by queue age; the zero time comes first.
Older(r, s) ==
    /\ s \in Range(age)
    /\ r \in Range(age) => \E i, j \in 1..Len(age) : i < j /\ age[i] = r /\ age[j] = s

Before(c, s) == {r \in Drainable(c) : Older(r, s)}

\* Frames that still fit, and whether the byte budget is used up, when s has
\* its turn and the sessions before it gave the frames d.
Room(d, c, s) == FrameCap - SumFunctionOnSet(d, Before(c, s))

Payload(d) == [s \in Sessions |-> MinOf(d[s], data[s])]

InBudget(d, c, s, budget) == SumFunctionOnSet(Payload(d), Before(c, s)) < budget

Visited(d, c, budget) ==
    {s \in Drainable(c) : Room(d, c, s) > 0 /\ InBudget(d, c, s, budget)}

\* The frames drainAll takes from each session.
IsDrain(d, c, budget) ==
    \A s \in Sessions :
        d[s] = IF s \in Visited(d, c, budget)
               THEN MinOf(MinOf(Frames(s), PerSession), Room(d, c, s))
               ELSE 0

\* Mutant: also after a partial drain.
EmptiedVisited(d, c, budget) == Visited(d, c, budget)

\* A session leaves txReady when nothing of it is left.
Emptied(d, c, budget) == {s \in Visited(d, c, budget) : d[s] = Frames(s)}

\* The sequence s without the members of K.
Without(s, K) ==
    LET F[i \in 0..Len(s)] == IF i = 0 THEN <<>>
                              ELSE IF s[i] \in K THEN F[i - 1]
                              ELSE Append(F[i - 1], s[i])
    IN  F[Len(s)]

\* drainAll for handler h with what is left of the budget: d is added to the
\* response, and the client's control frames go first.
DrainAll(h, d, budget) ==
    LET c == client[h]
    IN  /\ IsDrain(d, c, budget)
        /\ data' = [s \in Sessions |-> data[s] - Payload(d)[s]]
        /\ finSent' = [s \in Sessions |-> finSent[s] \/ d[s] > data[s]]
        /\ age' = Without(age, Emptied(d, c, budget))
        /\ txReady' = {s \in txReady : s \in InTable} \ Emptied(d, c, budget)
        /\ firstReply' = {s \in firstReply : d[s] = 0}
        /\ ctrl' = [ctrl EXCEPT ![c] = 0]
        /\ from' = [from EXCEPT ![h] = @ \cup {s \in Sessions : d[s] > 0}]
        /\ out' = [out EXCEPT ![h] = @ + ctrl[c] + SumFunction(d)]
        /\ bytes' = [bytes EXCEPT ![h] = @ + SumFunction(Payload(d))]

Drains == [Sessions -> 0..PerSession]

\* Control frames and the first downstream frames of a session are not held
\* back to coalesce.
Urgent(h, d) == ctrl[client[h]] > 0 \/ \E s \in firstReply : d[s] > 0

\* The first drain of a poll, or the one after a wake-up.
PollDrain(h) ==
    \E d \in Drains :
        /\ pc[h] = "drain"
        /\ DrainAll(h, d, Budget)
        /\ pc' = [pc EXCEPT ![h] =
                    IF out'[h] = 0 THEN (IF late[h] THEN "empty" ELSE "wait")
                    ELSE IF /\ ~Urgent(h, d)
                            /\ out'[h] > CoalesceMin
                            /\ bytes'[h] < Budget
                         THEN "coalesce" ELSE "reply"]
        /\ UNCHANGED <<table, closeReq, pump, activity, token, client,
                       chan, late>>

\* Mutant: every drain of the window has the whole budget.
CoalesceDrainAfresh(h) ==
    \E d \in Drains :
        /\ pc[h] = "coalesce"
        /\ out[h] < MaxOut
        /\ chan[h] \in token
        /\ token' = token \ {chan[h]}
        /\ DrainAll(h, d, Budget)
        /\ UNCHANGED <<table, closeReq, pump, activity, pc, client,
                       chan, late>>

\* A wake-up in the coalesce window: drain more, with the rest of the budget.
CoalesceDrain(h) ==
    \E d \in Drains :
        /\ pc[h] = "coalesce"
        /\ bytes[h] < Budget
        /\ out[h] < MaxOut
        /\ chan[h] \in token
        /\ token' = token \ {chan[h]}
        /\ DrainAll(h, d, Budget - bytes[h])
        /\ UNCHANGED <<table, closeReq, pump, activity, pc, client,
                       chan, late>>

\* The window closes, or the budget is used up.
CoalesceEnd(h) ==
    /\ pc[h] = "coalesce"
    /\ pc' = [pc EXCEPT ![h] = "reply"]
    /\ UNCHANGED <<sess, pump, server, client, chan, late, from, out, bytes>>

\* The long poll: a wake-up, or the deadline.
Wake(h) ==
    /\ pc[h] = "wait"
    /\ chan[h] \in token
    /\ token' = token \ {chan[h]}
    /\ pc' = [pc EXCEPT ![h] = "drain"]
    /\ UNCHANGED <<sess, pump, txReady, firstReply, ctrl, activity, client, chan,
                   late, from, out, bytes>>

Deadline(h) ==
    /\ pc[h] = "wait"
    /\ late' = [late EXCEPT ![h] = TRUE]
    /\ pc' = [pc EXCEPT ![h] = "drain"]
    /\ UNCHANGED <<sess, pump, server, client, chan, from, out, bytes>>

\* The handler returns; a channel that nobody holds any more is garbage.
Returned(h) ==
    /\ pc' = [pc EXCEPT ![h] = "off"]
    /\ client' = [client EXCEPT ![h] = NoClient]
    /\ chan' = [chan EXCEPT ![h] = 0]
    /\ late' = [late EXCEPT ![h] = FALSE]
    /\ from' = [from EXCEPT ![h] = {}]
    /\ out' = [out EXCEPT ![h] = 0]
    /\ bytes' = [bytes EXCEPT ![h] = 0]
    /\ token' = token \cap (Range(activity') \cup Range(chan'))

\* The deadline passed and nothing came: an empty batch, and no collection.
ReplyEmpty(h) ==
    /\ pc[h] = "empty"
    /\ UNCHANGED <<sess, pump, txReady, firstReply, ctrl, activity>>
    /\ Returned(h)

\* The request's context ends; what was drained is gone.
Cancel(h) ==
    /\ pc[h] \in {"wait", "coalesce"}
    /\ UNCHANGED <<sess, pump, txReady, firstReply, ctrl, activity>>
    /\ Returned(h)

\* Mutant: collected once closed.
MayBeDoneClosed(s) == closeReq[s]

\* Done once the receive half is closed too, or sessionFinalTimeout after our
\* FIN: either may or may not have happened.
MayBeDone(s) == finSent[s]

\* The owners that keep their channel when the sessions gone are collected.
ActiveOwners(gone) == {Owner[s] : s \in InTable \ gone}

\* The response is written, then gcDoneSessions: finished sessions, and the
\* channels of clients without one.
Reply(h) ==
    \E done \in SUBSET {s \in InTable : MayBeDone(s)} :
        /\ pc[h] = "reply"
        /\ table' = [s \in Sessions |-> IF s \in done THEN "out" ELSE table[s]]
        /\ txReady' = txReady \ done
        /\ firstReply' = firstReply \ done
        /\ activity' = [c \in Clients |-> IF c \in ActiveOwners(done) THEN activity[c]
                                          ELSE 0]
        /\ UNCHANGED <<data, closeReq, finSent, age, pump, ctrl>>
        /\ Returned(h)

\* gcIdleSessions: ten minutes without a frame in either direction.  A client
\* that polls would have taken what is pending.
GcIdleSession(s) ==
    /\ s \in InTable
    /\ HasPendingTx(s) => \A h \in Handlers : client[h] # Owner[s]
    /\ table' = [table EXCEPT ![s] = "out"]
    /\ txReady' = txReady \ {s}
    /\ firstReply' = firstReply \ {s}
    /\ UNCHANGED <<data, closeReq, finSent, age, pump, ctrl, activity, token,
                   handlers>>

-----------------------------------------------------------------------------
HandlerStep(h) ==
    \/ \E s \in Sessions : OpenSession(h, s)
    \/ QueueRST(h)
    \/ QueueRSTKick(h)
    \/ Capture(h)
    \/ PollDrain(h)
    \/ CoalesceDrain(h)
    \/ CoalesceEnd(h)
    \/ Wake(h)
    \/ Deadline(h)
    \/ ReplyEmpty(h)
    \/ Reply(h)

OnTx(s) == OnTxReady(s) \/ OnTxKick(s)

Poll(c) == \E h \in Handlers : Request(h, c)

Next ==
    \/ \E c \in Clients : Poll(c)
    \/ \E h \in Handlers : HandlerStep(h) \/ Cancel(h)
    \/ \E s \in Sessions : UpstreamRead(s) \/ UpstreamEnd(s)
    \/ \E s \in Sessions : OnTx(s)
    \/ \E s \in Sessions : GcIdleSession(s)

Spec == Init /\ [][Next]_vars

\* Goroutines run, timers fire, and clients keep polling.  Nobody has to open
\* a session, and upstream need not send or end.
Fairness ==
    /\ \A h \in Handlers : WF_vars(HandlerStep(h))
    /\ \A s \in Sessions : WF_vars(OnTx(s))
    /\ \A c \in Clients : WF_vars(Poll(c))

FairSpec == Spec /\ Fairness

-----------------------------------------------------------------------------
(* Properties. *)

HandlerStates == {"off", "route", "ctrlKick", "capture", "drain", "wait", "coalesce",
                  "reply", "empty"}

\* Every variable keeps its type.
TypeOK ==
    /\ table \in [Sessions -> {"none", "in", "out"}]
    /\ data \in [Sessions -> 0..MaxData]
    /\ closeReq \in [Sessions -> BOOLEAN]
    /\ finSent \in [Sessions -> BOOLEAN]
    /\ age \in Seq(Sessions)
    /\ pump \in [Sessions -> {"run", "ready", "kick"}]
    /\ txReady \subseteq Sessions
    /\ firstReply \subseteq Sessions
    /\ ctrl \in [Clients -> 0..MaxCtrl]
    /\ activity \in [Clients -> Nat]
    /\ token \subseteq Nat
    /\ pc \in [Handlers -> HandlerStates]
    /\ client \in [Handlers -> Clients \cup {NoClient}]
    /\ chan \in [Handlers -> Nat]
    /\ late \in [Handlers -> BOOLEAN]
    /\ from \in [Handlers -> SUBSET Sessions]
    /\ out \in [Handlers -> Nat]
    /\ bytes \in [Handlers -> Nat]

\* A session of the table with something to send is in txReady, or its OnTx
\* callback is about to put it there.  drainAll must leave a session it has
\* drained in part where a later poll finds it, FIN included.
NoStrandedSession ==
    \A s \in InTable : HasPendingTx(s) => s \in txReady \/ pump[s] = "ready"

\* A response carries frames of the polling client's sessions only, over all
\* the drains of its coalesce window.
ClientIsolation ==
    \A h \in Handlers : \A s \in from[h] : Owner[s] = client[h]

\* An RST (or the version answer) never waits for a later poll: whenever one
\* is queued, a request of that client is on its way to its first drain.
RstFlushedAtOnce ==
    \A c \in Clients :
        ctrl[c] > 0 => \E h \in Handlers : client[h] = c
                                           /\ pc[h] \in {"ctrlKick", "capture", "drain"}

\* The byte budget holds over all the drains of one response, but for what the
\* last session drained adds: up to maxDrainFramesPerSession frames.
ResponseBytesBounded ==
    \A h \in Handlers : bytes[h] < Budget + PerSession

\* A session collected as done has nothing left to send.
CollectedHasNothingPending ==
    [][\A s \in Sessions :
        (s \in InTable /\ table'[s] = "out" /\ handlers' # handlers)
            => ~HasPendingTx(s)]_vars

\* A session queued before s gets more before it was drained empty, and so keeps
\* its place in front of s.
RefilledAhead(s) ==
    \E r \in Sessions :
        /\ UpstreamRead(r)
        /\ \E i, j \in 1..Len(age) : i < j /\ age[i] = r /\ age[j] = s

\* What a session has queued is taken into a response for a client that keeps
\* polling, whatever wake-ups its polls miss and however full the batches are:
\* only sessions that were queued before it and are refilled for ever before
\* they are empty can keep it out.  The order by queue age, "to ensure fairness"
\* in drainAll's comment, does no more than that.
PendingIsServed ==
    \A s \in Sessions :
        \/ []<><<RefilledAhead(s)>>_vars
        \/ (s \in InTable /\ HasPendingTx(s))
               ~> (s \notin InTable \/ \E h \in Handlers : s \in from[h])

=============================================================================
