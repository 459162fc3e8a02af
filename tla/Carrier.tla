------------------------------- MODULE Carrier -------------------------------
(***************************************************************************)
(* The client's poll scheduler (internal/carrier/client.go): the session   *)
(* table, the txReady and inFlight sets, the poll workers with their       *)
(* failover attempts, idle-poll slots and wake-ups, and the collection of  *)
(* finished sessions.                                                      *)
(*                                                                         *)
(* A session's transmit half is reduced to what the scheduler tells apart: *)
(* whether a SYN is due, how many payload frames wait, whether a FIN is    *)
(* due (module SessionTx has the rest).  Each action is one critical       *)
(* section of c.mu, or one event of a worker between two of them; the      *)
(* OnTx callback is two steps, the update of txReady and the kick, because *)
(* the code releases the mutex in between.                                 *)
(***************************************************************************)
EXTENDS Naturals, Sequences, FiniteSets, Functions

CONSTANTS
    Sessions,      \* identifiers NewSession may draw; they are never reused
    Workers,       \* poll workers
    MaxData,       \* bound: payload frames waiting in one session
    PerSession,    \* maxDrainFramesPerSession
    BatchCap,      \* maxDrainFramesPerBatch
    BatchCapBusy,  \* maxDrainFramesPerBatchBusy
    BusySessions,  \* busySessionThreshold
    IdleSlots,     \* bucketCount * idleSlotsPerBucket
    IdleFloor,     \* pureDownloadIdleCap
    MaxAttempts,   \* 1, or 2 with more than one endpoint
    MaxReply,      \* bound: frames in one response
    Coalesce       \* kicks go through the coalesce timer

ASSUME WorkersAssumption == IsFiniteSet(Workers)
ASSUME BoundAssumption   == MaxData \in Nat /\ MaxReply \in Nat
ASSUME CapAssumption     == /\ PerSession \in Nat \ {0}
                            /\ BatchCap \in Nat \ {0}
                            /\ BatchCapBusy \in Nat \ {0}
                            /\ BusySessions \in Nat
ASSUME IdleAssumption    == IdleSlots \in Nat \ {0} /\ IdleFloor \in Nat
ASSUME AttemptAssumption == MaxAttempts \in {1, 2}
ASSUME KickAssumption    == Coalesce \in BOOLEAN

VARIABLES
    \* sessions
    table,      \* per session: "none" before NewSession, "in" the table, "out"
    syn,        \* SYN due
    data,       \* payload frames waiting
    closeReq,   \* close requested
    finSent,    \* FIN drained
    finOld,     \* sessionFinalTimeout has passed since
    rx,         \* receive half: "open", a "fin" is on its way to deliverRx, "closed"
    age,        \* sessions with a queue timestamp, oldest first
    app,        \* goroutine using the session: "idle", or inside OnTx: "ready"
                \*   before the update of txReady, "kick" after it
    \* Client
    txReady, inFlight, idlePolls,
    timer,      \* the coalesce timer is armed
    \* workers
    pc,         \* "drain", "cap", "slot", "post", "route", "rstReady", "rstKick",
                \*   "rstDelete", "release", "gc", "sleep"
    batch,      \* frames drained per session
    cap,        \* the idle cap the worker has read
    slot,       \* holds an idle-poll slot
    attempt,    \* number of the POST
    worked,     \* pollOnce's result
    reply       \* response frames still to be routed, each <<session, kind>>

sess    == <<table, syn, data, closeReq, finSent, finOld, rx, age>>
client  == <<txReady, inFlight, idlePolls, timer>>
workers == <<pc, batch, cap, slot, attempt, worked, reply>>
vars    == <<sess, app, client, workers>>

NoBatch == [s \in Sessions |-> 0]

Init ==
    /\ table = [s \in Sessions |-> "none"]
    /\ syn = [s \in Sessions |-> FALSE]
    /\ data = [s \in Sessions |-> 0]
    /\ closeReq = [s \in Sessions |-> FALSE]
    /\ finSent = [s \in Sessions |-> FALSE]
    /\ finOld = [s \in Sessions |-> FALSE]
    /\ rx = [s \in Sessions |-> "open"]
    /\ age = <<>>
    /\ app = [s \in Sessions |-> "idle"]
    /\ txReady = {}
    /\ inFlight = {}
    /\ idlePolls = 0
    /\ timer = FALSE
    /\ pc = [w \in Workers |-> "drain"]
    /\ batch = [w \in Workers |-> NoBatch]
    /\ cap = [w \in Workers |-> 0]
    /\ slot = [w \in Workers |-> FALSE]
    /\ attempt = [w \in Workers |-> 1]
    /\ worked = [w \in Workers |-> FALSE]
    /\ reply = [w \in Workers |-> <<>>]

InTable == {s \in Sessions : table[s] = "in"}

FinDue(s) == closeReq[s] /\ ~finSent[s]

HasPendingTx(s) == syn[s] \/ data[s] > 0 \/ FinDue(s)

\* firstQueuedAt is set unless it was already.
Queued(s) == IF s \in Range(age) THEN age ELSE Append(age, s)

\* waker.Broadcast: every worker waiting on the current channel goes on.
Broadcast == [w \in Workers |-> IF pc[w] = "sleep" THEN "drain" ELSE pc[w]]

-----------------------------------------------------------------------------
(* The SOCKS side. *)

\* NewSession: registered, ready for its SYN, and about to kick.
NewSession(s) ==
    /\ table[s] = "none"
    /\ table' = [table EXCEPT ![s] = "in"]
    /\ syn' = [syn EXCEPT ![s] = TRUE]
    /\ age' = Queued(s)
    /\ txReady' = txReady \cup {s}
    /\ app' = [app EXCEPT ![s] = "kick"]
    /\ UNCHANGED <<data, closeReq, finSent, finOld, rx, inFlight, idlePolls, timer,
                   workers>>

\* VirtualConn.Write: accepted before the SYN is out, or while not closed.
Write(s) ==
    /\ table[s] # "none"
    /\ app[s] = "idle"
    /\ syn[s] \/ ~closeReq[s]
    /\ data[s] < MaxData
    /\ data' = [data EXCEPT ![s] = @ + 1]
    /\ age' = Queued(s)
    /\ app' = [app EXCEPT ![s] = "ready"]
    /\ UNCHANGED <<table, syn, closeReq, finSent, finOld, rx, client, workers>>

\* VirtualConn.Close, which may be called again.
Close(s) ==
    /\ table[s] # "none"
    /\ app[s] = "idle"
    /\ closeReq' = [closeReq EXCEPT ![s] = TRUE]
    /\ age' = Queued(s)
    /\ app' = [app EXCEPT ![s] = "ready"]
    /\ UNCHANGED <<table, syn, data, finSent, finOld, rx, client, workers>>

\* Mutant: the callback only kicks.
OnTxReadyKickOnly(s) ==
    /\ app[s] = "ready"
    /\ app' = [app EXCEPT ![s] = "kick"]
    /\ UNCHANGED <<sess, client, workers>>

\* The OnTx closure of NewSession: the table's mutex, then the kick.
OnTxReady(s) ==
    /\ app[s] = "ready"
    /\ txReady' = txReady \cup {s}
    /\ app' = [app EXCEPT ![s] = "kick"]
    /\ UNCHANGED <<sess, inFlight, idlePolls, timer, workers>>

OnTxKick(s) ==
    /\ app[s] = "kick"
    /\ timer' = (timer \/ Coalesce)
    /\ pc' = IF Coalesce THEN pc ELSE Broadcast
    /\ app' = [app EXCEPT ![s] = "idle"]
    /\ UNCHANGED <<sess, txReady, inFlight, idlePolls, batch, cap, slot, attempt,
                   worked, reply>>

\* The coalesce timer fires.
FireCoalesceWake ==
    /\ timer
    /\ timer' = FALSE
    /\ pc' = Broadcast
    /\ UNCHANGED <<sess, app, txReady, inFlight, idlePolls, batch, cap, slot, attempt,
                   worked, reply>>

\* rxLoop gets to the FIN and closes the receive half.
DeliverFin(s) ==
    /\ rx[s] = "fin"
    /\ rx' = [rx EXCEPT ![s] = "closed"]
    /\ UNCHANGED <<table, syn, data, closeReq, finSent, finOld, age, app, client,
                   workers>>

\* Time passes: sessionFinalTimeout since our FIN.
FinTimeout(s) ==
    /\ finSent[s]
    /\ ~finOld[s]
    /\ finOld' = [finOld EXCEPT ![s] = TRUE]
    /\ UNCHANGED <<table, syn, data, closeReq, finSent, rx, age, app, client, workers>>

-----------------------------------------------------------------------------
(* drainAll: one critical section. *)

MinOf(a, b) == IF a <= b THEN a ELSE b
MaxOf(a, b) == IF a >= b THEN a ELSE b

\* Frames with a SYN or payload; the first payload rides on the SYN.
DataFrames(s) == IF syn[s] THEN MaxOf(1, data[s]) ELSE data[s]

Frames(s) == DataFrames(s) + (IF FinDue(s) THEN 1 ELSE 0)

FrameCap == IF Cardinality(InTable) >= BusySessions THEN BatchCapBusy ELSE BatchCap

\* Mutant: no inFlight check.
DrainableInFlight == txReady \cap InTable

\* A session in flight is left alone until its batch is back.
Drainable == (txReady \cap InTable) \ inFlight

\* Sorted by queue age; the zero time comes first.
Older(r, s) ==
    /\ s \in Range(age)
    /\ r \in Range(age) => \E i, j \in 1..Len(age) : i < j /\ age[i] = r /\ age[j] = s

\* Two passes: the sessions with a SYN, then the others.
Earlier(r, s) == IF syn[r] = syn[s] THEN Older(r, s) ELSE syn[r]

\* Room in the batch when session s has its turn and the sessions before it
\* gave the frames d.
Room(d, s) == FrameCap - SumFunctionOnSet(d, {r \in Drainable : Earlier(r, s)})

\* The frames the two passes take from each session.
IsDrain(d) ==
    \A s \in Sessions :
        d[s] = IF s \in Drainable
               THEN MinOf(MinOf(Frames(s), PerSession), Room(d, s))
               ELSE 0

\* Mutant: a session leaves txReady even when the batch was full.
VisitedAll(d) == Drainable

\* Sessions that had their turn: they leave txReady, also without a frame.
Visited(d) == {s \in Drainable : Room(d, s) > 0}

\* Mutant: ids of removed sessions are kept.
StillReadyStale(d) == txReady \ Visited(d)

\* Ids of removed sessions go too.
StillReady(d) == (txReady \cap InTable) \ Visited(d)

DrainAll(w) ==
    \E d \in [Sessions -> 0..PerSession] :
        LET sent == {s \in Sessions : d[s] > 0}
            queued(s) == s \notin Visited(d) \/ d[s] < Frames(s)
        IN  /\ pc[w] = "drain"
            /\ IsDrain(d)
            /\ batch' = [batch EXCEPT ![w] = d]
            /\ syn' = [s \in Sessions |-> syn[s] /\ s \notin sent]
            /\ data' = [s \in Sessions |-> data[s] - MinOf(data[s], d[s])]
            /\ finSent' = [s \in Sessions |-> finSent[s] \/ d[s] > DataFrames(s)]
            /\ age' = SelectSeq(age, queued)
            /\ txReady' = StillReady(d)
            /\ inFlight' = inFlight \cup sent
            /\ pc' = [pc EXCEPT ![w] = IF sent # {} THEN "post" ELSE "cap"]
            /\ UNCHANGED <<table, closeReq, finOld, rx, app, idlePolls, timer, cap, slot,
                           attempt, worked, reply>>

-----------------------------------------------------------------------------
(* The rest of pollOnce. *)

\* Nothing to send: the poll needs an idle slot.  The cap is read under c.mu,
\* the slot is taken under idlePollMu.
ReadIdleCap(w) ==
    /\ pc[w] = "cap"
    /\ cap' = [cap EXCEPT ![w] = IF txReady = {} THEN MaxOf(IdleSlots, IdleFloor)
                                 ELSE IdleSlots]
    /\ pc' = [pc EXCEPT ![w] = "slot"]
    /\ UNCHANGED <<sess, app, client, batch, slot, attempt, worked, reply>>

\* Mutant: one slot too many.
AcquireIdlePollSlotOver(w) ==
    /\ pc[w] = "slot"
    /\ idlePolls <= cap[w]
    /\ idlePolls' = idlePolls + 1
    /\ slot' = [slot EXCEPT ![w] = TRUE]
    /\ cap' = [cap EXCEPT ![w] = 0]
    /\ pc' = [pc EXCEPT ![w] = "post"]
    /\ UNCHANGED <<sess, app, txReady, inFlight, timer, batch, attempt, worked, reply>>

AcquireIdlePollSlot(w) ==
    /\ pc[w] = "slot"
    /\ idlePolls < cap[w]
    /\ idlePolls' = idlePolls + 1
    /\ slot' = [slot EXCEPT ![w] = TRUE]
    /\ cap' = [cap EXCEPT ![w] = 0]
    /\ pc' = [pc EXCEPT ![w] = "post"]
    /\ UNCHANGED <<sess, app, txReady, inFlight, timer, batch, attempt, worked, reply>>

NoIdlePollSlot(w) ==
    /\ pc[w] = "slot"
    /\ idlePolls >= cap[w]
    /\ cap' = [cap EXCEPT ![w] = 0]
    /\ pc' = [pc EXCEPT ![w] = "gc"]
    /\ UNCHANGED <<sess, app, client, batch, slot, attempt, worked, reply>>

Ids(w) == {s \in Sessions : batch[w][s] > 0}

\* A POST that fails: refused, cut off, a bad status, an oversized or foreign
\* body; whether the batch has reached the server is unknown.
PostRetry(w) ==
    /\ pc[w] = "post"
    /\ attempt[w] < MaxAttempts
    /\ attempt' = [attempt EXCEPT ![w] = @ + 1]
    /\ UNCHANGED <<sess, app, client, pc, batch, cap, slot, worked, reply>>

\* The last attempt fails: some failures count as work when frames were sent.
\* The drained frames are not put back.
PostFails(w) ==
    /\ pc[w] = "post"
    /\ attempt[w] = MaxAttempts
    /\ \E r \in {FALSE, Ids(w) # {}} : worked' = [worked EXCEPT ![w] = r]
    /\ pc' = [pc EXCEPT ![w] = "release"]
    /\ UNCHANGED <<sess, app, client, batch, cap, slot, attempt, reply>>

\* A good response, with the frames fs.
PostOK(w, fs) ==
    /\ pc[w] = "post"
    /\ worked' = [worked EXCEPT ![w] = Ids(w) # {} \/ fs # <<>>]
    /\ reply' = [reply EXCEPT ![w] = fs]
    /\ pc' = [pc EXCEPT ![w] = IF fs = <<>> THEN "release" ELSE "route"]
    /\ UNCHANGED <<sess, app, client, batch, cap, slot, attempt>>

\* Where a worker goes with the frames fs left to route.
Routing(fs) == IF fs = <<>> THEN "release" ELSE "route"

\* routeRx for payload, a FIN, or a session that is not in the table.
RouteRx(w) ==
    LET s == Head(reply[w])[1]
        kind == Head(reply[w])[2]
    IN  /\ pc[w] = "route"
        /\ table[s] # "in" \/ kind # "rst"
        /\ rx' = [rx EXCEPT ![s] = IF table[s] = "in" /\ kind = "fin" /\ @ = "open"
                                   THEN "fin" ELSE @]
        /\ reply' = [reply EXCEPT ![w] = Tail(@)]
        /\ pc' = [pc EXCEPT ![w] = Routing(Tail(reply[w]))]
        /\ UNCHANGED <<table, syn, data, closeReq, finSent, finOld, age, app, client,
                       batch, cap, slot, attempt, worked>>

\* routeRx for an RST: CloseRx and RequestClose, whose OnTx callback adds the
\* session to txReady and kicks; then the session leaves the table.
RouteRst(w) ==
    LET s == Head(reply[w])[1]
    IN  /\ pc[w] = "route"
        /\ table[s] = "in"
        /\ Head(reply[w])[2] = "rst"
        /\ rx' = [rx EXCEPT ![s] = "closed"]
        /\ closeReq' = [closeReq EXCEPT ![s] = TRUE]
        /\ age' = Queued(s)
        /\ pc' = [pc EXCEPT ![w] = "rstReady"]
        /\ UNCHANGED <<table, syn, data, finSent, finOld, app, client, batch, cap, slot,
                       attempt, worked, reply>>

RstReady(w) ==
    /\ pc[w] = "rstReady"
    /\ txReady' = txReady \cup {Head(reply[w])[1]}
    /\ pc' = [pc EXCEPT ![w] = "rstKick"]
    /\ UNCHANGED <<sess, app, inFlight, idlePolls, timer, batch, cap, slot, attempt,
                   worked, reply>>

RstKick(w) ==
    /\ pc[w] = "rstKick"
    /\ timer' = (timer \/ Coalesce)
    /\ pc' = [IF Coalesce THEN pc ELSE Broadcast EXCEPT ![w] = "rstDelete"]
    /\ UNCHANGED <<sess, app, txReady, inFlight, idlePolls, batch, cap, slot, attempt,
                   worked, reply>>

RstDelete(w) ==
    LET s == Head(reply[w])[1]
    IN  /\ pc[w] = "rstDelete"
        /\ table' = [table EXCEPT ![s] = "out"]
        /\ txReady' = txReady \ {s}
        /\ reply' = [reply EXCEPT ![w] = Tail(@)]
        /\ pc' = [pc EXCEPT ![w] = Routing(Tail(reply[w]))]
        /\ UNCHANGED <<syn, data, closeReq, finSent, finOld, rx, age, app, inFlight,
                       idlePolls, timer, batch, cap, slot, attempt, worked>>

\* releaseInFlight, or releaseIdlePollSlot: pollOnce's deferred call.
Release(w) ==
    /\ pc[w] = "release"
    /\ inFlight' = inFlight \ Ids(w)
    /\ txReady' = txReady \cup {s \in Ids(w) \cap InTable : HasPendingTx(s)}
    /\ idlePolls' = IF slot[w] THEN idlePolls - 1 ELSE idlePolls
    /\ slot' = [slot EXCEPT ![w] = FALSE]
    /\ batch' = [batch EXCEPT ![w] = NoBatch]
    /\ attempt' = [attempt EXCEPT ![w] = 1]
    /\ pc' = [pc EXCEPT ![w] = "gc"]
    /\ UNCHANGED <<sess, app, timer, cap, worked, reply>>

-----------------------------------------------------------------------------
(* runWorker. *)

\* Mutants: collected once closed; no sessionFinalTimeout.
IsDoneClosed(s) == closeReq[s]
IsDoneNoTimeout(s) == finSent[s] /\ rx[s] = "closed"

IsDone(s) == finSent[s] /\ (rx[s] = "closed" \/ finOld[s])

\* gcDoneSessions; then poll again at once after work, else wait for a wake.
GcDoneSessions(w) ==
    /\ pc[w] = "gc"
    /\ table' = [s \in Sessions |-> IF s \in InTable /\ IsDone(s) THEN "out"
                                    ELSE table[s]]
    /\ txReady' = txReady \ {s \in InTable : IsDone(s)}
    /\ pc' = [pc EXCEPT ![w] = IF worked[w] THEN "drain" ELSE "sleep"]
    /\ worked' = [worked EXCEPT ![w] = FALSE]
    /\ UNCHANGED <<syn, data, closeReq, finSent, finOld, rx, age, app, inFlight,
                   idlePolls, timer, batch, cap, slot, attempt, reply>>

\* The idleBackoff timer.
SleepTimeout(w) ==
    /\ pc[w] = "sleep"
    /\ pc' = [pc EXCEPT ![w] = "drain"]
    /\ UNCHANGED <<sess, app, client, batch, cap, slot, attempt, worked, reply>>

-----------------------------------------------------------------------------
\* Frames for sessions the client has opened; some may be gone by now.
ReplyFrames == {s \in Sessions : table[s] # "none"} \X {"data", "fin", "rst"}

Replies == UNION {[1..n -> ReplyFrames] : n \in 0..MaxReply}

PostEnds(w) ==
    \/ PostRetry(w)
    \/ PostFails(w)
    \/ \E fs \in Replies : PostOK(w, fs)

WorkerStep(w) ==
    \/ DrainAll(w)
    \/ ReadIdleCap(w)
    \/ AcquireIdlePollSlot(w)
    \/ NoIdlePollSlot(w)
    \/ PostEnds(w)
    \/ RouteRx(w)
    \/ RouteRst(w)
    \/ RstReady(w)
    \/ RstKick(w)
    \/ RstDelete(w)
    \/ Release(w)
    \/ GcDoneSessions(w)
    \/ SleepTimeout(w)

OnTx(s) == OnTxReady(s) \/ OnTxKick(s)

Next ==
    \/ \E s \in Sessions : NewSession(s) \/ Write(s) \/ Close(s)
    \/ \E s \in Sessions : OnTx(s)
    \/ \E s \in Sessions : DeliverFin(s)
    \/ \E s \in Sessions : FinTimeout(s)
    \/ FireCoalesceWake
    \/ \E w \in Workers : WorkerStep(w)

Spec == Init /\ [][Next]_vars

\* Goroutines run, a POST ends (the HTTP client has a timeout), timers fire.
\* Nobody has to open, write to or close a session.
Fairness ==
    /\ \A w \in Workers : WF_vars(WorkerStep(w))
    /\ \A s \in Sessions : /\ WF_vars(OnTx(s))
                           /\ WF_vars(DeliverFin(s))
                           /\ WF_vars(FinTimeout(s))
    /\ WF_vars(FireCoalesceWake)

FairSpec == Spec /\ Fairness

-----------------------------------------------------------------------------
(* Properties. *)

WorkerStates == {"drain", "cap", "slot", "post", "route", "rstReady", "rstKick",
                 "rstDelete", "release", "gc", "sleep"}

\* Every variable of the scheduler keeps its type.
TypeOK ==
    /\ table \in [Sessions -> {"none", "in", "out"}]
    /\ syn \in [Sessions -> BOOLEAN]
    /\ data \in [Sessions -> Nat]
    /\ closeReq \in [Sessions -> BOOLEAN]
    /\ finSent \in [Sessions -> BOOLEAN]
    /\ finOld \in [Sessions -> BOOLEAN]
    /\ rx \in [Sessions -> {"open", "fin", "closed"}]
    /\ app \in [Sessions -> {"idle", "ready", "kick"}]
    /\ txReady \subseteq Sessions
    /\ inFlight \subseteq Sessions
    /\ idlePolls \in Int
    /\ timer \in BOOLEAN
    /\ pc \in [Workers -> WorkerStates]
    /\ batch \in [Workers -> [Sessions -> Nat]]
    /\ cap \in [Workers -> Nat]
    /\ slot \in [Workers -> BOOLEAN]
    /\ attempt \in [Workers -> Nat]
    /\ worked \in [Workers -> BOOLEAN]
    /\ reply \in [Workers -> Seq(Sessions \X {"data", "fin", "rst"})]

\* Workers that are about to remove session s on an RST.
Resetting(s) ==
    {w \in Workers : pc[w] \in {"rstReady", "rstKick", "rstDelete"}
                     /\ Head(reply[w])[1] = s}

\* A session of the table with something to send is always one that a later
\* drainAll finds: ready, in flight (its release puts it back), or with an
\* OnTx callback or an RST removal under way.  drainAll deletes a session from
\* txReady after a partial drain and relies on this.
NoStrandedSession ==
    \A s \in InTable :
        HasPendingTx(s) =>
            \/ s \in txReady \cup inFlight
            \/ app[s] = "ready"
            \/ Resetting(s) # {}

\* At most one POST at a time carries frames of a session, over all the
\* workers and their failover attempts, and inFlight is exactly the sessions
\* of those batches: two batches of one session cannot overtake each other,
\* and no session is locked out after its worker has returned.
InFlightExclusive ==
    /\ inFlight = UNION {Ids(w) : w \in Workers}
    /\ \A v, w \in Workers : v # w => Ids(v) \cap Ids(w) = {}

\* The counter of standing idle polls is the number of workers that hold a
\* slot, on every return path of pollOnce, and stays under the larger cap.
IdlePollsCounted ==
    /\ idlePolls = Cardinality({w \in Workers : slot[w]})
    /\ idlePolls <= MaxOf(IdleSlots, IdleFloor)
    /\ \A w \in Workers : slot[w] => Ids(w) = {}

\* A session collected as done has nothing left to send: FIN is out, and was
\* the last thing to go.
CollectedHasNothingPending ==
    [][\A s \in Sessions :
        (table[s] = "in" /\ table'[s] = "out" /\ Resetting(s) = {}) => ~HasPendingTx(s)]_vars

\* An id that a late OnTx left in txReady after its session was removed is
\* dropped by a later drainAll, so that it cannot hold down the idle cap.
StaleReadyCleaned ==
    \A s \in Sessions : (s \in txReady /\ table[s] = "out") ~> (s \notin txReady)

\* With room in the batch for all, what a session has queued is sent or the
\* session goes away: no wake-up, release or collection loses it.
PendingIsSent ==
    \A s \in Sessions :
        (table[s] = "in" /\ HasPendingTx(s)) ~> (s \in inFlight \/ table[s] = "out")

\* A closed session leaves the table, whether or not the server answers.
ClosedLeaves ==
    \A s \in Sessions : (table[s] = "in" /\ closeReq[s]) ~> (table[s] = "out")

=============================================================================
