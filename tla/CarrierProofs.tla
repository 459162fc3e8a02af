---------------------------- MODULE CarrierProofs ----------------------------
(***************************************************************************)
(* Proofs about Carrier, for every set of sessions, finite set of workers, *)
(* cap and number of attempts.                                             *)
(***************************************************************************)
EXTENDS Carrier, FiniteSetTheorems, SequenceTheorems, TLAPS

Response == Seq(Sessions \X {"data", "fin", "rst"})

\* A worker in one of these states has a response frame in its hands.
RoutingStates == {"route", "rstReady", "rstKick", "rstDelete"}

\* The types, and what the proofs need beside them.  The queue order (age) plays
\* no part: whatever order drainAll serves the sessions in, the results hold.
SchedType ==
    /\ TypeOK
    /\ \A w \in Workers : pc[w] \in RoutingStates => reply[w] # <<>>

\* A response is a sequence of frames.
LEMMA ReplyType ==
    ASSUME NEW fs \in Replies
    PROVE  fs \in Response
  BY DEF Replies, ReplyFrames, Response

\* The frame a worker routes, and the ones behind it.
LEMMA HeadOfReply ==
    ASSUME NEW fs \in Response, fs # <<>>
    PROVE  Head(fs)[1] \in Sessions /\ Tail(fs) \in Response
<1>1. Head(fs) \in Sessions \X {"data", "fin", "rst"} /\ Tail(fs) \in Response
  BY HeadTailProperties DEF Response
<1> QED
  BY <1>1

\* Every step keeps the types.
LEMMA SchedTypeStep == SchedType /\ [Next]_vars => SchedType'
<1> SUFFICES ASSUME SchedType, [Next]_vars PROVE SchedType'
  OBVIOUS
<1> USE DEF SchedType, TypeOK, Response, WorkerStates, RoutingStates
<1>1. ASSUME NEW s \in Sessions, NewSession(s) PROVE SchedType'
  BY <1>1 DEF NewSession, workers
<1>2. ASSUME NEW s \in Sessions, Write(s) PROVE SchedType'
  BY <1>2 DEF Write, client, workers
<1>3. ASSUME NEW s \in Sessions, Close(s) PROVE SchedType'
  BY <1>3 DEF Close, client, workers
<1>4. ASSUME NEW s \in Sessions, OnTxReady(s) PROVE SchedType'
  BY <1>4 DEF OnTxReady, sess, workers
<1>5. ASSUME NEW s \in Sessions, OnTxKick(s) PROVE SchedType'
  BY <1>5 DEF OnTxKick, Broadcast, sess
<1>6. ASSUME NEW s \in Sessions, DeliverFin(s) \/ FinTimeout(s) PROVE SchedType'
  BY <1>6 DEF DeliverFin, FinTimeout, client, workers
<1>7. CASE FireCoalesceWake
  BY <1>7 DEF FireCoalesceWake, Broadcast, sess
<1>8. ASSUME NEW w \in Workers, DrainAll(w) PROVE SchedType'
  <2>1. PICK d \in [Sessions -> 0..PerSession] :
            /\ batch' = [batch EXCEPT ![w] = d]
            /\ syn' = [s \in Sessions |-> syn[s] /\ s \notin {r \in Sessions : d[r] > 0}]
            /\ data' = [s \in Sessions |-> data[s] - MinOf(data[s], d[s])]
            /\ finSent' = [s \in Sessions |-> finSent[s] \/ d[s] > DataFrames(s)]
            /\ txReady' = StillReady(d)
            /\ inFlight' = inFlight \cup {r \in Sessions : d[r] > 0}
            /\ pc' = [pc EXCEPT ![w] =
                        IF {r \in Sessions : d[r] > 0} # {} THEN "post" ELSE "cap"]
            /\ UNCHANGED <<table, closeReq, finOld, rx, app, idlePolls, timer, cap,
                           slot, attempt, worked, reply>>
    BY <1>8 DEF DrainAll
  <2>2. d \in [Sessions -> Nat]
    BY CapAssumption
  <2>3. \A s \in Sessions : data[s] - MinOf(data[s], d[s]) \in Nat
    BY <2>2 DEF MinOf
  <2>4. data' \in [Sessions -> Nat]
    BY <2>1, <2>3
  <2>5. syn' \in [Sessions -> BOOLEAN]
    BY <2>1
  <2>6. finSent' \in [Sessions -> BOOLEAN]
    BY <2>1, Zenon
  <2>7. txReady' \subseteq Sessions
    BY <2>1 DEF StillReady
  <2>8. batch' \in [Workers -> [Sessions -> Nat]]
    BY <2>1, <2>2
  <2>9. pc' \in [Workers -> WorkerStates]
    BY <2>1
  <2>10. \A v \in Workers : pc'[v] \in RoutingStates => reply'[v] # <<>>
    BY <2>1
  <2> QED
    BY <2>1, <2>4, <2>5, <2>6, <2>7, <2>8, <2>9, <2>10
<1>9. ASSUME NEW w \in Workers, ReadIdleCap(w) PROVE SchedType'
  BY <1>9, IdleAssumption DEF ReadIdleCap, MaxOf, sess, client
<1>10. ASSUME NEW w \in Workers, AcquireIdlePollSlot(w) PROVE SchedType'
  BY <1>10 DEF AcquireIdlePollSlot, sess
<1>11. ASSUME NEW w \in Workers, NoIdlePollSlot(w) PROVE SchedType'
  BY <1>11 DEF NoIdlePollSlot, sess, client
<1>12. ASSUME NEW w \in Workers, PostEnds(w) PROVE SchedType'
  <2>1. CASE PostRetry(w)
    BY <2>1 DEF PostRetry, sess, client
  <2>3. CASE PostFails(w)
    <3>1. PICK r \in {FALSE, Ids(w) # {}} : worked' = [worked EXCEPT ![w] = r]
      BY <2>3 DEF PostFails
    <3>2. r \in BOOLEAN
      BY <3>1, Zenon
    <3>3. worked' \in [Workers -> BOOLEAN]
      BY <3>1, <3>2
    <3> QED
      BY <2>3, <3>3 DEF PostFails, sess, client
  <2>2. ASSUME NEW fs \in Replies, PostOK(w, fs) PROVE SchedType'
    <3>1. fs \in Response
      BY ReplyType
    <3>2. worked' \in [Workers -> BOOLEAN]
      BY <2>2 DEF PostOK
    <3> QED
      BY <2>2, <3>1, <3>2 DEF PostOK, sess, client
  <2> QED
    BY <1>12, <2>1, <2>2, <2>3 DEF PostEnds
<1>13. ASSUME NEW w \in Workers, pc[w] \in RoutingStates
       PROVE  Head(reply[w])[1] \in Sessions /\ Tail(reply[w]) \in Response
  BY <1>13, HeadOfReply
<1>14. ASSUME NEW w \in Workers, RouteRx(w) \/ RouteRst(w) PROVE SchedType'
  <2>1. CASE RouteRx(w)
    BY <1>13, <2>1 DEF RouteRx, Routing, client
  <2>2. CASE RouteRst(w)
    BY <2>2 DEF RouteRst, client
  <2> QED
    BY <1>14, <2>1, <2>2
<1>15. ASSUME NEW w \in Workers, RstReady(w) \/ RstKick(w) \/ RstDelete(w)
       PROVE  SchedType'
  <2>1. CASE RstReady(w)
    BY <1>13, <2>1 DEF RstReady, sess
  <2>2. CASE RstKick(w)
    BY <2>2 DEF RstKick, Broadcast, sess
  <2>3. CASE RstDelete(w)
    BY <1>13, <2>3 DEF RstDelete, Routing
  <2> QED
    BY <1>15, <2>1, <2>2, <2>3
<1>16. ASSUME NEW w \in Workers, Release(w) PROVE SchedType'
  BY <1>16 DEF Release, NoBatch, InTable, sess
<1>17. ASSUME NEW w \in Workers, GcDoneSessions(w) PROVE SchedType'
  BY <1>17 DEF GcDoneSessions
<1>18. ASSUME NEW w \in Workers, SleepTimeout(w) PROVE SchedType'
  BY <1>18 DEF SleepTimeout, sess, client
<1>19. CASE UNCHANGED vars
  BY <1>19 DEF vars, sess, client, workers
<1> QED
  BY <1>1, <1>2, <1>3, <1>4, <1>5, <1>6, <1>7, <1>8, <1>9, <1>10, <1>11, <1>12,
     <1>14, <1>15, <1>16, <1>17, <1>18, <1>19
  DEF Next, OnTx, WorkerStep


\* The initial state has the types.
LEMMA SchedTypeInit == Init => SchedType
<1> SUFFICES ASSUME Init PROVE SchedType
  OBVIOUS
<1>1. reply \in [Workers -> Seq(Sessions \X {"data", "fin", "rst"})]
  BY EmptySeq DEF Init
<1>2. batch \in [Workers -> [Sessions -> Nat]]
  BY DEF Init, NoBatch
<1>3. /\ pc \in [Workers -> WorkerStates]
      /\ attempt \in [Workers -> Nat] /\ cap \in [Workers -> Nat]
      /\ data \in [Sessions -> Nat] /\ idlePolls \in Int
  BY DEF Init, WorkerStates
<1>4. TypeOK
  <2>1. /\ syn \in [Sessions -> BOOLEAN] /\ closeReq \in [Sessions -> BOOLEAN]
        /\ finSent \in [Sessions -> BOOLEAN] /\ finOld \in [Sessions -> BOOLEAN]
        /\ slot \in [Workers -> BOOLEAN] /\ worked \in [Workers -> BOOLEAN]
        /\ timer \in BOOLEAN
    BY Zenon DEF Init
  <2>2. /\ table \in [Sessions -> {"none", "in", "out"}]
        /\ rx \in [Sessions -> {"open", "fin", "closed"}]
        /\ app \in [Sessions -> {"idle", "ready", "kick"}]
        /\ txReady \subseteq Sessions /\ inFlight \subseteq Sessions
    BY DEF Init
  <2> QED
    BY <1>1, <1>2, <1>3, <2>1, <2>2 DEF TypeOK
<1> QED
  BY <1>4 DEF Init, SchedType, RoutingStates

\* Every variable of the scheduler keeps its type, for every set of sessions and
\* workers and every response.
THEOREM TypeCorrect == Spec => []TypeOK
<1>1. Spec => []SchedType
  BY SchedTypeInit, SchedTypeStep, PTL DEF Spec
<1>2. SchedType => TypeOK
  BY DEF SchedType
<1> QED
  BY <1>1, <1>2, PTL

-----------------------------------------------------------------------------
\* From drainAll's POST to the deferred release a worker may have a batch or an
\* idle slot in its hands.
BusyStates == {"post", "release"} \cup RoutingStates

\* The other workers have neither.
OthersHoldNothing ==
    \A w \in Workers : pc[w] \notin BusyStates => Ids(w) = {} /\ ~slot[w]

\* A step that neither drains nor releases leaves batches and inFlight alone, and
\* no worker with a batch gets past its release.
LEMMA BatchesKept ==
    ASSUME SchedType, [Next]_vars,
           \A w \in Workers : ~DrainAll(w) /\ ~Release(w)
    PROVE  /\ batch' = batch /\ inFlight' = inFlight
           /\ \A w \in Workers : pc[w] \in BusyStates => pc'[w] \in BusyStates
           /\ \A w \in Workers : slot'[w] => slot[w] \/ pc'[w] \in BusyStates
<1> DEFINE Kept == /\ batch' = batch /\ inFlight' = inFlight
                   /\ \A w \in Workers : pc[w] \in BusyStates => pc'[w] \in BusyStates
                   /\ \A w \in Workers : slot'[w] => slot[w] \/ pc'[w] \in BusyStates
<1> USE DEF SchedType, TypeOK, WorkerStates, BusyStates, RoutingStates
<1>1. ASSUME NEW s \in Sessions, NewSession(s) \/ Write(s) \/ Close(s) PROVE Kept
  BY <1>1 DEF NewSession, Write, Close, client, workers
<1>2. ASSUME NEW s \in Sessions, OnTx(s) PROVE Kept
  BY <1>2 DEF OnTx, OnTxReady, OnTxKick, Broadcast, workers
<1>3. ASSUME NEW s \in Sessions, DeliverFin(s) \/ FinTimeout(s) PROVE Kept
  BY <1>3 DEF DeliverFin, FinTimeout, client, workers
<1>4. CASE FireCoalesceWake
  BY <1>4 DEF FireCoalesceWake, Broadcast
<1>5. ASSUME NEW w \in Workers, ReadIdleCap(w) \/ NoIdlePollSlot(w) PROVE Kept
  BY <1>5 DEF ReadIdleCap, NoIdlePollSlot, client
<1>6. ASSUME NEW w \in Workers, AcquireIdlePollSlot(w) PROVE Kept
  BY <1>6 DEF AcquireIdlePollSlot
<1>7. ASSUME NEW w \in Workers, PostEnds(w) PROVE Kept
  BY <1>7 DEF PostEnds, PostRetry, PostFails, PostOK, client
<1>8. ASSUME NEW w \in Workers, RouteRx(w) \/ RouteRst(w) PROVE Kept
  BY <1>8 DEF RouteRx, RouteRst, Routing, client
<1>9. ASSUME NEW w \in Workers, RstReady(w) \/ RstKick(w) \/ RstDelete(w) PROVE Kept
  <2>1. CASE RstReady(w)
    BY <2>1 DEF RstReady
  <2>2. CASE RstKick(w)
    BY <2>2 DEF RstKick, Broadcast
  <2>3. CASE RstDelete(w)
    BY <2>3 DEF RstDelete, Routing
  <2> QED
    BY <1>9, <2>1, <2>2, <2>3
<1>10. ASSUME NEW w \in Workers, GcDoneSessions(w) \/ SleepTimeout(w) PROVE Kept
  BY <1>10 DEF GcDoneSessions, SleepTimeout, client
<1>11. CASE UNCHANGED vars
  BY <1>11 DEF vars, client, workers
<1> QED
  BY <1>1, <1>2, <1>3, <1>4, <1>5, <1>6, <1>7, <1>8, <1>9, <1>10, <1>11
  DEF Next, WorkerStep

\* What a drain takes, it takes from sessions that are ready and not in flight.
LEMMA DrainTakesFree ==
    ASSUME NEW d \in [Sessions -> 0..PerSession], IsDrain(d), NEW s \in Sessions, d[s] > 0
    PROVE  s \in Drainable
  BY DEF IsDrain

\* Every step keeps the flights exclusive.
LEMMA ExclusiveStep ==
    ASSUME SchedType, OthersHoldNothing, InFlightExclusive, [Next]_vars
    PROVE  OthersHoldNothing' /\ InFlightExclusive'
<1>1. ASSUME NEW w \in Workers, DrainAll(w)
      PROVE  OthersHoldNothing' /\ InFlightExclusive'
  <2>1. PICK d \in [Sessions -> 0..PerSession] :
            /\ pc[w] = "drain"
            /\ IsDrain(d)
            /\ batch' = [batch EXCEPT ![w] = d]
            /\ inFlight' = inFlight \cup {s \in Sessions : d[s] > 0}
            /\ pc' = [pc EXCEPT ![w] =
                        IF {s \in Sessions : d[s] > 0} # {} THEN "post" ELSE "cap"]
            /\ slot' = slot
    BY <1>1 DEF DrainAll
  <2> DEFINE D == {s \in Sessions : d[s] > 0}
  <2>2. Ids(w) = {} /\ ~slot[w]
    BY <2>1 DEF OthersHoldNothing, BusyStates, RoutingStates
  <2>3. D \cap inFlight = {}
    BY <2>1, DrainTakesFree DEF Drainable
  <2>4. \A v \in Workers : Ids(v)' = IF v = w THEN D ELSE Ids(v)
    BY <2>1 DEF Ids, SchedType, TypeOK
  <2>5. \A v \in Workers : pc'[v] = IF v = w THEN (IF D # {} THEN "post" ELSE "cap") ELSE pc[v]
    BY <2>1 DEF SchedType, TypeOK
  <2>6. inFlight' = inFlight \cup D /\ slot' = slot
    BY <2>1
  <2> HIDE DEF D
  <2>7. OthersHoldNothing'
    BY <2>2, <2>4, <2>5, <2>6 DEF OthersHoldNothing, BusyStates, RoutingStates
  <2>8. \A v \in Workers : Ids(v) \subseteq inFlight
    BY DEF InFlightExclusive
  <2>9. inFlight' = UNION {Ids(v)' : v \in Workers}
    <3>1. inFlight = UNION {Ids(v) : v \in Workers}
      BY DEF InFlightExclusive
    <3> HIDE DEF Ids
    <3> QED
      BY <2>2, <2>4, <2>6, <3>1
  <2>10. \A u, v \in Workers : u # v => Ids(u)' \cap Ids(v)' = {}
    BY <2>3, <2>4, <2>8 DEF InFlightExclusive
  <2> QED
    BY <2>7, <2>9, <2>10 DEF InFlightExclusive
<1>2. ASSUME NEW w \in Workers, Release(w)
      PROVE  OthersHoldNothing' /\ InFlightExclusive'
  <2>1. \A v \in Workers : Ids(v)' = IF v = w THEN {} ELSE Ids(v)
    BY <1>2 DEF Release, NoBatch, Ids, SchedType, TypeOK
  <2>2. inFlight' = inFlight \ Ids(w)
    BY <1>2 DEF Release
  <2>3. OthersHoldNothing'
    BY <1>2, <2>1 DEF Release, OthersHoldNothing, SchedType, TypeOK
  <2>4. \A v \in Workers : v # w => Ids(v) \cap Ids(w) = {}
    BY DEF InFlightExclusive
  <2>5. inFlight' = UNION {Ids(v)' : v \in Workers}
    BY <2>1, <2>2, <2>4 DEF InFlightExclusive
  <2>6. \A u, v \in Workers : u # v => Ids(u)' \cap Ids(v)' = {}
    BY <2>1 DEF InFlightExclusive
  <2> QED
    BY <2>3, <2>5, <2>6 DEF InFlightExclusive
<1>3. ASSUME \A w \in Workers : ~DrainAll(w) /\ ~Release(w)
      PROVE  OthersHoldNothing' /\ InFlightExclusive'
  <2>1. /\ batch' = batch /\ inFlight' = inFlight
        /\ \A w \in Workers : pc[w] \in BusyStates => pc'[w] \in BusyStates
        /\ \A w \in Workers : slot'[w] => slot[w] \/ pc'[w] \in BusyStates
    BY <1>3, BatchesKept
  <2> QED
    BY <2>1 DEF OthersHoldNothing, InFlightExclusive, Ids
<1> QED
  BY <1>1, <1>2, <1>3

\* At most one POST carries frames of a session, and inFlight is exactly what
\* the workers' batches hold: pollOnce's drains, retries and deferred releases
\* keep both, however many workers there are.
THEOREM ExclusiveFlights == Spec => []InFlightExclusive
<1>1. Init => SchedType /\ OthersHoldNothing /\ InFlightExclusive
  <2> SUFFICES ASSUME Init PROVE SchedType /\ OthersHoldNothing /\ InFlightExclusive
    OBVIOUS
  <2>1. \A w \in Workers : Ids(w) = {}
    BY DEF Init, Ids, NoBatch
  <2>2. OthersHoldNothing /\ InFlightExclusive
    BY <2>1 DEF Init, OthersHoldNothing, InFlightExclusive
  <2> QED
    BY <2>2, SchedTypeInit
<1>2. SchedType /\ OthersHoldNothing /\ InFlightExclusive /\ [Next]_vars
      => (SchedType /\ OthersHoldNothing /\ InFlightExclusive)'
  BY SchedTypeStep, ExclusiveStep
<1> QED
  BY <1>1, <1>2, PTL DEF Spec

-----------------------------------------------------------------------------
\* A session that a drain has left with something to send is either still in
\* txReady or in flight.
LEMMA DrainStrandsNobody ==
    ASSUME SchedType, NoStrandedSession, NEW w \in Workers, DrainAll(w)
    PROVE  NoStrandedSession'
<1>1. PICK d \in [Sessions -> 0..PerSession] :
          /\ pc[w] = "drain"
          /\ IsDrain(d)
          /\ syn' = [s \in Sessions |-> syn[s] /\ s \notin {r \in Sessions : d[r] > 0}]
          /\ data' = [s \in Sessions |-> data[s] - MinOf(data[s], d[s])]
          /\ finSent' = [s \in Sessions |-> finSent[s] \/ d[s] > DataFrames(s)]
          /\ txReady' = StillReady(d)
          /\ inFlight' = inFlight \cup {s \in Sessions : d[s] > 0}
          /\ pc' = [pc EXCEPT ![w] =
                      IF {s \in Sessions : d[s] > 0} # {} THEN "post" ELSE "cap"]
          /\ UNCHANGED <<table, closeReq, app, reply>>
  BY DEF DrainAll
<1>2. \A s \in Sessions : Resetting(s)' = Resetting(s)
  BY <1>1 DEF Resetting, SchedType, TypeOK
<1> SUFFICES ASSUME NEW s \in Sessions, table[s] = "in", HasPendingTx(s)',
                    s \notin txReady' \cup inFlight'
             PROVE  app[s] = "ready" \/ Resetting(s) # {}
  BY <1>1, <1>2 DEF NoStrandedSession, InTable
<1>3. d[s] = 0
  BY <1>1
<1>4. HasPendingTx(s)
  <2>1. syn'[s] => syn[s]
    BY <1>1
  <2>2. data'[s] > 0 => data[s] > 0
    BY <1>1, <1>3 DEF MinOf, SchedType, TypeOK
  <2>3. FinDue(s)' => FinDue(s)
    BY <1>1 DEF FinDue
  <2> QED
    BY <2>1, <2>2, <2>3 DEF HasPendingTx
<1>5. s \notin inFlight
  BY <1>1
<1>6. CASE s \in txReady
  <2>1. s \in Drainable /\ Room(d, s) > 0
    BY <1>1, <1>5, <1>6 DEF StillReady, Visited, Drainable, InTable
  <2>2. MinOf(MinOf(Frames(s), PerSession), Room(d, s)) = 0
    BY <1>1, <1>3, <2>1 DEF IsDrain
  <2>3. MinOf(Frames(s), PerSession) = 0
    BY <2>1, <2>2 DEF MinOf
  <2>4. Frames(s) = 0
    BY <2>3, CapAssumption DEF MinOf
  <2>5. ~HasPendingTx(s)
    BY <2>4 DEF Frames, DataFrames, MaxOf, HasPendingTx, SchedType, TypeOK
  <2> QED
    BY <1>4, <2>5
<1>7. CASE s \notin txReady
  BY <1>4, <1>5, <1>7 DEF NoStrandedSession, InTable
<1> QED
  BY <1>6, <1>7

\* A step that changes nothing of the table and the transmit halves, and takes
\* no session out of txReady, inFlight, an OnTx callback or an RST removal.
LEMMA QuietStep ==
    ASSUME NoStrandedSession,
           UNCHANGED <<table, syn, data, closeReq, finSent, inFlight>>,
           txReady \subseteq txReady',
           \A s \in Sessions : app[s] = "ready" => app'[s] = "ready" \/ s \in txReady',
           \A s \in Sessions : Resetting(s) # {} => Resetting(s)' # {} \/ s \in txReady'
    PROVE  NoStrandedSession'
<1> SUFFICES ASSUME NEW s \in Sessions, table'[s] = "in", HasPendingTx(s)'
             PROVE  \/ s \in txReady' \cup inFlight'
                    \/ app'[s] = "ready"
                    \/ Resetting(s)' # {}
  BY DEF NoStrandedSession, InTable
<1>1. table[s] = "in" /\ HasPendingTx(s)
  BY DEF HasPendingTx, FinDue
<1>2. s \in txReady \cup inFlight \/ app[s] = "ready" \/ Resetting(s) # {}
  BY <1>1 DEF NoStrandedSession, InTable
<1> HIDE DEF Resetting
<1> QED
  BY <1>2

\* Every step keeps the sessions that have something to send in reach.
LEMMA NoStrandedStep ==
    ASSUME SchedType, NoStrandedSession, [Next]_vars
    PROVE  NoStrandedSession'
<1> USE DEF SchedType, TypeOK
<1>1. \A s \in Sessions : table[s] = "in" /\ HasPendingTx(s) =>
          \/ s \in txReady \cup inFlight
          \/ app[s] = "ready"
          \/ Resetting(s) # {}
  BY DEF NoStrandedSession, InTable
<1>2. ASSUME NEW s \in Sessions, NewSession(s) \/ Write(s) \/ Close(s)
      PROVE  NoStrandedSession'
  <2>1. \A r \in Sessions : Resetting(r)' = Resetting(r)
    BY <1>2 DEF NewSession, Write, Close, workers, Resetting
  <2>2. \A r \in Sessions : r # s => (HasPendingTx(r)' <=> HasPendingTx(r))
                                     /\ table'[r] = table[r] /\ app'[r] = app[r]
    BY <1>2 DEF NewSession, Write, Close, HasPendingTx, FinDue
  <2>3. app'[s] = "ready" \/ s \in txReady'
    BY <1>2 DEF NewSession, Write, Close
  <2>4. txReady \subseteq txReady' /\ inFlight' = inFlight
    BY <1>2 DEF NewSession, Write, Close, client
  <2> HIDE DEF Resetting, HasPendingTx
  <2> QED
    BY <1>1, <2>1, <2>2, <2>3, <2>4 DEF NoStrandedSession, InTable
<1>3. ASSUME NEW s \in Sessions, OnTxReady(s) PROVE NoStrandedSession'
  <2>1. \A r \in Sessions : Resetting(r)' = Resetting(r)
    BY <1>3 DEF OnTxReady, workers, Resetting
  <2> QED
    BY <1>3, <2>1, QuietStep DEF OnTxReady, sess
<1>4. ASSUME NEW s \in Sessions, OnTxKick(s) PROVE NoStrandedSession'
  <2>1. \A r \in Sessions : Resetting(r)' = Resetting(r)
    BY <1>4 DEF OnTxKick, Broadcast, Resetting
  <2> QED
    BY <1>4, <2>1, QuietStep DEF OnTxKick, sess
<1>5. ASSUME NEW s \in Sessions, DeliverFin(s) \/ FinTimeout(s)
      PROVE  NoStrandedSession'
  <2>1. \A r \in Sessions : Resetting(r)' = Resetting(r)
    BY <1>5 DEF DeliverFin, FinTimeout, workers, Resetting
  <2> QED
    BY <1>5, <2>1, QuietStep DEF DeliverFin, FinTimeout, client
<1>6. CASE FireCoalesceWake
  <2>1. \A r \in Sessions : Resetting(r)' = Resetting(r)
    BY <1>6 DEF FireCoalesceWake, Broadcast, Resetting
  <2> QED
    BY <1>6, <2>1, QuietStep DEF FireCoalesceWake, sess
<1>7. ASSUME NEW w \in Workers,
             \/ ReadIdleCap(w) \/ AcquireIdlePollSlot(w) \/ NoIdlePollSlot(w)
             \/ PostEnds(w) \/ SleepTimeout(w)
      PROVE  NoStrandedSession'
  <2>1. \A r \in Sessions : Resetting(r)' = Resetting(r)
    <3>1. CASE ReadIdleCap(w) \/ AcquireIdlePollSlot(w) \/ NoIdlePollSlot(w)
               \/ SleepTimeout(w)
      BY <3>1 DEF ReadIdleCap, AcquireIdlePollSlot, NoIdlePollSlot, SleepTimeout,
                  Resetting
    <3>2. CASE PostEnds(w)
      BY <3>2 DEF PostEnds, PostRetry, PostFails, PostOK, Resetting
    <3> QED
      BY <1>7, <3>1, <3>2
  <2>2. UNCHANGED <<table, syn, data, closeReq, finSent, inFlight, txReady, app>>
    BY <1>7 DEF ReadIdleCap, AcquireIdlePollSlot, NoIdlePollSlot, PostEnds, PostRetry,
                PostFails, PostOK, SleepTimeout, sess, client
  <2> QED
    BY <2>1, <2>2, QuietStep
<1>8. ASSUME NEW w \in Workers, DrainAll(w) PROVE NoStrandedSession'
  BY <1>8, DrainStrandsNobody
<1>9. ASSUME NEW w \in Workers, RouteRx(w) PROVE NoStrandedSession'
  <2>1. \A r \in Sessions : Resetting(r)' = Resetting(r)
    BY <1>9 DEF RouteRx, Routing, Resetting
  <2> QED
    BY <1>9, <2>1, QuietStep DEF RouteRx, client
<1>10. ASSUME NEW w \in Workers, RouteRst(w) PROVE NoStrandedSession'
  <2> DEFINE s == Head(reply[w])[1]
  <2>1. \A r \in Sessions : r = s => w \in Resetting(r)'
    BY <1>10 DEF RouteRst, Resetting
  <2>2. \A r \in Sessions : Resetting(r) \subseteq Resetting(r)'
    BY <1>10 DEF RouteRst, Resetting
  <2>3. \A r \in Sessions : r # s => (HasPendingTx(r)' <=> HasPendingTx(r))
    BY <1>10 DEF RouteRst, HasPendingTx, FinDue
  <2>4. UNCHANGED <<table, app, txReady, inFlight>>
    BY <1>10 DEF RouteRst, client
  <2> HIDE DEF Resetting, HasPendingTx, s
  <2> QED
    BY <1>1, <2>1, <2>2, <2>3, <2>4 DEF NoStrandedSession, InTable
<1>11. ASSUME NEW w \in Workers, RstReady(w) \/ RstKick(w) PROVE NoStrandedSession'
  <2>1. \A r \in Sessions : Resetting(r)' = Resetting(r)
    <3>1. CASE RstReady(w)
      BY <3>1 DEF RstReady, Resetting
    <3>2. CASE RstKick(w)
      BY <3>2 DEF RstKick, Broadcast, Resetting
    <3> QED
      BY <1>11, <3>1, <3>2
  <2>2. UNCHANGED <<table, syn, data, closeReq, finSent, inFlight, app>>
        /\ txReady \subseteq txReady'
    BY <1>11 DEF RstReady, RstKick, sess
  <2> QED
    BY <2>1, <2>2, QuietStep
<1>12. ASSUME NEW w \in Workers, RstDelete(w) PROVE NoStrandedSession'
  <2> DEFINE s == Head(reply[w])[1]
  <2>1. \A r \in Sessions : r # s => Resetting(r)' = Resetting(r)
    BY <1>12 DEF RstDelete, Routing, Resetting
  <2>2. \A r \in Sessions : HasPendingTx(r)' <=> HasPendingTx(r)
    BY <1>12 DEF RstDelete, HasPendingTx, FinDue
  <2>3. /\ s \in Sessions => table'[s] # "in"
        /\ \A r \in Sessions : r # s => table'[r] = table[r]
        /\ txReady' = txReady \ {s}
        /\ app' = app /\ inFlight' = inFlight
    BY <1>12 DEF RstDelete
  <2> HIDE DEF Resetting, HasPendingTx, s
  <2> QED
    BY <1>1, <2>1, <2>2, <2>3 DEF NoStrandedSession, InTable
<1>13. ASSUME NEW w \in Workers, Release(w) PROVE NoStrandedSession'
  <2>1. \A r \in Sessions : Resetting(r)' = Resetting(r)
    BY <1>13 DEF Release, Resetting
  <2>2. \A r \in Sessions : HasPendingTx(r)' <=> HasPendingTx(r)
    BY <1>13 DEF Release, sess, HasPendingTx, FinDue
  <2>3. /\ inFlight' = inFlight \ Ids(w)
        /\ txReady' = txReady \cup {r \in Ids(w) \cap InTable : HasPendingTx(r)}
        /\ table' = table /\ app' = app
    BY <1>13 DEF Release, sess
  <2> HIDE DEF Resetting, HasPendingTx
  <2> QED
    BY <1>1, <2>1, <2>2, <2>3 DEF NoStrandedSession, InTable
<1>14. ASSUME NEW w \in Workers, GcDoneSessions(w) PROVE NoStrandedSession'
  <2>1. \A r \in Sessions : Resetting(r)' = Resetting(r)
    BY <1>14 DEF GcDoneSessions, Resetting
  <2>2. \A r \in Sessions : HasPendingTx(r)' <=> HasPendingTx(r)
    BY <1>14 DEF GcDoneSessions, HasPendingTx, FinDue
  <2>3. /\ table' = [r \in Sessions |-> IF r \in InTable /\ IsDone(r) THEN "out"
                                        ELSE table[r]]
        /\ txReady' = txReady \ {r \in InTable : IsDone(r)}
        /\ inFlight' = inFlight /\ app' = app
    BY <1>14 DEF GcDoneSessions
  <2> HIDE DEF Resetting, HasPendingTx
  <2> QED
    BY <1>1, <2>1, <2>2, <2>3 DEF NoStrandedSession, InTable
<1>15. CASE UNCHANGED vars
  <2>1. \A r \in Sessions : Resetting(r)' = Resetting(r)
    BY <1>15 DEF vars, workers, Resetting
  <2> QED
    BY <1>15, <2>1, QuietStep DEF vars, sess, client
<1> QED
  BY <1>2, <1>3, <1>4, <1>5, <1>6, <1>7, <1>8, <1>9, <1>10, <1>11, <1>12, <1>13,
     <1>14, <1>15
  DEF Next, OnTx, WorkerStep

\* No session of the table with something to send is ever out of reach of a
\* later drainAll, over partial drains, failed POSTs, RSTs, collections and
\* late OnTx callbacks.
THEOREM NobodyStranded == Spec => []NoStrandedSession
<1>1. Init => SchedType /\ NoStrandedSession
  BY SchedTypeInit DEF Init, NoStrandedSession, InTable
<1>2. SchedType /\ NoStrandedSession /\ [Next]_vars => (SchedType /\ NoStrandedSession)'
  BY SchedTypeStep, NoStrandedStep
<1> QED
  BY <1>1, <1>2, PTL DEF Spec

-----------------------------------------------------------------------------
\* A worker reads one of the two idle caps before it asks for a slot.
CapRead == \A w \in Workers : cap[w] <= MaxOf(IdleSlots, IdleFloor)

\* Every step keeps the idle caps that were read below the larger one.
LEMMA CapReadStep == SchedType /\ CapRead /\ [Next]_vars => CapRead'
<1> SUFFICES ASSUME SchedType, CapRead, [Next]_vars PROVE CapRead'
  OBVIOUS
<1>1. ASSUME NEW w \in Workers,
             ReadIdleCap(w) \/ AcquireIdlePollSlot(w) \/ NoIdlePollSlot(w)
      PROVE  CapRead'
  <2>1. /\ MaxOf(IdleSlots, IdleFloor) \in Nat
        /\ IdleSlots <= MaxOf(IdleSlots, IdleFloor)
        /\ IdleSlots \in Nat
    BY IdleAssumption DEF MaxOf
  <2>2. PICK n \in Nat : cap' = [cap EXCEPT ![w] = n] /\ n <= MaxOf(IdleSlots, IdleFloor)
    BY <1>1, <2>1 DEF ReadIdleCap, AcquireIdlePollSlot, NoIdlePollSlot
  <2> QED
    BY <2>2 DEF CapRead, SchedType, TypeOK
<1>2. CASE cap' = cap
  BY <1>2 DEF CapRead
<1> QED
  BY <1>1, <1>2
  DEF Next, NewSession, Write, Close, OnTx, OnTxReady, OnTxKick, DeliverFin, FinTimeout,
      FireCoalesceWake, WorkerStep, DrainAll, PostEnds, PostRetry, PostFails, PostOK,
      RouteRx, RouteRst, RstReady, RstKick, RstDelete, Release, GcDoneSessions,
      SleepTimeout, vars, workers

\* The workers that hold an idle slot.
Holders == {w \in Workers : slot[w]}

\* Only taking and giving back a slot change the counter, each by one.
LEMMA IdlePollsStep ==
    ASSUME SchedType, CapRead, OthersHoldNothing, IdlePollsCounted, [Next]_vars
    PROVE  IdlePollsCounted'
<1>1. /\ IsFiniteSet(Holders)
      /\ idlePolls = Cardinality(Holders)
      /\ idlePolls \in Int
  <2>1. Holders \in SUBSET Workers
    BY DEF Holders
  <2>2. IsFiniteSet(Holders)
    BY <2>1, WorkersAssumption, FS_Subset
  <2> QED
    BY <2>2 DEF Holders, IdlePollsCounted, SchedType, TypeOK
<1>2. ASSUME NEW w \in Workers, AcquireIdlePollSlot(w) PROVE IdlePollsCounted'
  <2>1. pc[w] = "slot" /\ idlePolls < cap[w] /\ idlePolls' = idlePolls + 1
    BY <1>2 DEF AcquireIdlePollSlot
  <2>2. ~slot[w] /\ Ids(w) = {}
    BY <2>1 DEF OthersHoldNothing, BusyStates, RoutingStates
  <2>3. Holders' = Holders \cup {w}
    BY <1>2 DEF AcquireIdlePollSlot, Holders, SchedType, TypeOK
  <2>4. w \notin Holders
    BY <2>2 DEF Holders
  <2>5. idlePolls' = Cardinality(Holders')
    BY <1>1, <2>1, <2>3, <2>4, FS_AddElement
  <2>6. idlePolls' <= MaxOf(IdleSlots, IdleFloor)
    BY <1>1, <2>1, IdleAssumption DEF CapRead, SchedType, TypeOK, MaxOf
  <2>7. \A v \in Workers : Ids(v)' = Ids(v) /\ (slot'[v] => slot[v] \/ v = w)
    BY <1>2 DEF AcquireIdlePollSlot, Ids, SchedType, TypeOK
  <2>8. \A v \in Workers : slot'[v] => Ids(v)' = {}
    BY <2>2, <2>7 DEF IdlePollsCounted
  <2> QED
    BY <2>5, <2>6, <2>8 DEF IdlePollsCounted, Holders
<1>3. ASSUME NEW w \in Workers, Release(w) PROVE IdlePollsCounted'
  <2>1. Holders' = Holders \ {w}
    BY <1>3 DEF Release, Holders, SchedType, TypeOK
  <2>2. idlePolls' = IF w \in Holders THEN idlePolls - 1 ELSE idlePolls
    BY <1>3 DEF Release, Holders
  <2>3. idlePolls' = Cardinality(Holders')
    BY <1>1, <2>1, <2>2, FS_RemoveElement
  <2>4. idlePolls' <= MaxOf(IdleSlots, IdleFloor)
    BY <1>1, <2>2, IdleAssumption DEF IdlePollsCounted, MaxOf
  <2>5. \A v \in Workers : slot'[v] => v # w /\ slot[v] /\ Ids(v)' = Ids(v)
    BY <1>3 DEF Release, Ids, SchedType, TypeOK
  <2>6. \A v \in Workers : slot'[v] => Ids(v)' = {}
    BY <2>5 DEF IdlePollsCounted
  <2> QED
    BY <2>3, <2>4, <2>6 DEF IdlePollsCounted, Holders
<1>4. ASSUME NEW w \in Workers, DrainAll(w) PROVE IdlePollsCounted'
  <2>1. pc[w] = "drain" /\ UNCHANGED <<idlePolls, slot>>
    BY <1>4 DEF DrainAll
  <2>2. ~slot[w]
    BY <2>1 DEF OthersHoldNothing, BusyStates, RoutingStates
  <2>3. \A v \in Workers : v # w => Ids(v)' = Ids(v)
    BY <1>4 DEF DrainAll, Ids, SchedType, TypeOK
  <2> QED
    BY <2>1, <2>2, <2>3 DEF IdlePollsCounted
<1>5. CASE UNCHANGED <<idlePolls, slot, batch>>
  BY <1>5 DEF IdlePollsCounted, Ids
<1> QED
  BY <1>2, <1>3, <1>4, <1>5
  DEF Next, NewSession, Write, Close, OnTx, OnTxReady, OnTxKick, DeliverFin, FinTimeout,
      FireCoalesceWake, WorkerStep, ReadIdleCap, NoIdlePollSlot, PostEnds, PostRetry,
      PostFails, PostOK, RouteRx, RouteRst, RstReady, RstKick, RstDelete,
      GcDoneSessions, SleepTimeout, vars, client, workers

\* The counter of standing idle polls is exact on every path through pollOnce and
\* never above the larger cap, although the cap is read and used under different
\* mutexes.
THEOREM IdlePollsExact == Spec => []IdlePollsCounted
<1> DEFINE Inv == /\ SchedType /\ CapRead
                  /\ OthersHoldNothing /\ InFlightExclusive
                  /\ IdlePollsCounted
<1>1. Init => Inv
  <2> SUFFICES ASSUME Init PROVE Inv
    OBVIOUS
  <2>1. \A w \in Workers : Ids(w) = {} /\ ~slot[w]
    BY DEF Init, Ids, NoBatch
  <2>2. {w \in Workers : slot[w]} = {}
    BY <2>1
  <2>3. IdlePollsCounted
    <3>1. idlePolls = Cardinality({w \in Workers : slot[w]})
      BY <2>2, FS_EmptySet DEF Init
    <3>2. idlePolls <= MaxOf(IdleSlots, IdleFloor)
      BY IdleAssumption DEF Init, MaxOf
    <3> QED
      BY <2>1, <3>1, <3>2 DEF IdlePollsCounted
  <2>4. CapRead
    BY IdleAssumption DEF Init, CapRead, MaxOf
  <2>5. OthersHoldNothing /\ InFlightExclusive
    BY <2>1 DEF Init, OthersHoldNothing, InFlightExclusive
  <2> QED
    BY <2>3, <2>4, <2>5, SchedTypeInit
<1>2. Inv /\ [Next]_vars => Inv'
  BY SchedTypeStep, CapReadStep, ExclusiveStep, IdlePollsStep
<1> QED
  BY <1>1, <1>2, PTL DEF Spec

-----------------------------------------------------------------------------
\* A session whose FIN is out was opened, is closed and has sent all it had.
FinWasLast ==
    \A s \in Sessions :
        finSent[s] => table[s] # "none" /\ closeReq[s] /\ ~syn[s] /\ data[s] = 0

\* A drain emits the FIN only with, or after, everything before it.
LEMMA DrainFinLast ==
    ASSUME SchedType, FinWasLast, NEW w \in Workers, DrainAll(w)
    PROVE  FinWasLast'
<1>1. PICK d \in [Sessions -> 0..PerSession] :
          /\ IsDrain(d)
          /\ syn' = [s \in Sessions |-> syn[s] /\ s \notin {r \in Sessions : d[r] > 0}]
          /\ data' = [s \in Sessions |-> data[s] - MinOf(data[s], d[s])]
          /\ finSent' = [s \in Sessions |-> finSent[s] \/ d[s] > DataFrames(s)]
          /\ UNCHANGED <<table, closeReq>>
  BY DEF DrainAll
<1> SUFFICES ASSUME NEW s \in Sessions, finSent'[s]
             PROVE  table[s] # "none" /\ closeReq[s] /\ ~syn'[s] /\ data'[s] = 0
  BY <1>1 DEF FinWasLast
<1>2. d[s] \in Nat /\ data[s] \in Nat /\ syn[s] \in BOOLEAN
  BY CapAssumption DEF SchedType, TypeOK
<1>3. CASE finSent[s]
  <2>1. table[s] # "none" /\ closeReq[s] /\ ~syn[s] /\ data[s] = 0
    BY <1>3 DEF FinWasLast
  <2> QED
    BY <1>1, <1>2, <2>1 DEF MinOf
<1>4. CASE ~finSent[s]
  <2>1. d[s] > DataFrames(s)
    BY <1>1, <1>4
  <2>2. DataFrames(s) \in Nat /\ DataFrames(s) >= data[s]
    BY <1>2 DEF DataFrames, MaxOf
  <2>3. s \in Drainable
    BY <1>1, <1>2, <2>1, <2>2 DEF IsDrain
  <2>4. FinDue(s)
    <3>1. SUFFICES ASSUME ~FinDue(s) PROVE FALSE
      OBVIOUS
    <3>2. Frames(s) = DataFrames(s)
      BY <2>2, <3>1 DEF Frames
    <3>3. d[s] = MinOf(MinOf(DataFrames(s), PerSession), Room(d, s))
      BY <1>1, <2>3, <3>2 DEF IsDrain
    <3>4. MinOf(DataFrames(s), PerSession) \in Nat
          /\ MinOf(DataFrames(s), PerSession) <= DataFrames(s)
      BY <2>2, CapAssumption DEF MinOf
    <3> HIDE DEF Room
    <3>5. d[s] <= DataFrames(s)
      BY <1>2, <2>2, <3>3, <3>4 DEF MinOf
    <3> QED
      BY <1>2, <2>1, <2>2, <3>5
  <2>5. ~syn'[s]
    <3>1. d[s] > 0
      BY <1>2, <2>1, <2>2
    <3> QED
      BY <1>1, <3>1
  <2>6. data'[s] = 0
    <3>1. data[s] <= d[s]
      BY <1>2, <2>1, <2>2
    <3> QED
      BY <1>1, <1>2, <3>1 DEF MinOf
  <2> QED
    BY <2>3, <2>4, <2>5, <2>6 DEF Drainable, InTable, FinDue
<1> QED
  BY <1>3, <1>4

\* Every step keeps a finished transmit half finished.
LEMMA FinWasLastStep == SchedType /\ FinWasLast /\ [Next]_vars => FinWasLast'
<1> SUFFICES ASSUME SchedType, FinWasLast, [Next]_vars PROVE FinWasLast'
  OBVIOUS
<1> USE DEF SchedType, TypeOK, FinWasLast
<1>1. ASSUME NEW s \in Sessions, NewSession(s) \/ Write(s) \/ Close(s) PROVE FinWasLast'
  BY <1>1 DEF NewSession, Write, Close
<1>2. ASSUME NEW w \in Workers, DrainAll(w) PROVE FinWasLast'
  BY <1>2, DrainFinLast
<1>3. ASSUME NEW w \in Workers, RouteRst(w) PROVE FinWasLast'
  BY <1>3 DEF RouteRst
<1>4. ASSUME NEW w \in Workers, RstDelete(w) \/ GcDoneSessions(w) PROVE FinWasLast'
  BY <1>4 DEF RstDelete, GcDoneSessions
<1>5. CASE UNCHANGED <<table, syn, data, closeReq, finSent>>
  BY <1>5
<1> QED
  BY <1>1, <1>2, <1>3, <1>4, <1>5
  DEF Next, OnTx, OnTxReady, OnTxKick, DeliverFin, FinTimeout, FireCoalesceWake,
      WorkerStep, ReadIdleCap, AcquireIdlePollSlot, NoIdlePollSlot, PostEnds, PostRetry,
      PostFails, PostOK, RouteRx, RstReady, RstKick, Release, SleepTimeout, vars, sess

\* A session leaves the table with nothing left to send, unless an RST removes
\* it: no collection, by any worker at any time, cuts off queued data or the FIN.
THEOREM CollectedIsFinished == Spec => CollectedHasNothingPending
<1> DEFINE A == \A s \in Sessions :
                    (table[s] = "in" /\ table'[s] = "out" /\ Resetting(s) = {})
                        => ~HasPendingTx(s)
<1>1. Init => SchedType /\ FinWasLast
  BY SchedTypeInit DEF Init, FinWasLast
<1>2. SchedType /\ FinWasLast /\ [Next]_vars => (SchedType /\ FinWasLast)'
  BY SchedTypeStep, FinWasLastStep
<1>3. SchedType /\ FinWasLast /\ [Next]_vars => [A]_vars
  <2> SUFFICES ASSUME SchedType, FinWasLast, Next,
                      NEW s \in Sessions, table[s] = "in", table'[s] = "out",
                      Resetting(s) = {}
               PROVE  ~HasPendingTx(s)
    OBVIOUS
  <2> USE DEF SchedType, TypeOK
  <2>1. ASSUME NEW w \in Workers, GcDoneSessions(w) PROVE ~HasPendingTx(s)
    BY <2>1 DEF GcDoneSessions, IsDone, FinWasLast, HasPendingTx, FinDue
  <2>2. ASSUME NEW w \in Workers, RstDelete(w) PROVE FALSE
    <3>1. Head(reply[w])[1] = s /\ pc[w] = "rstDelete"
      BY <2>2 DEF RstDelete
    <3> QED
      BY <3>1 DEF Resetting
  <2>3. ASSUME NEW r \in Sessions, NewSession(r) PROVE FALSE
    BY <2>3 DEF NewSession
  <2>4. table' # table
    OBVIOUS
  <2> QED
    BY <2>1, <2>2, <2>3, <2>4
    DEF Next, Write, Close, OnTx, OnTxReady, OnTxKick, DeliverFin, FinTimeout,
        FireCoalesceWake, WorkerStep, DrainAll, ReadIdleCap, AcquireIdlePollSlot,
        NoIdlePollSlot, PostEnds, PostRetry, PostFails, PostOK, RouteRx, RouteRst,
        RstReady, RstKick, Release, SleepTimeout, sess
<1> QED
  BY <1>1, <1>2, <1>3, PTL DEF Spec, CollectedHasNothingPending

=============================================================================
