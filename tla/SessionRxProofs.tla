--------------------------- MODULE SessionRxProofs ---------------------------
(***************************************************************************)
(* Proofs about SessionRx, for every set of workers, stream length and     *)
(* channel capacity.                                                       *)
(***************************************************************************)
EXTENDS SessionRx, SequenceTheorems, WellFoundedInduction, TLAPS

\* A non-empty set of natural numbers has a least element.
LEMMA LeastNat ==
    ASSUME NEW T, T \subseteq Nat, T # {}
    PROVE  \E x \in T : \A y \in T : x <= y
<1>1. PICK x \in T : \A y \in T : ~(<<y, x>> \in OpToRel(<, Nat))
  BY NatLessThanWellFounded, WFMin
<1>2. ASSUME NEW y \in T PROVE x <= y
  <2>1. x \in Nat /\ y \in Nat
    BY <1>2
  <2>2. <<y, x>> \in OpToRel(<, Nat) <=> y < x
    BY <2>1 DEF OpToRel
  <2>3. ~(y < x)
    BY <1>1, <1>2, <2>2, Zenon
  <2> QED
    BY <2>1, <2>3
<1> QED
  BY <1>2

\* The run that deliverRx dequeues ends where it says: at the FIN, or before
\* the first frame that is not held back.
LEMMA AfterRunProperties ==
    ASSUME rxSeq \in 0..FinSeq, rxQueue \subseteq FrameSeq
    PROVE  /\ AfterRun \in rxSeq + 1 .. FinSeq + 1
           /\ AfterRun = FinSeq + 1 \/ AfterRun \notin rxQueue
<1> DEFINE T == {n \in rxSeq + 1 .. FinSeq + 1 : RunEnds(n)}
<1> USE FinAssumption
<1>1. T \subseteq Nat
  OBVIOUS
<1>2. FinSeq + 1 \in T
  BY DEF RunEnds
<1>3. PICK n \in T : \A k \in T : n <= k
  BY <1>1, <1>2, LeastNat
<1>4. \A k \in rxSeq + 1 .. n - 1 : ~RunEnds(k)
  BY <1>3
<1>5. \E x \in rxSeq + 1 .. FinSeq + 1 :
          RunEnds(x) /\ \A k \in rxSeq + 1 .. x - 1 : ~RunEnds(k)
  BY <1>3, <1>4
<1>6. AfterRun \in rxSeq + 1 .. FinSeq + 1 /\ RunEnds(AfterRun)
  BY <1>5 DEF AfterRun
<1> QED
  BY <1>6 DEF RunEnds

\* The payloads of a run: their number, and each of them.
LEMMA PayloadsProperties ==
    ASSUME rxSeq \in 0..FinSeq, NEW n \in rxSeq + 1 .. FinSeq + 1
    PROVE  /\ Payloads(n) \in Seq(FrameSeq)
           /\ Len(Payloads(n)) + Reassembled
              = LET k == IF n > FinSeq THEN FinSeq ELSE n
                IN  IF k < FirstData THEN 0 ELSE k - FirstData
           /\ \A i \in 1..Len(Payloads(n)) :
                 Payloads(n)[i] = FirstData + Reassembled + i - 1
<1> DEFINE from == IF rxSeq < FirstData THEN FirstData ELSE rxSeq
           to   == IF n > FinSeq THEN FinSeq ELSE n
           len  == IF to < from THEN 0 ELSE to - from
<1> USE FinAssumption, FirstAssumption
<1>1. /\ from \in Nat /\ to \in Nat /\ len \in Nat
      /\ from + len <= FinSeq \/ len = 0
  OBVIOUS
<1>2. Payloads(n) = [i \in 1..len |-> from + i - 1]
  BY DEF Payloads
<1>3. \A i \in 1..len : from + i - 1 \in FrameSeq
  BY <1>1 DEF FrameSeq
<1>4. from = FirstData + Reassembled
  BY DEF Reassembled
<1>5. len + Reassembled = IF to < FirstData THEN 0 ELSE to - FirstData
  BY DEF Reassembled
<1> HIDE DEF from, to, len
<1>6. Payloads(n) \in Seq(FrameSeq) /\ Len(Payloads(n)) = len
  BY <1>1, <1>2, <1>3
<1>7. \A i \in 1..len : Payloads(n)[i] = from + i - 1
  BY <1>2
<1> QED
  BY <1>4, <1>5, <1>6, <1>7 DEF to

-----------------------------------------------------------------------------
\* TypeOK holds in every reachable state.
THEOREM TypeCorrect == Spec => []TypeOK
<1>1. Init => TypeOK
  <2> SUFFICES ASSUME Init PROVE TypeOK
    OBVIOUS
  <2>1. <<>> \in Seq(FrameSeq)
    BY EmptySeq
  <2>2. 0 \in FrameSeq /\ 0 \in 0 .. FinSeq + 1
    BY FinAssumption DEF FrameSeq
  <2> QED
    BY <2>1, <2>2 DEF Init, TypeOK
<1>2. TypeOK /\ [Next]_vars => TypeOK'
  <2> SUFFICES ASSUME TypeOK, [Next]_vars PROVE TypeOK'
    OBVIOUS
  <2> USE DEF TypeOK, owner, reader
  <2>1. ASSUME NEW w \in Workers, NEW f \in FrameSeq, Route(w, f) PROVE TypeOK'
    BY <2>1 DEF Route
  <2>2. ASSUME NEW w \in Workers, ProcessRx(w) PROVE TypeOK'
    <3>0. 0 \in FrameSeq
      BY FinAssumption DEF FrameSeq
    <3>1. CASE ProcessRxCheck(w)
      BY <3>0, <3>1 DEF ProcessRxCheck
    <3>2. CASE ProcessRxEnqueue(w)
      <4>1. rxInbox' \in Seq(FrameSeq)
        BY <3>2, AppendProperties DEF ProcessRxEnqueue
      <4> QED
        BY <3>0, <3>2, <4>1 DEF ProcessRxEnqueue
    <3>3. CASE ProcessRxStopped(w)
      BY <3>0, <3>3 DEF ProcessRxStopped
    <3>4. CASE ProcessRxFull(w)
      BY <3>4 DEF ProcessRxFull
    <3>5. CASE ProcessRxTimeout(w)
      BY <3>0, <3>5 DEF ProcessRxTimeout, Stop
    <3> QED
      BY <2>2, <3>1, <3>2, <3>3, <3>4, <3>5 DEF ProcessRx
  <2>3. CASE DeliverIgnored
    <3>1. Head(rxInbox) \in FrameSeq /\ rxInbox' \in Seq(FrameSeq)
      BY <2>3, HeadTailProperties DEF DeliverIgnored
    <3> QED
      BY <2>3, <3>1 DEF DeliverIgnored
  <2>4. CASE DeliverRun
    <3>1. rxSeq \in 0..FinSeq /\ rxInbox' \in Seq(FrameSeq)
      BY <2>4, HeadTailProperties DEF DeliverRun, FrameSeq
    <3>2. AfterRun \in rxSeq + 1 .. FinSeq + 1
      BY <3>1, AfterRunProperties
    <3>3. toSend' \in Seq(FrameSeq)
      BY <2>4, <3>1, <3>2, PayloadsProperties DEF DeliverRun
    <3>4. rxSeq' \in 0 .. FinSeq + 1
      BY <2>4, <3>1, <3>2, FinAssumption DEF DeliverRun
    <3> QED
      BY <2>4, <3>1, <3>3, <3>4 DEF DeliverRun
  <2>5. CASE SendPayload
    <3>1. Head(toSend) \in FrameSeq /\ toSend' \in Seq(FrameSeq)
      BY <2>5, HeadTailProperties DEF SendPayload
    <3>2. rxChan' \in Seq(FrameSeq)
      BY <2>5, <3>1, AppendProperties DEF SendPayload
    <3> QED
      BY <2>5, <3>1, <3>2 DEF SendPayload
  <2>6. CASE SendOnClosed
    BY <2>6 DEF SendOnClosed
  <2>7. CASE SendAborted
    BY <2>7, EmptySeq DEF SendAborted, ShutChan
  <2>8. CASE DeliverEnd
    BY <2>8 DEF DeliverEnd, ShutChan
  <2>9. CASE LoopStopped
    BY <2>9 DEF LoopStopped
  <2>10. CASE LoopDefer
    BY <2>10 DEF LoopDefer, CloseRxUnlessClosed, ShutChan
  <2>11. ASSUME NEW w \in Workers, ForcedCloseBegin(w) PROVE TypeOK'
    BY <2>11 DEF ForcedCloseBegin
  <2>12. ASSUME NEW w \in Workers, CloseRx(w) PROVE TypeOK'
    BY <2>12 DEF CloseRx, CloseRxUnlessClosed, ShutChan
  <2>13. ASSUME NEW w \in Workers, ForcedCloseStop(w) PROVE TypeOK'
    BY <2>13 DEF ForcedCloseStop, Stop
  <2>14. CASE StopEarly
    BY <2>14 DEF StopEarly, Stop
  <2>15. CASE OwnFin
    BY <2>15 DEF OwnFin
  <2>16. CASE FinTimeout
    BY <2>16 DEF FinTimeout
  <2>17. CASE GcDoneSession
    BY <2>17 DEF GcDoneSession, Stop
  <2>18. CASE ReadPayload
    <3>1. Head(rxChan) \in FrameSeq /\ rxChan' \in Seq(FrameSeq)
      BY <2>18, HeadTailProperties DEF ReadPayload
    <3>2. read' \in Seq(FrameSeq)
      BY <2>18, <3>1, AppendProperties DEF ReadPayload
    <3> QED
      BY <2>18, <3>1, <3>2 DEF ReadPayload
  <2>19. CASE ReadEof
    BY <2>19 DEF ReadEof
  <2>20. CASE UNCHANGED vars
    BY <2>20 DEF vars
  <2> QED
    BY <2>1, <2>2, <2>3, <2>4, <2>5, <2>6, <2>7, <2>8, <2>9, <2>10, <2>11, <2>12,
       <2>13, <2>14, <2>15, <2>16, <2>17, <2>18, <2>19, <2>20
    DEF Next, RxLoop
<1> QED
  BY <1>1, <1>2, PTL DEF Spec

-----------------------------------------------------------------------------
(* Who may have closed RxChan, and when. *)

\* rxClosed and the closed channel differ only while the rxLoop that has seen
\* the FIN is still sending; deliverRx holds payloads only while it sends; the
\* FIN is reached exactly when the loop has seen it.
RxShape ==
    /\ IF loop = "send" /\ sawFin THEN rxClosed /\ ~chanShut ELSE rxClosed <=> chanShut
    /\ loop # "send" => toSend = <<>>
    /\ sawFin => loop # "select"
    /\ rxSeq = FinSeq + 1 <=> sawFin
    /\ loop = "gone" => chanShut

\* Every step keeps RxShape.
LEMMA RxShapeStep == TypeOK /\ RxShape /\ [Next]_vars => RxShape'
<1> SUFFICES ASSUME TypeOK, RxShape, [Next]_vars PROVE RxShape'
  OBVIOUS
<1> USE DEF RxShape
<1>1. CASE UNCHANGED <<rxSeq, rxClosed, chanShut, loop, toSend, sawFin>>
  BY <1>1
<1>2. CASE DeliverIgnored
  BY <1>2 DEF DeliverIgnored, TypeOK
<1>3. CASE DeliverRun
  <2>1. rxSeq \in 0..FinSeq /\ rxQueue \subseteq FrameSeq
    BY <1>3, HeadTailProperties DEF DeliverRun, TypeOK, FrameSeq
  <2>2. AfterRun \in rxSeq + 1 .. FinSeq + 1
    BY <2>1, AfterRunProperties
  <2>3. sawFin' <=> rxSeq' = FinSeq + 1
    BY <1>3 DEF DeliverRun
  <2>4. rxClosed' <=> sawFin'
    BY <1>3 DEF DeliverRun
  <2>5. ~chanShut' /\ loop' = "send"
    BY <1>3 DEF DeliverRun, TypeOK
  <2> QED
    BY <2>3, <2>4, <2>5
<1>4. CASE SendPayload
  BY <1>4 DEF SendPayload, TypeOK
<1>5. CASE SendAborted
  BY <1>5 DEF SendAborted, ShutChan, TypeOK
<1>6. CASE DeliverEnd
  BY <1>6 DEF DeliverEnd, ShutChan, TypeOK
<1>7. CASE LoopStopped
  BY <1>7 DEF LoopStopped, TypeOK
<1>8. CASE LoopDefer
  BY <1>8 DEF LoopDefer, CloseRxUnlessClosed, ShutChan, TypeOK
<1>9. ASSUME NEW w \in Workers, CloseRx(w) PROVE RxShape'
  BY <1>9 DEF CloseRx, CloseRxUnlessClosed, ShutChan, TypeOK
<1> QED
  BY <1>1, <1>2, <1>3, <1>4, <1>5, <1>6, <1>7, <1>8, <1>9
  DEF Next, Route, ProcessRx, ProcessRxCheck, ProcessRxEnqueue, ProcessRxStopped,
      ProcessRxFull, ProcessRxTimeout, RxLoop, SendOnClosed, ForcedCloseBegin,
      ForcedCloseStop, StopEarly, OwnFin, FinTimeout, GcDoneSession, ReadPayload,
      ReadEof, owner, reader, vars

\* The shape of the receive half is invariant.
LEMMA RxShapeInvariant == Spec => []RxShape
<1>1. Init => RxShape
  BY FinAssumption DEF Init, RxShape
<1> QED
  BY <1>1, RxShapeStep, TypeCorrect, PTL DEF Spec

\* rxLoop never leaves RxChan open behind it: the goroutine that ranges over it
\* (the exit's write pump, VirtualConn.Read) always sees the end.
THEOREM GoneImpliesClosed == Spec => []GoneMeansClosed
<1>1. RxShape => GoneMeansClosed
  BY DEF RxShape, GoneMeansClosed
<1> QED
  BY <1>1, RxShapeInvariant, PTL

-----------------------------------------------------------------------------
\* The channel is closed only by an rxLoop that is past its last send, and
\* nobody is in the middle of a forced close.
OnlyLoopCloses ==
    /\ chanShut => loop \in {"defer", "gone"}
    /\ loop = "defer" /\ chanShut => sawFin
    /\ \A w \in Workers : worker[w] \notin {"close", "stop"}
    /\ ~panicked

\* When nobody calls CloseRx and a session is only ever ended with Stop (as the
\* exit's upstream pump and gcDoneSessions do), no interleaving sends on a
\* closed RxChan or closes it twice.
THEOREM StopNeverPanics ==
    ASSUME ForcedClose = "nobody"
    PROVE  Spec => []NeverPanics
<1>1. Init => OnlyLoopCloses
  BY DEF Init, OnlyLoopCloses
<1>2. TypeOK /\ RxShape /\ OnlyLoopCloses /\ [Next]_vars => OnlyLoopCloses'
  <2> SUFFICES ASSUME TypeOK, RxShape, OnlyLoopCloses, [Next]_vars
               PROVE  OnlyLoopCloses'
    OBVIOUS
  <2> USE DEF OnlyLoopCloses, owner, reader
  <2>1. CASE UNCHANGED <<chanShut, loop, sawFin, worker, panicked>>
    BY <2>1
  <2>2. ASSUME NEW w \in Workers, NEW f \in FrameSeq, Route(w, f)
        PROVE  OnlyLoopCloses'
    BY <2>2 DEF Route, TypeOK
  <2>3. ASSUME NEW w \in Workers, ProcessRx(w) PROVE OnlyLoopCloses'
    BY <2>3 DEF ProcessRx, ProcessRxCheck, ProcessRxEnqueue, ProcessRxStopped,
                ProcessRxFull, ProcessRxTimeout, TypeOK
  <2>4. CASE DeliverIgnored
    BY <2>4 DEF DeliverIgnored, RxShape, TypeOK
  <2>5. CASE DeliverRun
    BY <2>5 DEF DeliverRun, RxShape, TypeOK
  <2>6. CASE SendPayload
    BY <2>6 DEF SendPayload
  <2>7. CASE SendOnClosed
    BY <2>7 DEF SendOnClosed
  <2>8. CASE SendAborted
    BY <2>8 DEF SendAborted, ShutChan, TypeOK
  <2>9. CASE DeliverEnd
    BY <2>9 DEF DeliverEnd, ShutChan, TypeOK
  <2>10. CASE LoopStopped
    BY <2>10 DEF LoopStopped
  <2>11. CASE LoopDefer
    BY <2>11 DEF LoopDefer, CloseRxUnlessClosed, ShutChan, RxShape, TypeOK
  <2>12. ASSUME NEW w \in Workers,
                ForcedCloseBegin(w) \/ CloseRx(w) \/ ForcedCloseStop(w)
         PROVE  OnlyLoopCloses'
    BY <2>12 DEF ForcedCloseBegin, CloseRx, ForcedCloseStop
  <2> QED
    BY <2>1, <2>2, <2>3, <2>4, <2>5, <2>6, <2>7, <2>8, <2>9, <2>10, <2>11, <2>12
    DEF Next, RxLoop, StopEarly, OwnFin, FinTimeout, GcDoneSession, ReadPayload,
        ReadEof, vars
<1>3. OnlyLoopCloses => NeverPanics
  BY DEF OnlyLoopCloses, NeverPanics
<1> QED
  BY <1>1, <1>2, <1>3, TypeCorrect, RxShapeInvariant, PTL DEF Spec

-----------------------------------------------------------------------------
\* What has been read, what is in RxChan and what deliverRx is sending is the
\* peer's stream from its first payload, in order and without a repetition or a
\* gap; while rxLoop runs nothing reassembled is missing from it, and no frame
\* whose turn has come stays behind in rxQueue.  This holds for every order,
\* loss and duplication of frames, every capacity, and every way of closing.
THEOREM StreamDelivered == Spec => []PrefixDelivered
<1> DEFINE Inv == InOrderDelivery /\ NothingDropped /\ NoFrameStuck
<1>1. Init => Inv
  BY EmptySeq, FinAssumption, FirstAssumption
  DEF Init, InOrderDelivery, NothingDropped, NoFrameStuck, Reassembled
<1>2. TypeOK /\ RxShape /\ Inv /\ [Next]_vars => Inv'
  <2> SUFFICES ASSUME TypeOK, RxShape, Inv, [Next]_vars PROVE Inv'
    OBVIOUS
  <2>0. /\ Len(read) \in Nat /\ Len(rxChan) \in Nat /\ Len(toSend) \in Nat
        /\ FirstData \in Nat
    BY FirstAssumption DEF TypeOK
  <2>1. CASE UNCHANGED <<rxSeq, rxQueue, rxChan, toSend, read, loop>>
    BY <2>1 DEF InOrderDelivery, NothingDropped, NoFrameStuck, Reassembled
  <2>2. CASE DeliverIgnored
    <3>1. UNCHANGED <<rxSeq, rxChan, toSend, read>> /\ loop = "select"
      BY <2>2 DEF DeliverIgnored, reader
    <3>2. InOrderDelivery' /\ NothingDropped'
      BY <3>1 DEF InOrderDelivery, NothingDropped, Reassembled
    <3>3. NoFrameStuck'
      BY <2>2, <3>1 DEF DeliverIgnored, NoFrameStuck
    <3> QED
      BY <3>2, <3>3
  <2>3. CASE DeliverRun
    <3>1. rxSeq \in 0..FinSeq /\ rxQueue \subseteq FrameSeq
      BY <2>3, HeadTailProperties DEF DeliverRun, TypeOK, FrameSeq
    <3>2. /\ AfterRun \in rxSeq + 1 .. FinSeq + 1
          /\ AfterRun = FinSeq + 1 \/ AfterRun \notin rxQueue
      BY <3>1, AfterRunProperties
    <3>3. rxSeq' = AfterRun /\ toSend' = Payloads(AfterRun)
          /\ read' = read /\ rxChan' = rxChan /\ loop = "select" /\ loop' = "send"
          /\ rxQueue' = rxQueue \ (rxSeq + 1 .. AfterRun - 1)
      BY <2>3 DEF DeliverRun, reader
    <3>4. Len(toSend) = 0
      BY <3>3, EmptySeq DEF RxShape
    <3>5. Len(read) + Len(rxChan) = Reassembled
      BY <2>0, <3>3, <3>4 DEF NothingDropped
    <3>6. /\ Len(toSend') + Reassembled = Reassembled'
          /\ \A i \in 1..Len(toSend') : toSend'[i] = FirstData + Reassembled + i - 1
          /\ Len(toSend') \in Nat
      BY <3>1, <3>2, <3>3, PayloadsProperties DEF Reassembled
    <3>7. InOrderDelivery'
      <4>1. /\ \A i \in 1..Len(read) : read[i] = FirstData + i - 1
            /\ \A i \in 1..Len(rxChan) : rxChan[i] = FirstData + Len(read) + i - 1
        BY DEF InOrderDelivery
      <4>2. \A i \in 1..Len(toSend') :
               toSend'[i] = FirstData + Len(read) + Len(rxChan) + i - 1
        BY <2>0, <3>5, <3>6
      <4> QED
        BY <3>3, <4>1, <4>2 DEF InOrderDelivery
    <3>8. NothingDropped'
      BY <2>0, <3>3, <3>5, <3>6 DEF NothingDropped
    <3>9. NoFrameStuck'
      BY <3>1, <3>2, <3>3, FinAssumption DEF NoFrameStuck, FrameSeq
    <3> QED
      BY <3>7, <3>8, <3>9
  <2>4. CASE SendPayload
    <3>1. /\ toSend # <<>> /\ loop' = loop
          /\ toSend' = Tail(toSend) /\ rxChan' = Append(rxChan, Head(toSend))
          /\ read' = read /\ rxSeq' = rxSeq /\ rxQueue' = rxQueue
      BY <2>4 DEF SendPayload, reader
    <3>2. /\ Head(toSend) \in FrameSeq /\ Head(toSend) = toSend[1]
          /\ Len(Tail(toSend)) = Len(toSend) - 1 /\ Len(toSend) >= 1
          /\ \A i \in 1 .. Len(Tail(toSend)) : Tail(toSend)[i] = toSend[i + 1]
      BY <3>1, HeadTailProperties, EmptySeq DEF TypeOK
    <3>3. /\ Len(rxChan') = Len(rxChan) + 1
          /\ \A i \in 1..Len(rxChan) : rxChan'[i] = rxChan[i]
          /\ rxChan'[Len(rxChan) + 1] = toSend[1]
      BY <3>1, <3>2, AppendProperties DEF TypeOK
    <3>4. InOrderDelivery'
      <4>1. \A i \in 1..Len(read') : read'[i] = FirstData + i - 1
        BY <3>1 DEF InOrderDelivery
      <4>2. ASSUME NEW i \in 1..Len(rxChan')
            PROVE  rxChan'[i] = FirstData + Len(read') + i - 1
        <5>1. CASE i \in 1..Len(rxChan)
          BY <3>1, <3>3, <5>1 DEF InOrderDelivery
        <5>2. CASE i = Len(rxChan) + 1
          <6>1. toSend[1] = FirstData + Len(read) + Len(rxChan) + 1 - 1
            BY <2>0, <3>2 DEF InOrderDelivery
          <6> QED
            BY <2>0, <3>1, <3>3, <5>2, <6>1
        <5> QED
          BY <2>0, <3>3, <5>1, <5>2
      <4>3. ASSUME NEW i \in 1..Len(toSend')
            PROVE  toSend'[i] = FirstData + Len(read') + Len(rxChan') + i - 1
        <5>1. i + 1 \in 1..Len(toSend) /\ toSend'[i] = toSend[i + 1]
          BY <2>0, <3>1, <3>2
        <5>2. toSend[i + 1] = FirstData + Len(read) + Len(rxChan) + (i + 1) - 1
          BY <5>1 DEF InOrderDelivery
        <5> QED
          BY <2>0, <3>1, <3>3, <5>1, <5>2
      <4> QED
        BY <4>1, <4>2, <4>3 DEF InOrderDelivery
    <3>5. NothingDropped'
      BY <2>0, <3>1, <3>2, <3>3 DEF NothingDropped, Reassembled
    <3>6. NoFrameStuck'
      BY <3>1 DEF NoFrameStuck
    <3> QED
      BY <3>4, <3>5, <3>6
  <2>5. CASE SendAborted
    <3>1. /\ toSend' = <<>> /\ loop' = "defer"
          /\ UNCHANGED <<read, rxChan, rxSeq, rxQueue>>
      BY <2>5 DEF SendAborted, reader
    <3> QED
      BY <3>1, EmptySeq DEF InOrderDelivery, NothingDropped, NoFrameStuck
  <2>6. CASE DeliverEnd \/ LoopStopped \/ LoopDefer
    <3>1. /\ UNCHANGED <<read, rxChan, toSend, rxSeq, rxQueue>>
          /\ loop' \in {"select", "send"} => loop \in {"select", "send"}
      BY <2>6 DEF DeliverEnd, LoopStopped, LoopDefer, reader
    <3> QED
      BY <3>1 DEF InOrderDelivery, NothingDropped, NoFrameStuck, Reassembled
  <2>7. CASE ReadPayload
    <3>1. /\ rxChan # <<>> /\ rxChan' = Tail(rxChan)
          /\ read' = Append(read, Head(rxChan))
          /\ UNCHANGED <<toSend, rxSeq, rxQueue, loop>>
      BY <2>7 DEF ReadPayload
    <3>2. /\ Head(rxChan) \in FrameSeq /\ Head(rxChan) = rxChan[1]
          /\ Len(Tail(rxChan)) = Len(rxChan) - 1 /\ Len(rxChan) >= 1
          /\ \A i \in 1 .. Len(Tail(rxChan)) : Tail(rxChan)[i] = rxChan[i + 1]
      BY <3>1, HeadTailProperties, EmptySeq DEF TypeOK
    <3>3. /\ Len(read') = Len(read) + 1
          /\ \A i \in 1..Len(read) : read'[i] = read[i]
          /\ read'[Len(read) + 1] = rxChan[1]
      BY <3>1, <3>2, AppendProperties DEF TypeOK
    <3>4. InOrderDelivery'
      <4>1. ASSUME NEW i \in 1..Len(read') PROVE read'[i] = FirstData + i - 1
        <5>1. CASE i \in 1..Len(read)
          BY <3>3, <5>1 DEF InOrderDelivery
        <5>2. CASE i = Len(read) + 1
          <6>1. rxChan[1] = FirstData + Len(read) + 1 - 1
            BY <2>0, <3>2 DEF InOrderDelivery
          <6> QED
            BY <2>0, <3>3, <5>2, <6>1
        <5> QED
          BY <2>0, <3>3, <5>1, <5>2
      <4>2. ASSUME NEW i \in 1..Len(rxChan')
            PROVE  rxChan'[i] = FirstData + Len(read') + i - 1
        <5>1. i + 1 \in 1..Len(rxChan) /\ rxChan'[i] = rxChan[i + 1]
          BY <2>0, <3>1, <3>2
        <5>2. rxChan[i + 1] = FirstData + Len(read) + (i + 1) - 1
          BY <5>1 DEF InOrderDelivery
        <5> QED
          BY <2>0, <3>3, <5>1, <5>2
      <4>3. Len(read') + Len(rxChan') = Len(read) + Len(rxChan)
        BY <2>0, <3>1, <3>2, <3>3
      <4>4. ASSUME NEW i \in 1..Len(toSend')
            PROVE  toSend'[i] = FirstData + Len(read') + Len(rxChan') + i - 1
        <5>1. toSend'[i] = FirstData + Len(read) + Len(rxChan) + i - 1
          BY <3>1 DEF InOrderDelivery
        <5> QED
          BY <2>0, <3>1, <3>2, <3>3, <4>3, <5>1
      <4> QED
        BY <4>1, <4>2, <4>4 DEF InOrderDelivery
    <3>5. NothingDropped'
      BY <2>0, <3>1, <3>2, <3>3 DEF NothingDropped, Reassembled
    <3>6. NoFrameStuck'
      BY <3>1 DEF NoFrameStuck
    <3> QED
      BY <3>4, <3>5, <3>6
  <2> QED
    BY <2>1, <2>2, <2>3, <2>4, <2>5, <2>6, <2>7
    DEF Next, Route, ProcessRx, ProcessRxCheck, ProcessRxEnqueue, ProcessRxStopped,
        ProcessRxFull, ProcessRxTimeout, RxLoop, SendOnClosed, ForcedCloseBegin,
        CloseRx, ForcedCloseStop, StopEarly, OwnFin, FinTimeout, GcDoneSession,
        ReadEof, owner, reader, vars
<1> QED
  BY <1>1, <1>2, TypeCorrect, RxShapeInvariant, PTL DEF Spec, PrefixDelivered

-----------------------------------------------------------------------------
\* As long as nobody has killed the half, only the FIN closes RxChan, and behind
\* it waits all that the peer has sent and the reader has not read.
CleanInv ==
    /\ ~killed => /\ rxDone => chanShut
                  /\ rxClosed => sawFin
                  /\ loop \in {"defer", "gone"} => chanShut
                  /\ chanShut => /\ loop \in {"defer", "gone"}
                                 /\ Len(read) + Len(rxChan) = FinSeq - FirstData
    /\ eof => chanShut /\ rxChan = <<>>

\* Every step keeps CleanInv; the end of deliverRx behind the FIN is where the
\* stream becomes complete.
LEMMA CleanInvStep ==
    TypeOK /\ RxShape /\ PrefixDelivered /\ CleanInv /\ [Next]_vars => CleanInv'
<1> SUFFICES ASSUME TypeOK, RxShape, PrefixDelivered, CleanInv, [Next]_vars
             PROVE  CleanInv'
  OBVIOUS
<1>1. CASE UNCHANGED <<killed, rxDone, rxClosed, chanShut, loop, sawFin, read, rxChan, eof>>
  BY <1>1 DEF CleanInv
<1>2. CASE killed'
      /\ (chanShut => chanShut') /\ UNCHANGED <<eof, rxChan>>
  BY <1>2 DEF CleanInv
<1>3. CASE DeliverIgnored
  BY <1>3 DEF DeliverIgnored, CleanInv, RxShape, reader, TypeOK
<1>4. CASE DeliverRun
  BY <1>4 DEF DeliverRun, CleanInv, RxShape, reader, TypeOK
<1>5. CASE SendPayload
  BY <1>5 DEF SendPayload, CleanInv, reader, TypeOK
<1>6. CASE SendAborted
  BY <1>6 DEF SendAborted, ShutChan, CleanInv, reader, TypeOK
<1>7. CASE DeliverEnd
  <2>1. UNCHANGED <<killed, rxClosed, sawFin, read, rxChan, eof>>
    BY <1>7 DEF DeliverEnd, reader
  <2>2. CASE sawFin
    <3>1. chanShut' /\ loop' = "defer"
      BY <1>7, <2>2 DEF DeliverEnd, ShutChan
    <3>2. rxSeq = FinSeq + 1 /\ Len(toSend) = 0 /\ loop = "send"
      BY <1>7, <2>2, EmptySeq DEF DeliverEnd, RxShape
    <3>3. Reassembled = FinSeq - FirstData
      BY <3>2, FinAssumption, FirstAssumption DEF Reassembled
    <3>4. Len(read) + Len(rxChan) = FinSeq - FirstData
      BY <3>2, <3>3 DEF PrefixDelivered, NothingDropped, TypeOK
    <3> QED
      BY <2>1, <2>2, <3>1, <3>4 DEF CleanInv
  <2>3. CASE ~sawFin
    BY <1>7, <2>1, <2>3 DEF DeliverEnd, CleanInv, TypeOK
  <2> QED
    BY <2>2, <2>3
<1>8. CASE LoopStopped
  BY <1>8 DEF LoopStopped, CleanInv, reader, TypeOK
<1>9. CASE LoopDefer
  BY <1>9 DEF LoopDefer, CloseRxUnlessClosed, ShutChan, CleanInv, RxShape, reader, TypeOK
<1>10. ASSUME NEW w \in Workers, CloseRx(w) PROVE CleanInv'
  <2>1. killed' /\ (chanShut => chanShut') /\ UNCHANGED <<eof, rxChan>>
    BY <1>10 DEF CloseRx, CloseRxUnlessClosed, ShutChan, reader
  <2> QED
    BY <1>2, <2>1
<1>11. CASE ReadPayload
  <2>1. /\ rxChan # <<>> /\ Len(read') = Len(read) + 1
        /\ Len(rxChan') = Len(rxChan) - 1
    BY <1>11, HeadTailProperties, AppendProperties DEF ReadPayload, TypeOK
  <2>2. ~eof /\ UNCHANGED <<killed, rxDone, rxClosed, chanShut, loop, sawFin, eof>>
    BY <1>11, <2>1 DEF ReadPayload, CleanInv
  <2>3. Len(read') + Len(rxChan') = Len(read) + Len(rxChan)
    BY <2>1 DEF TypeOK
  <2> QED
    BY <2>2, <2>3 DEF CleanInv
<1>12. CASE ReadEof
  BY <1>12 DEF ReadEof, CleanInv
<1> QED
  BY <1>1, <1>2, <1>3, <1>4, <1>5, <1>6, <1>7, <1>8, <1>9, <1>10, <1>11, <1>12
  DEF Next, Route, ProcessRx, ProcessRxCheck, ProcessRxEnqueue, ProcessRxStopped,
      ProcessRxFull, ProcessRxTimeout, Stop, RxLoop, SendOnClosed, ForcedCloseBegin,
      ForcedCloseStop, StopEarly, OwnFin, FinTimeout, GcDoneSession, owner, reader, vars

\* A reader that sees the end of a stream that nobody has killed has read all of
\* it, for every order, loss and repetition of the frames (deliverRx closes
\* RxChan behind the last payload only).
THEOREM CleanEndIsComplete == Spec => []CleanEofIsComplete
<1>1. Init => CleanInv
  BY DEF Init, CleanInv
<1>2. TypeOK /\ CleanInv => CleanEofIsComplete
  <2> SUFFICES ASSUME TypeOK, CleanInv, eof, ~killed
               PROVE  Len(read) = FinSeq - FirstData
    BY DEF CleanEofIsComplete
  <2>1. Len(rxChan) = 0
    BY EmptySeq DEF CleanInv
  <2> QED
    BY <2>1 DEF CleanInv, TypeOK
<1> QED
  BY <1>1, <1>2, CleanInvStep, TypeCorrect, RxShapeInvariant, StreamDelivered, PTL
  DEF Spec

=============================================================================
