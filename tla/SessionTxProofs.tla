--------------------------- MODULE SessionTxProofs ---------------------------
(***************************************************************************)
(* Proofs about SessionTx, for every high-water mark, frame size, drain    *)
(* cap and write size.  The lemmas describe what one drain takes and       *)
(* emits; IInv is the inductive invariant behind the frame theorems.       *)
(***************************************************************************)
EXTENDS MCSessionTx, SequenceTheorems, WellFoundedInduction, TLAPS

\* The parts of the state that a drain reads, well typed.
DrainState ==
    /\ txBuf \in Seq(Byte)
    /\ txSeq \in Nat
    /\ synNeeded \in BOOLEAN
    /\ closeReq \in BOOLEAN
    /\ finSent \in BOOLEAN

\* How many frames and bytes a drain takes (drainTx's loop bounds).
LEMMA DrainAmounts ==
    ASSUME DrainState, NEW m \in Nat
    PROVE  /\ DataFrames \in Nat
           /\ synNeeded => DataFrames >= 1
           /\ FramesTaken(m) \in Nat
           /\ synNeeded => FramesTaken(m) >= 1
           /\ BytesTaken(m) \in 0..Len(txBuf)
           /\ EmitsFin(m) \in BOOLEAN
           /\ EmitsFin(m) => BytesTaken(m) = Len(txBuf)
<1>1. Len(txBuf) \in Nat
  BY DEF DrainState
<1>2. (Len(txBuf) + MaxFramePayload - 1) \div MaxFramePayload \in Nat
  BY <1>1, PayloadAssumption
<1>3. DataFrames \in Nat /\ (synNeeded => DataFrames >= 1)
  BY <1>2 DEF DataFrames, DrainState
<1>4. FramesTaken(m) \in Nat /\ (synNeeded => FramesTaken(m) >= 1)
  BY <1>3 DEF FramesTaken, TakesAll
<1>5. m * MaxFramePayload \in Nat
  BY PayloadAssumption
<1>6. BytesTaken(m) \in 0..Len(txBuf)
  BY <1>1, <1>5 DEF BytesTaken, MinOf
<1>7. EmitsFin(m) => BytesTaken(m) = Len(txBuf)
  BY <1>3 DEF EmitsFin, RoomForFin, BytesTaken, TakesAll
<1> QED
  BY <1>3, <1>4, <1>6, <1>7 DEF EmitsFin, RoomForFin, DrainState

\* Every frame of a drain is a frame, and the emitted sequence is the data
\* frames followed by the FIN if there is one.
LEMMA DrainedFrames ==
    ASSUME DrainState, NEW m \in Nat
    PROVE  /\ Drained(m) \in Seq(Frame)
           /\ Len(Drained(m)) = FramesTaken(m) + (IF EmitsFin(m) THEN 1 ELSE 0)
           /\ \A i \in 1..FramesTaken(m) : Drained(m)[i] = DataFrame(i)
           /\ EmitsFin(m) => Drained(m)[FramesTaken(m) + 1] = FinFrame(m)
<1> DEFINE data == [i \in 1..FramesTaken(m) |-> DataFrame(i)]
           fin  == IF EmitsFin(m) THEN <<FinFrame(m)>> ELSE <<>>
<1>1. FramesTaken(m) \in Nat /\ EmitsFin(m) \in BOOLEAN
  BY DrainAmounts
<1>2. ASSUME NEW i \in 1..FramesTaken(m)
      PROVE  DataFrame(i) \in Frame
  <2>1. i \in Nat /\ i >= 1
    BY <1>1
  <2>2. (i - 1) * MaxFramePayload \in Nat /\ i * MaxFramePayload \in Nat
    BY <2>1, PayloadAssumption
  <2> DEFINE from == (i - 1) * MaxFramePayload + 1
             to   == MinOf(i * MaxFramePayload, Len(txBuf))
  <2>3. from \in Int /\ from >= 1 /\ to \in Int /\ to <= Len(txBuf)
    BY <2>2 DEF MinOf, DrainState
  <2> HIDE DEF from, to
  <2>4. \A k \in from..to : txBuf[k] \in Byte
    BY <2>3 DEF DrainState
  <2>5. SubSeq(txBuf, from, to) \in Seq(Byte)
    BY <2>3, <2>4, SubSeqProperties
  <2>6. txSeq + i - 1 \in Nat
    BY <2>1 DEF DrainState
  <2> QED
    BY <2>5, <2>6 DEF DataFrame, Frame, from, to, DrainState
<1>3. data \in Seq(Frame) /\ Len(data) = FramesTaken(m)
  BY <1>1, <1>2
<1>4. FinFrame(m) \in Frame
  BY <1>1 DEF FinFrame, Frame, DrainState
<1>5. fin \in Seq(Frame) /\ Len(fin) = (IF EmitsFin(m) THEN 1 ELSE 0)
  BY <1>1, <1>4
<1>6. EmitsFin(m) => fin[1] = FinFrame(m)
  OBVIOUS
<1>7. Drained(m) = data \o fin
  BY DEF Drained
<1> HIDE DEF data, fin
<1>8. /\ data \o fin \in Seq(Frame)
      /\ Len(data \o fin) = Len(data) + Len(fin)
      /\ \A i \in 1 .. Len(data) + Len(fin) : (data \o fin)[i] =
             IF i <= Len(data) THEN data[i] ELSE fin[i - Len(data)]
  BY <1>3, <1>5, ConcatProperties
<1>9. \A i \in 1..FramesTaken(m) : data[i] = DataFrame(i)
  BY DEF data
<1>10. \A i \in 1..FramesTaken(m) : (data \o fin)[i] = DataFrame(i)
  BY <1>1, <1>3, <1>5, <1>8, <1>9
<1>11. EmitsFin(m) => (data \o fin)[FramesTaken(m) + 1] = FinFrame(m)
  BY <1>1, <1>3, <1>5, <1>6, <1>8
<1> QED
  BY <1>3, <1>5, <1>7, <1>8, <1>10, <1>11

\* Concatenation of byte sequences, with the quantifiers the provers need.
LEMMA ByteConcatAssociative ==
    \A s, t, u \in Seq(Byte) : (s \o t) \o u = s \o (t \o u)
  BY ConcatAssociative

\* And with nothing.
LEMMA ByteConcatEmpty ==
    \A s, e \in Seq(Byte) : Len(e) = 0 => s \o e = s /\ e \o s = s
<1> SUFFICES ASSUME NEW s \in Seq(Byte), NEW e \in Seq(Byte), Len(e) = 0
             PROVE  s \o e = s /\ e \o s = s
  OBVIOUS
<1>1. e = <<>>
  BY EmptySeq
<1> QED
  BY <1>1, ConcatEmptySeq

\* The bytes a writer hands over are bytes.
LEMMA NextBytesType ==
    ASSUME given \in Nat, NEW n \in Nat
    PROVE  NextBytes(n) \in Seq(Byte) /\ Len(NextBytes(n)) = n
  BY DEF NextBytes, Byte

\* A read into the writer's buffer may change the bytes that wait there, never
\* how many they are; a buffer of its own it leaves alone.
LEMMA OverwrittenType ==
    ASSUME TypeOK, NEW n \in Nat
    PROVE  /\ Overwritten(n) \in Seq(Byte) /\ Len(Overwritten(n)) = Len(txBuf)
           /\ txBuf = <<>> => Overwritten(n) = <<>>
           /\ lent = 0 => Overwritten(n) = txBuf
<1> DEFINE L == Len(txBuf)
           W(i) == IF lent > 0 /\ lent + i - 1 <= n THEN given + lent + i - 1 ELSE txBuf[i]
<1>1. /\ L \in Nat /\ txBuf \in Seq(Byte) /\ lent \in Nat /\ given \in Nat
      /\ \A i \in 1..L : txBuf[i] \in Byte
  BY DEF TypeOK
<1>2. Overwritten(n) = [i \in 1..L |-> W(i)]
  BY DEF Overwritten
<1>3. \A i \in 1..L : W(i) \in Byte
  BY <1>1 DEF Byte
<1>4. lent = 0 => \A i \in 1..L : W(i) = txBuf[i]
  BY <1>1
<1>5. txBuf = [i \in 1..L |-> txBuf[i]]
  BY <1>1
<1> HIDE DEF W, L
<1>6. Overwritten(n) \in Seq(Byte) /\ Len(Overwritten(n)) = L
  BY <1>1, <1>2, <1>3
<1>7. lent = 0 => Overwritten(n) = txBuf
  BY <1>2, <1>4, <1>5
<1>8. txBuf = <<>> => Overwritten(n) = <<>>
  BY <1>6, EmptySeq DEF L
<1> QED
  BY <1>6, <1>7, <1>8 DEF L

-----------------------------------------------------------------------------
\* TypeOK holds in every reachable state of a session, client or exit.
THEOREM TypeCorrect == Spec => []TypeOK
<1>1. Init => TypeOK
  <2> SUFFICES ASSUME Init PROVE TypeOK
    OBVIOUS
  <2>1. txBuf \in Seq(Byte) /\ chunk \in Seq(Byte) /\ written \in Seq(Byte)
        /\ sent \in Seq(Byte)
    BY EmptySeq DEF Init
  <2>2. out \in Seq(Frame)
    BY EmptySeq DEF Init
  <2>3. synNeeded \in BOOLEAN /\ queued \in BOOLEAN
    BY DEF Init
  <2>4. /\ needsSYN \in BOOLEAN
        /\ txSeq \in Nat /\ given \in Nat /\ lent \in Nat
        /\ closeReq \in BOOLEAN /\ finSent \in BOOLEAN /\ early \in BOOLEAN
        /\ writer \in {"idle", "write", "enqueue", "waiting"}
    BY DEF Init
  <2> QED
    BY <2>1, <2>2, <2>3, <2>4 DEF TypeOK
<1>2. TypeOK /\ [Next]_vars => TypeOK'
  <2> SUFFICES ASSUME TypeOK, [Next]_vars PROVE TypeOK'
    OBVIOUS
  <2> USE DEF TypeOK
  <2>1. ASSUME NEW n \in 1..MaxWrite, ReadSource(n) PROVE TypeOK'
    <3>0. n \in Nat
      BY WriteAssumption
    <3>1. NextBytes(n) \in Seq(Byte) /\ Overwritten(n) \in Seq(Byte)
      BY <3>0, NextBytesType, OverwrittenType
    <3>2. given' \in Nat
      BY <2>1, <3>0 DEF ReadSource
    <3> QED
      BY <2>1, <3>1, <3>2 DEF ReadSource
  <2>2. CASE EnqueueInitialData \/ StartEnqueueTx
    <3>1. CASE EnqueueInitialData
      <4>1. txBuf' \in Seq(Byte) /\ written' \in Seq(Byte)
        BY <3>1, ConcatProperties DEF EnqueueInitialData
      <4>2. lent' \in Nat
        BY <3>1 DEF EnqueueInitialData
      <4> QED
        BY <3>1, <4>1, <4>2, EmptySeq DEF EnqueueInitialData
    <3>2. CASE StartEnqueueTx
      BY <3>2 DEF StartEnqueueTx
    <3> QED
      BY <2>2, <3>1, <3>2
  <2>3. CASE EnqueueTxWait
    BY <2>3 DEF EnqueueTxWait
  <2>4. CASE EnqueueTxClosed
    BY <2>4, EmptySeq DEF EnqueueTxClosed
  <2>5. CASE EnqueueTxAppend
    <3>1. txBuf' \in Seq(Byte) /\ written' \in Seq(Byte)
      BY <2>5, ConcatProperties DEF EnqueueTxAppend
    <3>2. lent' \in Nat
      BY <2>5 DEF EnqueueTxAppend, LentBehind
    <3> QED
      BY <2>5, <3>1, <3>2, EmptySeq DEF EnqueueTxAppend
  <2>6. CASE RequestClose
    BY <2>6 DEF RequestClose, Broadcast
  <2>7. ASSUME NEW m \in 0..MaxDrainFrames, DrainTx(m) PROVE TypeOK'
    <3>1. DrainState /\ m \in Nat
      BY DrainAssumption DEF DrainState
    <3>2. /\ BytesTaken(m) \in 0..Len(txBuf)
          /\ EmitsFin(m) \in BOOLEAN
      BY <3>1, DrainAmounts
    <3>3. Drained(m) \in Seq(Frame)
      BY <3>1, DrainedFrames
    <3>4. \A k \in 1..Len(txBuf) : txBuf[k] \in Byte
      OBVIOUS
    <3>5. /\ SubSeq(txBuf, 1, BytesTaken(m)) \in Seq(Byte)
          /\ SubSeq(txBuf, BytesTaken(m) + 1, Len(txBuf)) \in Seq(Byte)
      BY <3>2, <3>4, SubSeqProperties
    <3>6. out' \in Seq(Frame) /\ sent' \in Seq(Byte) /\ txBuf' \in Seq(Byte)
      BY <2>7, <3>3, <3>5, ConcatProperties DEF DrainTx
    <3>7. txSeq' \in Nat
      BY <2>7, <3>3 DEF DrainTx
    <3>8. finSent' \in BOOLEAN /\ queued' \in BOOLEAN /\ synNeeded' \in BOOLEAN
      BY <2>7, <3>2 DEF DrainTx, ClearsQueueAge
    <3>9. lent' \in Nat
      BY <2>7, <3>2 DEF DrainTx
    <3> QED
      BY <2>7, <3>6, <3>7, <3>8, <3>9 DEF DrainTx, Broadcast
  <2>8. CASE UNCHANGED vars
    BY <2>8 DEF vars
  <2> QED
    BY <2>1, <2>2, <2>3, <2>4, <2>5, <2>6, <2>7, <2>8
    DEF Next, Read, Write, EnqueueTx, Drain
<1> QED
  BY <1>1, <1>2, PTL DEF Spec

-----------------------------------------------------------------------------
\* The numbers and flags of the frames of one drain.
LEMMA DrainedFlags ==
    ASSUME DrainState, NEW m \in Nat
    PROVE  \A j \in 1..Len(Drained(m)) :
              /\ Drained(m)[j].seq = txSeq + j - 1
              /\ Drained(m)[j].syn <=> (synNeeded /\ j = 1)
              /\ Drained(m)[j].fin <=> (EmitsFin(m) /\ j = Len(Drained(m)))
<1> SUFFICES ASSUME NEW j \in 1..Len(Drained(m))
             PROVE  /\ Drained(m)[j].seq = txSeq + j - 1
                    /\ Drained(m)[j].syn <=> (synNeeded /\ j = 1)
                    /\ Drained(m)[j].fin <=> (EmitsFin(m) /\ j = Len(Drained(m)))
  OBVIOUS
<1>1. /\ FramesTaken(m) \in Nat
      /\ synNeeded => FramesTaken(m) >= 1
      /\ EmitsFin(m) \in BOOLEAN
  BY DrainAmounts
<1>2. /\ Len(Drained(m)) = FramesTaken(m) + (IF EmitsFin(m) THEN 1 ELSE 0)
      /\ \A i \in 1..FramesTaken(m) : Drained(m)[i] = DataFrame(i)
      /\ EmitsFin(m) => Drained(m)[FramesTaken(m) + 1] = FinFrame(m)
  BY DrainedFrames
<1>3. CASE j <= FramesTaken(m)
  <2>1. Drained(m)[j] = DataFrame(j)
    BY <1>1, <1>2, <1>3
  <2>2. EmitsFin(m) => j # Len(Drained(m))
    BY <1>1, <1>2, <1>3
  <2>3. /\ Drained(m)[j].seq = txSeq + j - 1
        /\ Drained(m)[j].syn = (synNeeded /\ j = 1)
        /\ Drained(m)[j].fin = FALSE
    BY <2>1 DEF DataFrame
  <2> QED
    BY <2>2, <2>3
<1>4. CASE ~(j <= FramesTaken(m))
  <2>1. EmitsFin(m) /\ j = FramesTaken(m) + 1 /\ j = Len(Drained(m))
    BY <1>1, <1>2, <1>4
  <2>2. Drained(m)[j] = FinFrame(m)
    BY <1>2, <2>1
  <2>3. ~(synNeeded /\ j = 1)
    BY <1>1, <2>1
  <2>4. txSeq + FramesTaken(m) = txSeq + j - 1
    BY <1>1, <2>1 DEF DrainState
  <2>5. /\ Drained(m)[j].seq = txSeq + FramesTaken(m)
        /\ Drained(m)[j].syn = FALSE
        /\ Drained(m)[j].fin = TRUE
    BY <2>2 DEF FinFrame
  <2> QED
    BY <2>1, <2>3, <2>4, <2>5
<1> QED
  BY <1>3, <1>4

FrameInv == TypeOK /\ ConsecutiveSeqs /\ SynFirst /\ FinIsLast

\* A drain extends the emitted frames without breaking their numbering or
\* flags.
LEMMA DrainKeepsFrames ==
    ASSUME FrameInv, NEW m \in Nat, DrainTx(m)
    PROVE  ConsecutiveSeqs' /\ SynFirst' /\ FinIsLast'
<1> DEFINE d == Drained(m)
<1>1. DrainState
  BY DEF DrainState, FrameInv, TypeOK
<1>2. /\ FramesTaken(m) \in Nat
      /\ synNeeded => FramesTaken(m) >= 1
      /\ BytesTaken(m) \in 0..Len(txBuf)
      /\ EmitsFin(m) \in BOOLEAN
      /\ EmitsFin(m) => BytesTaken(m) = Len(txBuf)
  BY <1>1, DrainAmounts
<1>3. /\ d \in Seq(Frame)
      /\ Len(d) = FramesTaken(m) + (IF EmitsFin(m) THEN 1 ELSE 0)
  BY <1>1, DrainedFrames
<1>4. \A j \in 1..Len(d) :
          /\ d[j].seq = txSeq + j - 1
          /\ d[j].syn <=> (synNeeded /\ j = 1)
          /\ d[j].fin <=> (EmitsFin(m) /\ j = Len(d))
  BY <1>1, DrainedFlags
<1> HIDE DEF d
<1>5. /\ out \in Seq(Frame) /\ Len(out) \in Nat /\ Len(d) \in Nat
      /\ txSeq = Len(out)
  BY <1>3 DEF FrameInv, TypeOK, ConsecutiveSeqs
<1>6. /\ Len(out') = Len(out) + Len(d)
      /\ \A i \in 1..Len(out) + Len(d) :
             out'[i] = IF i <= Len(out) THEN out[i] ELSE d[i - Len(out)]
  BY <1>3, <1>5, ConcatProperties DEF DrainTx, d
<1>7. ~finSent
  BY DEF DrainTx, HasPendingTx, FrameInv, FinIsLast, TypeOK
<1>8. txSeq' = Len(out')
  BY <1>5, <1>6 DEF DrainTx, d
<1>9. ASSUME NEW i \in 1..Len(out')
      PROVE  /\ out'[i].seq = i - 1
             /\ out'[i].syn <=> (needsSYN /\ i = 1)
             /\ out'[i].fin <=> (EmitsFin(m) /\ i = Len(out'))
  <2>1. CASE i <= Len(out)
    <3>1. out'[i] = out[i] /\ i \in 1..Len(out)
      BY <1>5, <1>6, <2>1
    <3>2. out[i].seq = i - 1 /\ (out[i].syn <=> (needsSYN /\ i = 1)) /\ ~out[i].fin
      BY <1>7, <3>1 DEF FrameInv, ConsecutiveSeqs, SynFirst, FinIsLast
    <3>3. EmitsFin(m) => i # Len(out')
      BY <1>2, <1>3, <1>5, <1>6, <2>1
    <3> QED
      BY <3>1, <3>2, <3>3
  <2>2. CASE ~(i <= Len(out))
    <3> DEFINE j == i - Len(out)
    <3>1. j \in 1..Len(d) /\ out'[i] = d[j]
      BY <1>5, <1>6, <2>2
    <3>2. d[j].seq = i - 1
      BY <1>4, <1>5, <3>1
    <3>3. (synNeeded /\ j = 1) <=> (needsSYN /\ i = 1)
      <4>1. synNeeded <=> (needsSYN /\ Len(out) = 0)
        BY <1>5, EmptySeq DEF FrameInv, SynFirst
      <4> QED
        BY <1>5, <2>2, <4>1
    <3>4. (j = Len(d)) <=> (i = Len(out'))
      BY <1>5, <1>6
    <3> QED
      BY <1>4, <3>1, <3>2, <3>3, <3>4
  <2> QED
    BY <2>1, <2>2
<1>10. ConsecutiveSeqs'
  BY <1>8, <1>9 DEF ConsecutiveSeqs
<1>11. SynFirst'
  <2>1. synNeeded' = FALSE
    BY DEF DrainTx
  <2>2. needsSYN => Len(out') > 0
    <3>1. needsSYN => (Len(out) > 0 \/ Len(d) > 0)
      BY <1>2, <1>3, <1>5, EmptySeq DEF FrameInv, SynFirst
    <3> QED
      BY <1>5, <1>6, <3>1
  <2>3. needsSYN => out' # <<>>
    BY <2>2
  <2>4. needsSYN' = needsSYN
    BY DEF DrainTx
  <2> QED
    BY <1>9, <2>1, <2>3, <2>4 DEF SynFirst
<1>12. FinIsLast'
  <2>1. finSent' <=> EmitsFin(m)
    BY <1>2, <1>7 DEF DrainTx, FrameInv, TypeOK
  <2>2. ASSUME EmitsFin(m) PROVE closeReq' /\ ~synNeeded' /\ txBuf' = <<>> /\ Len(out') > 0
    <3>1. txBuf' = SubSeq(txBuf, Len(txBuf) + 1, Len(txBuf))
      BY <1>2, <2>2 DEF DrainTx
    <3>2. txBuf' = <<>>
      BY <3>1, SubSeqEmpty DEF FrameInv, TypeOK
    <3>3. Len(out') > 0
      BY <1>2, <1>3, <1>5, <1>6, <2>2
    <3> QED
      BY <2>2, <3>2, <3>3 DEF DrainTx, EmitsFin
  <2> QED
    BY <1>9, <2>1, <2>2 DEF FinIsLast
<1> QED
  BY <1>10, <1>11, <1>12

\* No other step emits a frame, sends the SYN or refills the buffer of a
\* session whose FIN is out.
LEMMA OthersKeepFrames ==
    ASSUME FrameInv,
           \/ Read
           \/ Write
           \/ EnqueueTx
           \/ RequestClose
           \/ UNCHANGED vars
    PROVE  ConsecutiveSeqs' /\ SynFirst' /\ FinIsLast'
<1>1. UNCHANGED <<needsSYN, out, txSeq, synNeeded, finSent>>
  BY DEF Read, ReadSource, Write, EnqueueInitialData, StartEnqueueTx, EnqueueTx,
         EnqueueTxWait, EnqueueTxClosed, EnqueueTxAppend, RequestClose, vars
<1>2. finSent => closeReq' /\ txBuf' = txBuf
  <2>1. CASE Read
    <3>1. PICK n \in 1..MaxWrite : ReadSource(n)
      BY <2>1 DEF Read
    <3>2. n \in Nat
      BY WriteAssumption
    <3>3. txBuf = <<>> => Overwritten(n) = <<>>
      BY <3>2, OverwrittenType DEF FrameInv
    <3> QED
      BY <3>1, <3>3 DEF FrameInv, FinIsLast, ReadSource
  <2>2. CASE ~Read
    BY <2>2
    DEF FrameInv, FinIsLast, Write, EnqueueInitialData, StartEnqueueTx, EnqueueTx,
        EnqueueTxWait, EnqueueTxClosed, EnqueueTxAppend, RequestClose, vars
  <2> QED
    BY <2>1, <2>2
<1> QED
  BY <1>1, <1>2 DEF FrameInv, ConsecutiveSeqs, SynFirst, FinIsLast

\* The frames of a session are numbered without a gap, carry the SYN first and
\* the FIN last, with the buffer empty behind it: for every cap, frame size and
\* interleaving of writes, closes and drains.
THEOREM FramesWellFormed == Spec => []WellFormedFrames
<1>1. Init => ConsecutiveSeqs /\ SynFirst /\ FinIsLast
  BY DEF Init, ConsecutiveSeqs, SynFirst, FinIsLast
<1>2. TypeOK /\ ConsecutiveSeqs /\ SynFirst /\ FinIsLast /\ [Next]_vars
      => (ConsecutiveSeqs /\ SynFirst /\ FinIsLast)'
  <2> SUFFICES ASSUME FrameInv, [Next]_vars
               PROVE  ConsecutiveSeqs' /\ SynFirst' /\ FinIsLast'
    BY DEF FrameInv
  <2>1. CASE Drain
    BY <2>1, DrainKeepsFrames, DrainAssumption DEF Drain
  <2>2. CASE ~Drain
    BY <2>2, OthersKeepFrames DEF Next
  <2> QED
    BY <2>1, <2>2
<1> QED
  BY <1>1, <1>2, TypeCorrect, PTL DEF Spec, WellFormedFrames

-----------------------------------------------------------------------------
\* Data or a FIN that waits has a queue timestamp, and a writer that is parked
\* in txCond.Wait has a reason to be: every interleaving of RequestClose, the
\* drains and the writer keeps both.
THEOREM NoStarvation == Spec => []NothingForgotten
<1>1. Init => PendingHasQueueAge /\ NoLostWakeup
  BY DEF Init, PendingHasQueueAge, NoLostWakeup, HasPendingTx
<1>2. /\ TypeOK
      /\ ConsecutiveSeqs /\ SynFirst /\ FinIsLast
      /\ PendingHasQueueAge /\ NoLostWakeup
      /\ [Next]_vars
      => (PendingHasQueueAge /\ NoLostWakeup)'
  <2> SUFFICES ASSUME TypeOK, FinIsLast, PendingHasQueueAge, NoLostWakeup,
                      [Next]_vars
               PROVE  PendingHasQueueAge' /\ NoLostWakeup'
    OBVIOUS
  <2> USE DEF PendingHasQueueAge, NoLostWakeup, HasPendingTx
  <2>1. ASSUME NEW n \in 1..MaxWrite, ReadSource(n)
        PROVE  PendingHasQueueAge' /\ NoLostWakeup'
    <3>1. Len(Overwritten(n)) = Len(txBuf)
      BY OverwrittenType, WriteAssumption
    <3> QED
      BY <2>1, <3>1 DEF ReadSource
  <2>2. CASE EnqueueInitialData \/ StartEnqueueTx
    BY <2>2 DEF EnqueueInitialData, StartEnqueueTx
  <2>3. CASE EnqueueTxWait
    BY <2>3 DEF EnqueueTxWait
  <2>4. CASE EnqueueTxClosed
    BY <2>4 DEF EnqueueTxClosed
  <2>5. CASE EnqueueTxAppend
    BY <2>5 DEF EnqueueTxAppend
  <2>6. CASE RequestClose
    BY <2>6 DEF RequestClose, Broadcast
  <2>7. ASSUME NEW m \in 0..MaxDrainFrames, DrainTx(m)
        PROVE  PendingHasQueueAge' /\ NoLostWakeup'
    <3>1. NoLostWakeup'
      BY <2>7 DEF DrainTx, Broadcast
    <3>2. DrainState /\ m \in Nat
      BY DrainAssumption DEF DrainState, TypeOK
    <3>3. BytesTaken(m) \in 0..Len(txBuf) /\ EmitsFin(m) \in BOOLEAN
      BY <3>2, DrainAmounts
    <3>4. queued
      BY <2>7 DEF DrainTx
    <3>5. CASE ~ClearsQueueAge(m)
      <4>1. queued' = TRUE
        BY <2>7, <3>4, <3>5 DEF DrainTx
      <4> QED
        BY <3>1, <4>1
    <3>6. CASE ClearsQueueAge(m)
      <4>1. txBuf' = SubSeq(txBuf, Len(txBuf) + 1, Len(txBuf))
        BY <2>7, <3>6 DEF DrainTx, ClearsQueueAge
      <4>2. txBuf' = <<>> /\ Len(txBuf') = 0
        BY <4>1, SubSeqEmpty, EmptySeq DEF TypeOK
      <4>3. closeReq' => finSent'
        BY <2>7, <3>6 DEF DrainTx, ClearsQueueAge
      <4>4. ~synNeeded'
        BY <2>7 DEF DrainTx
      <4>5. ~HasPendingTx'
        BY <4>2, <4>3, <4>4
      <4> QED
        BY <3>1, <4>5
    <3> QED
      BY <3>1, <3>5, <3>6
  <2>8. CASE UNCHANGED vars
    BY <2>8 DEF vars
  <2> QED
    BY <2>1, <2>2, <2>3, <2>4, <2>5, <2>6, <2>7, <2>8
    DEF Next, Read, Write, EnqueueTx, Drain
<1> QED
  BY <1>1, <1>2, TypeCorrect, FramesWellFormed, PTL DEF Spec, WellFormedFrames, NothingForgotten

\* A session stays a client's or an exit's.
LEMMA NeedsSYNFixed == [Next]_vars => needsSYN' = needsSYN
  BY DEF Next, Read, ReadSource, Write, EnqueueInitialData, StartEnqueueTx, EnqueueTx,
         EnqueueTxWait, EnqueueTxClosed, EnqueueTxAppend, RequestClose, Drain, DrainTx, vars

\* Only a write before the SYN leaves txBuf in the writer's buffer.
OwnArray == ~early => lent = 0

\* As long as no write has come before the SYN, which on the exit none does, the
\* bytes emitted followed by the bytes still buffered are exactly the bytes
\* accepted, in order: the stream is never reordered, cut or repeated by the
\* writer's next read, by chunking, caps or closes.
THEOREM ExitStreamInOrder == Spec => []StreamInOrder
<1>1. Init => OwnArray /\ StreamInOrder
  BY EmptySeq, ConcatEmptySeq DEF Init, OwnArray, StreamInOrder
<1>2. TypeOK /\ OwnArray /\ StreamInOrder /\ [Next]_vars => (OwnArray /\ StreamInOrder)'
  <2> SUFFICES ASSUME TypeOK, OwnArray, StreamInOrder, [Next]_vars
               PROVE  OwnArray' /\ StreamInOrder'
    OBVIOUS
  <2>0. CASE early'
    BY <2>0 DEF OwnArray, StreamInOrder
  <2> SUFFICES ASSUME ~early'
               PROVE  OwnArray' /\ StreamInOrder'
    BY <2>0
  <2>a. ~early /\ ~EnqueueInitialData /\ lent = 0
    BY DEF Next, Read, ReadSource, Write, EnqueueInitialData, StartEnqueueTx, EnqueueTx,
           EnqueueTxWait, EnqueueTxClosed, EnqueueTxAppend, RequestClose, Drain, DrainTx,
           vars, OwnArray
  <2>b. OwnArray'
    BY <2>a DEF Next, Read, ReadSource, Write, StartEnqueueTx, EnqueueTx, EnqueueTxWait,
           EnqueueTxClosed, EnqueueTxAppend, LentBehind, RequestClose, Drain, DrainTx, vars,
           OwnArray
  <2> SUFFICES StreamInOrder'
    BY <2>b
  <2>1. /\ sent \in Seq(Byte) /\ txBuf \in Seq(Byte) /\ chunk \in Seq(Byte)
        /\ written = sent \o txBuf
    BY <2>a DEF TypeOK, StreamInOrder
  <2>2. ASSUME NEW n \in 1..MaxWrite, ReadSource(n) PROVE StreamInOrder'
    <3>1. Overwritten(n) = txBuf
      BY <2>a, OverwrittenType, WriteAssumption
    <3> QED
      BY <2>1, <2>2, <3>1 DEF ReadSource, StreamInOrder
  <2>3. CASE EnqueueTxAppend
    <3>1. (sent \o txBuf) \o chunk = sent \o (txBuf \o chunk)
      BY <2>1, ConcatAssociative
    <3> QED
      BY <2>1, <2>3, <3>1 DEF EnqueueTxAppend, StreamInOrder
  <2>4. ASSUME NEW m \in 0..MaxDrainFrames, DrainTx(m) PROVE StreamInOrder'
    <3> DEFINE b == BytesTaken(m)
               front == SubSeq(txBuf, 1, b)
               rest  == SubSeq(txBuf, b + 1, Len(txBuf))
    <3>1. DrainState /\ m \in Nat
      BY DrainAssumption DEF DrainState, TypeOK
    <3>2. b \in 0..Len(txBuf)
      BY <3>1, DrainAmounts
    <3>3. \A k \in 1..Len(txBuf) : txBuf[k] \in Byte
      BY <2>1
    <3> HIDE DEF b
    <3>4. front \in Seq(Byte) /\ rest \in Seq(Byte)
      BY <2>1, <3>2, <3>3, SubSeqProperties
    <3>5. front \o rest = SubSeq(txBuf, 1, Len(txBuf))
      <4>1. /\ 1 \in 1 .. Len(txBuf) + 1
            /\ b \in 1 - 1 .. Len(txBuf)
            /\ Len(txBuf) \in b .. Len(txBuf)
        BY <2>1, <3>2
      <4>2. SubSeq(txBuf, 1, b) \o SubSeq(txBuf, b + 1, Len(txBuf))
            = SubSeq(txBuf, 1, Len(txBuf))
        BY <2>1, <4>1, ConcatAdjacentSubSeq
      <4> QED
        BY <4>2
    <3>6. front \o rest = txBuf
      BY <2>1, <3>5, SubSeqFull
    <3> HIDE DEF front, rest
    <3>7. (sent \o front) \o rest = sent \o txBuf
      <4>1. (sent \o front) \o rest = sent \o (front \o rest)
        BY <2>1, <3>4, ByteConcatAssociative, Zenon
      <4> QED
        BY <3>6, <4>1
    <3>8. sent' = sent \o front /\ txBuf' = rest /\ written' = written
      BY <2>4 DEF DrainTx, front, rest, b
    <3> QED
      BY <2>1, <3>7, <3>8 DEF StreamInOrder
  <2>5. CASE UNCHANGED <<sent, txBuf, written>>
    BY <2>1, <2>5 DEF StreamInOrder
  <2> QED
    BY <2>a, <2>2, <2>3, <2>4, <2>5
    DEF Next, Read, Write, EnqueueTx, StartEnqueueTx, EnqueueTxWait, EnqueueTxClosed,
        RequestClose, Drain, vars
<1> QED
  BY <1>1, <1>2, TypeCorrect, PTL DEF Spec

\* What the read pump is handing over is at most one read.
ChunkBounded == ~needsSYN => Len(chunk) <= MaxWrite

\* On the exit the buffer stays below the high-water mark plus one upstream
\* read, however slowly the client drains it.
THEOREM ExitBufferBounded == Spec => []BufferBounded
<1>1. Init => ChunkBounded /\ BufferBounded
  BY EmptySeq, WriteAssumption, WaterAssumption DEF Init, ChunkBounded, BufferBounded
<1>2. /\ TypeOK
      /\ ConsecutiveSeqs /\ SynFirst /\ FinIsLast
      /\ ChunkBounded /\ BufferBounded
      /\ [Next]_vars
      => (ChunkBounded /\ BufferBounded)'
  <2> SUFFICES ASSUME TypeOK, SynFirst, ChunkBounded, BufferBounded, [Next]_vars
               PROVE  ChunkBounded' /\ BufferBounded'
    OBVIOUS
  <2> USE DEF ChunkBounded, BufferBounded
  <2>0. needsSYN' = needsSYN
    BY NeedsSYNFixed
  <2> SUFFICES ASSUME ~needsSYN
               PROVE  ChunkBounded' /\ BufferBounded'
    BY <2>0
  <2>1. ~synNeeded
    BY DEF SynFirst
  <2>2. ASSUME NEW n \in 1..MaxWrite, ReadSource(n)
        PROVE  ChunkBounded' /\ BufferBounded'
    <3>1. chunk' = NextBytes(n) /\ txBuf' = Overwritten(n)
      BY <2>2 DEF ReadSource
    <3>2. Len(NextBytes(n)) = n /\ Len(Overwritten(n)) = Len(txBuf)
      BY <2>2, NextBytesType, OverwrittenType, WriteAssumption DEF TypeOK
    <3> QED
      BY <3>1, <3>2
  <2>3. CASE EnqueueTxAppend
    <3>1. Len(txBuf') = Len(txBuf) + Len(chunk)
      BY <2>3, ConcatProperties DEF EnqueueTxAppend, TypeOK
    <3>2. Len(txBuf) \in Nat /\ Len(chunk) \in Nat /\ Len(txBuf) <= TxBufHighWater
      BY <2>3 DEF EnqueueTxAppend, TypeOK
    <3>3. Len(chunk') = 0
      BY <2>3, EmptySeq DEF EnqueueTxAppend
    <3> QED
      BY <3>1, <3>2, <3>3, WaterAssumption, WriteAssumption
  <2>4. ASSUME NEW m \in 0..MaxDrainFrames, DrainTx(m)
        PROVE  ChunkBounded' /\ BufferBounded'
    <3>1. DrainState /\ m \in Nat
      BY DrainAssumption DEF DrainState, TypeOK
    <3>2. BytesTaken(m) \in 0..Len(txBuf) /\ Len(txBuf) \in Nat
      BY <3>1, DrainAmounts DEF TypeOK
    <3>3. \A k \in 1..Len(txBuf) : txBuf[k] \in Byte
      BY DEF TypeOK
    <3> DEFINE b == BytesTaken(m)
               rest == SubSeq(txBuf, b + 1, Len(txBuf))
    <3> HIDE DEF b
    <3>a. b \in 0..Len(txBuf) /\ txBuf' = rest
      BY <2>4, <3>2 DEF DrainTx, b
    <3>b. rest \in Seq(Byte) /\ Len(rest) <= Len(txBuf)
      BY <3>2, <3>3, <3>a, SubSeqProperties
    <3> HIDE DEF rest
    <3>4. Len(txBuf') <= Len(txBuf)
      BY <3>a, <3>b
    <3>5. txBuf' \in Seq(Byte) /\ Len(txBuf') \in Nat
      BY <3>a, <3>b
    <3>6. chunk' = chunk
      BY <2>4 DEF DrainTx
    <3>7. Len(txBuf) <= TxBufHighWater + MaxWrite
      OBVIOUS
    <3>8. \A i, j, k \in Nat : i <= j /\ j <= k => i <= k
      OBVIOUS
    <3>9. TxBufHighWater + MaxWrite \in Nat
      BY WaterAssumption, WriteAssumption
    <3>10. Len(txBuf') <= TxBufHighWater + MaxWrite
      BY <3>2, <3>4, <3>5, <3>7, <3>8, <3>9, Zenon
    <3> QED
      BY <2>0, <3>6, <3>10, Zenon
  <2>5. CASE EnqueueTxClosed
    BY <2>5, EmptySeq, WriteAssumption DEF EnqueueTxClosed
  <2>6. CASE UNCHANGED <<chunk, txBuf>>
    BY <2>6
  <2> QED
    BY <2>1, <2>2, <2>3, <2>4, <2>5, <2>6
    DEF Next, Read, Write, EnqueueTx, EnqueueInitialData, StartEnqueueTx, EnqueueTxWait,
        RequestClose, Drain, vars
<1> QED
  BY <1>1, <1>2, TypeCorrect, FramesWellFormed, PTL DEF Spec, WellFormedFrames

-----------------------------------------------------------------------------
(* The payloads, strung together. *)

\* F[i] is what the first i frames carry.
Strung(F) ==
    /\ F \in [1..Len(out) -> Seq(Byte)]
    /\ \A i \in 1..Len(out) :
           F[i] = IF i = 1 THEN out[i].payload ELSE F[i - 1] \o out[i].payload
    /\ sent = IF Len(out) = 0 THEN <<>> ELSE F[Len(out)]

\* The bytes of txBuf in the first k chunks.
Upto(k) == MinOf(k * MaxFramePayload, Len(txBuf))

\* A product grows with its factor.
LEMMA TimesMonotone ==
    ASSUME NEW a \in Nat, NEW b \in Nat, NEW p \in Nat, a <= b
    PROVE  a * p \in Nat /\ a * p <= b * p
<1>1. PICK c \in Nat : b = a + c
  <2>1. b - a \in Nat /\ b = a + (b - a)
    OBVIOUS
  <2> QED
    BY <2>1
<1>2. (a + c) * p = a * p + c * p
  OBVIOUS
<1>3. a * p \in Nat /\ c * p \in Nat
  OBVIOUS
<1> QED
  BY <1>1, <1>2, <1>3

\* The chunks of a drain are adjacent, and end where the drain does.
LEMMA ChunksAdjacent ==
    ASSUME DrainState, NEW m \in Nat
    PROVE  /\ \A k \in Nat : Upto(k) \in 0..Len(txBuf)
           /\ \A k \in 1..FramesTaken(m) :
                 /\ Upto(k - 1) = (k - 1) * MaxFramePayload
                 /\ Upto(k - 1) <= Upto(k) /\ Upto(k) - Upto(k - 1) <= MaxFramePayload
           /\ Upto(0) = 0
           /\ BytesTaken(m) = Upto(FramesTaken(m))
           /\ EmitsFin(m) => Upto(FramesTaken(m)) = Upto(FramesTaken(m) + 1)
<1> DEFINE P == MaxFramePayload
           L == Len(txBuf)
           c == (L + P - 1) \div P
<1>1. P \in Nat /\ P > 0 /\ L \in Nat
  BY PayloadAssumption DEF DrainState
<1>2. c \in Nat /\ c * P <= L + P - 1 /\ L + P - 1 < c * P + P
  <2>1. L + P - 1 \in Nat
    BY <1>1
  <2> HIDE DEF P, L
  <2>2. \A x \in Nat : x \div P \in Nat /\ (x \div P) * P <= x /\ x < (x \div P) * P + P
    BY <1>1
  <2> QED
    BY <2>1, <2>2
<1>3. c >= 1 => c * P = (c - 1) * P + P
  BY <1>1, <1>2
<1> HIDE DEF c
<1>4. /\ DataFrames \in Nat /\ DataFrames >= c
      /\ DataFrames = c \/ (DataFrames = 1 /\ L = 0)
  <2>1. DataFrames = IF synNeeded /\ c = 0 THEN 1 ELSE c
    BY DEF DataFrames, c
  <2>2. c = 0 => L = 0
    BY <1>1, <1>2
  <2> QED
    BY <1>2, <2>1, <2>2
<1>5. /\ FramesTaken(m) \in Nat /\ FramesTaken(m) <= DataFrames
      /\ TakesAll(m) => FramesTaken(m) = DataFrames
      /\ ~TakesAll(m) => FramesTaken(m) = m
      /\ EmitsFin(m) => TakesAll(m)
  BY <1>4 DEF FramesTaken, TakesAll, EmitsFin, RoomForFin
<1>6. \A k \in Nat : k * P \in Nat
  BY <1>1
<1>7. \A k \in Nat : Upto(k) \in 0..L
  BY <1>1, <1>6 DEF Upto, MinOf
<1>8. Upto(0) = 0
  BY <1>1 DEF Upto, MinOf
<1>9. \A k \in Nat : k >= DataFrames => Upto(k) = L
  <2> SUFFICES ASSUME NEW k \in Nat, k >= DataFrames PROVE Upto(k) = L
    OBVIOUS
  <2>1. c * P <= k * P
    BY <1>1, <1>2, <1>4, TimesMonotone
  <2>2. c * P \in Nat /\ k * P \in Nat
    BY <1>2, <1>6
  <2> HIDE DEF P, L
  <2>3. k * P >= L
    BY <1>1, <1>2, <2>1, <2>2
  <2>4. Upto(k) = MinOf(k * P, L)
    BY DEF Upto, P, L
  <2> QED
    BY <1>1, <2>2, <2>3, <2>4 DEF MinOf
<1>10. ASSUME NEW k \in 1..FramesTaken(m)
       PROVE  /\ Upto(k - 1) = (k - 1) * P
              /\ Upto(k - 1) <= Upto(k) /\ Upto(k) - Upto(k - 1) <= P
  <2>1. k - 1 \in Nat /\ k \in Nat /\ (k - 1) * P \in Nat /\ k * P \in Nat
    BY <1>5, <1>6
  <2>2. k * P = (k - 1) * P + P
    BY <1>1, <2>1
  <2>3. (k - 1) * P <= L
    <3>1. CASE c >= 1
      <4>1. c - 1 \in Nat /\ k - 1 <= c - 1
        BY <1>2, <1>4, <1>5, <2>1, <3>1
      <4>2. (k - 1) * P <= (c - 1) * P /\ (c - 1) * P \in Nat
        BY <1>1, <2>1, <4>1, TimesMonotone
      <4> HIDE DEF P, L
      <4>3. (c - 1) * P + P <= L + P - 1
        BY <1>2, <1>3, <3>1
      <4> QED
        BY <1>1, <2>1, <4>2, <4>3
    <3>2. CASE ~(c >= 1)
      <4>1. k - 1 = 0
        BY <1>2, <1>4, <1>5, <3>2
      <4> QED
        BY <1>1, <4>1
    <3> QED
      BY <3>1, <3>2
  <2>4. Upto(k - 1) = MinOf((k - 1) * P, L) /\ Upto(k) = MinOf(k * P, L)
    BY DEF Upto
  <2> HIDE DEF P, L
  <2> QED
    BY <1>1, <2>1, <2>2, <2>3, <2>4 DEF MinOf
<1>11. BytesTaken(m) = Upto(FramesTaken(m))
  <2>1. CASE TakesAll(m)
    BY <1>4, <1>5, <1>9, <2>1 DEF BytesTaken
  <2>2. CASE ~TakesAll(m)
    BY <1>1, <1>5, <1>6, <2>2 DEF BytesTaken, Upto, MinOf
  <2> QED
    BY <2>1, <2>2
<1>12. EmitsFin(m) => Upto(FramesTaken(m)) = Upto(FramesTaken(m) + 1)
  BY <1>4, <1>5, <1>9
<1> QED
  BY <1>7, <1>8, <1>10, <1>11, <1>12

\* The k-th frame of a drain carries on where the one before it stopped.
LEMMA DrainedPayload ==
    ASSUME DrainState, NEW m \in Nat, NEW k \in 1..Len(Drained(m))
    PROVE  /\ Drained(m)[k].payload \in Seq(Byte)
           /\ Len(Drained(m)[k].payload) <= MaxFramePayload
           /\ SubSeq(txBuf, 1, Upto(k - 1)) \o Drained(m)[k].payload
                = SubSeq(txBuf, 1, Upto(k))
<1> SUFFICES ASSUME NEW p, p = Drained(m)[k].payload
             PROVE  /\ p \in Seq(Byte) /\ Len(p) <= MaxFramePayload
                    /\ SubSeq(txBuf, 1, Upto(k - 1)) \o p = SubSeq(txBuf, 1, Upto(k))
  OBVIOUS
<1>1. /\ FramesTaken(m) \in Nat /\ EmitsFin(m) \in BOOLEAN
      /\ Len(Drained(m)) = FramesTaken(m) + (IF EmitsFin(m) THEN 1 ELSE 0)
      /\ \A i \in 1..FramesTaken(m) : Drained(m)[i] = DataFrame(i)
      /\ EmitsFin(m) => Drained(m)[FramesTaken(m) + 1] = FinFrame(m)
  BY DrainAmounts, DrainedFrames
<1>2. /\ k \in Nat /\ k - 1 \in Nat /\ k >= 1 /\ txBuf \in Seq(Byte) /\ Len(txBuf) \in Nat
      /\ \A i \in 1..Len(txBuf) : txBuf[i] \in Byte
      /\ MaxFramePayload \in Nat
  BY <1>1, PayloadAssumption DEF DrainState
<1>3. Upto(k - 1) \in 0..Len(txBuf) /\ Upto(k) \in 0..Len(txBuf)
  BY <1>2, ChunksAdjacent
<1>4. CASE k <= FramesTaken(m)
  <2>0. k \in 1..FramesTaken(m)
    BY <1>1, <1>2, <1>4
  <2>1. p = SubSeq(txBuf, Upto(k - 1) + 1, Upto(k))
    <3>1. Drained(m)[k] = DataFrame(k) /\ Upto(k - 1) = (k - 1) * MaxFramePayload
      BY <1>1, <2>0, ChunksAdjacent
    <3>2. DataFrame(k).payload = SubSeq(txBuf, (k - 1) * MaxFramePayload + 1, Upto(k))
      BY DEF DataFrame, Upto
    <3> QED
      BY <3>1, <3>2
  <2>2. Upto(k - 1) <= Upto(k) /\ Upto(k) - Upto(k - 1) <= MaxFramePayload
    BY <2>0, ChunksAdjacent
  <2>3. /\ p \in Seq(Byte)
        /\ Len(p) = IF Upto(k - 1) + 1 <= Upto(k) THEN Upto(k) - Upto(k - 1) ELSE 0
    BY <1>2, <1>3, <2>1, SubSeqProperties
  <2>4. /\ 1 \in 1 .. Len(txBuf) + 1 /\ Upto(k - 1) \in 1 - 1 .. Len(txBuf)
        /\ Upto(k) \in Upto(k - 1) .. Len(txBuf)
    BY <1>2, <1>3, <2>2
  <2>5. SubSeq(txBuf, 1, Upto(k - 1)) \o SubSeq(txBuf, Upto(k - 1) + 1, Upto(k))
          = SubSeq(txBuf, 1, Upto(k))
    BY <1>2, <2>4, ConcatAdjacentSubSeq
  <2>6. Len(p) <= MaxFramePayload
    BY <1>2, <1>3, <2>2, <2>3
  <2> QED
    BY <2>1, <2>3, <2>5, <2>6
<1>5. CASE ~(k <= FramesTaken(m))
  <2>1. EmitsFin(m) /\ k = FramesTaken(m) + 1
    BY <1>1, <1>2, <1>5
  <2>2. p = <<>> /\ Upto(k - 1) = Upto(k)
    <3>1. FinFrame(m).payload = <<>>
      BY DEF FinFrame
    <3>2. Drained(m)[k] = FinFrame(m)
      BY <1>1, <2>1
    <3>3. Upto(FramesTaken(m)) = Upto(FramesTaken(m) + 1) /\ k - 1 = FramesTaken(m)
      BY <1>1, <2>1, ChunksAdjacent
    <3> QED
      BY <2>1, <3>1, <3>2, <3>3
  <2>3. SubSeq(txBuf, 1, Upto(k)) \in Seq(Byte)
    BY <1>2, <1>3, SubSeqProperties
  <2>4. p \in Seq(Byte) /\ Len(p) = 0
    BY <2>2, EmptySeq
  <2>5. SubSeq(txBuf, 1, Upto(k)) \o p = SubSeq(txBuf, 1, Upto(k))
    BY <2>3, <2>4, ByteConcatEmpty, Zenon
  <2>6. SubSeq(txBuf, 1, Upto(k - 1)) \o p = SubSeq(txBuf, 1, Upto(k))
    BY <2>2, <2>5, Zenon
  <2>7. 0 <= MaxFramePayload
    BY <1>2
  <2> QED
    BY <2>4, <2>6, <2>7, Zenon
<1> QED
  BY <1>4, <1>5

\* A drain strings its payloads to what was sent before.
LEMMA DrainStrings ==
    ASSUME TypeOK, NEW F, Strung(F), NEW m \in Nat, DrainTx(m)
    PROVE  \E G : Strung(G)'
<1> DEFINE n == Len(out)
           d == Drained(m)
           Taken(k) == SubSeq(txBuf, 1, Upto(k))
           H == [i \in 1..n + Len(d) |-> IF i <= n THEN F[i] ELSE sent \o Taken(i - n)]
<1>1. /\ DrainState /\ out \in Seq(Frame) /\ n \in Nat /\ sent \in Seq(Byte)
      /\ txBuf \in Seq(Byte) /\ Len(txBuf) \in Nat
      /\ \A i \in 1..Len(txBuf) : txBuf[i] \in Byte
      /\ out' = out \o d /\ sent' = sent \o SubSeq(txBuf, 1, BytesTaken(m))
  BY DEF DrainState, TypeOK, DrainTx
<1>2. /\ FramesTaken(m) \in Nat /\ EmitsFin(m) \in BOOLEAN
      /\ d \in Seq(Frame) /\ Len(d) = FramesTaken(m) + (IF EmitsFin(m) THEN 1 ELSE 0)
  BY <1>1, DrainAmounts, DrainedFrames
<1>3. /\ Len(out') = n + Len(d) /\ Len(d) \in Nat
      /\ \A i \in 1..n + Len(d) : out'[i] = IF i <= n THEN out[i] ELSE d[i - n]
  <2> HIDE DEF d
  <2>1. out \in Seq(Frame) /\ d \in Seq(Frame) /\ out' = out \o d
    BY <1>1, <1>2
  <2> QED
    BY <2>1, ConcatProperties
<1>4. /\ Upto(0) = 0 /\ \A k \in Nat : Upto(k) \in 0..Len(txBuf)
      /\ BytesTaken(m) = Upto(Len(d))
  <2>1. /\ Upto(0) = 0 /\ \A k \in Nat : Upto(k) \in 0..Len(txBuf)
        /\ BytesTaken(m) = Upto(FramesTaken(m))
        /\ EmitsFin(m) => Upto(FramesTaken(m)) = Upto(FramesTaken(m) + 1)
    BY <1>1, ChunksAdjacent, Zenon
  <2>2. Len(d) = FramesTaken(m) \/ (EmitsFin(m) /\ Len(d) = FramesTaken(m) + 1)
    BY <1>2
  <2> HIDE DEF d
  <2>3. Upto(Len(d)) = Upto(FramesTaken(m))
    BY <2>1, <2>2, Zenon
  <2> QED
    BY <2>1, <2>3, Zenon
<1>5. \A k \in Nat : Taken(k) \in Seq(Byte) /\ Len(Taken(k)) = Upto(k)
  <2> TAKE k \in Nat
  <2>0. Upto(k) \in 0..Len(txBuf)
    BY <1>4, Zenon
  <2>1. Upto(k) \in Int /\ Upto(k) >= 0 /\ \A i \in 1..Upto(k) : txBuf[i] \in Byte
    <3> SUFFICES ASSUME NEW u \in 0..Len(txBuf)
                 PROVE  u \in Int /\ u >= 0 /\ \A i \in 1..u : txBuf[i] \in Byte
      BY <2>0, Zenon
    <3>1. Len(txBuf) \in Nat /\ \A i \in 1..Len(txBuf) : txBuf[i] \in Byte
      BY <1>1, Zenon
    <3> QED
      BY <3>1
  <2> QED
    BY <2>1, SubSeqProperties
<1>6. Taken(0) \in Seq(Byte) /\ Len(Taken(0)) = 0
  BY <1>4, <1>5
<1>7. \A k \in 1..Len(d) : d[k].payload \in Seq(Byte)
                           /\ Taken(k - 1) \o d[k].payload = Taken(k)
  BY <1>1, DrainedPayload, Zenon
<1>8. sent' = sent \o Taken(Len(d))
  BY <1>1, <1>4, Zenon
<1> HIDE DEF d, Taken
<1>9. \A k \in Nat : sent \o Taken(k) \in Seq(Byte)
  BY <1>1, <1>5, ConcatProperties
<1>10. sent \o Taken(0) = sent
  BY <1>1, <1>6, ByteConcatEmpty, Zenon
<1>11. ASSUME NEW k \in 1..Len(d)
       PROVE  sent \o Taken(k) = (sent \o Taken(k - 1)) \o d[k].payload
  <2>1. k - 1 \in Nat
    BY <1>3
  <2>2. (sent \o Taken(k - 1)) \o d[k].payload = sent \o (Taken(k - 1) \o d[k].payload)
    BY <1>1, <1>5, <1>7, <2>1, ByteConcatAssociative, Zenon
  <2> QED
    BY <1>7, <2>2
<1>0. PICK G : G = H
  OBVIOUS
<1>12. G \in [1..Len(out') -> Seq(Byte)]
  <2>1. \A i \in 1..n : F[i] \in Seq(Byte)
    BY DEF Strung
  <2>2. \A i \in 1..n + Len(d) : ~(i <= n) => i - n \in Nat
    BY <1>1, <1>3
  <2>3. \A i \in 1..n + Len(d) : i <= n => i \in 1..n
    BY <1>1, <1>3
  <2> QED
    BY <1>0, <1>3, <1>9, <2>1, <2>2, <2>3
<1>13. sent = IF n = 0 THEN <<>> ELSE F[n]
  BY DEF Strung
<1>14. \A i \in 1..n : G[i] = F[i]
  BY <1>0, <1>1, <1>3
<1>15. \A k \in 1..Len(d) : G[n + k] = sent \o Taken(k)
  BY <1>0, <1>1, <1>3
<1> HIDE DEF H, n
<1>16. ASSUME NEW i \in 1..Len(out')
       PROVE  G[i] = IF i = 1 THEN out'[i].payload ELSE G[i - 1] \o out'[i].payload
  <2>1. CASE i <= n
    <3>1. i \in 1..n /\ i # 1 => i - 1 \in 1..n
      BY <1>1, <1>3, <2>1 DEF n
    <3>2. i \in 1..n /\ out'[i] = out[i]
      BY <1>1, <1>3, <2>1
    <3>3. F[i] = IF i = 1 THEN out[i].payload ELSE F[i - 1] \o out[i].payload
      BY <3>2 DEF Strung, n
    <3> QED
      BY <1>14, <3>1, <3>2, <3>3
  <2>2. CASE ~(i <= n)
    <3>1. PICK k \in 1..Len(d) : i = n + k /\ out'[i] = d[k]
      <4>1. i - n \in 1..Len(d) /\ i = n + (i - n)
        BY <1>1, <1>3, <2>2
      <4> QED
        BY <1>3, <2>2, <4>1
    <3>2. G[i] = (sent \o Taken(k - 1)) \o out'[i].payload
      BY <1>11, <1>15, <3>1
    <3>3. CASE k = 1
      <4>0. k - 1 = 0
        BY <3>3
      <4>1. G[i] = sent \o out'[i].payload
        BY <1>10, <3>2, <4>0, Zenon
      <4>2. CASE n = 0
        <5>1. i = 1 /\ Len(sent) = 0 /\ out'[i].payload \in Seq(Byte)
          <6>1. i = 1 /\ sent = <<>>
            BY <1>13, <3>1, <3>3, <4>2
          <6>2. out'[i].payload \in Seq(Byte)
            BY <1>7, <3>1, Zenon
          <6> QED
            BY <6>1, <6>2
        <5>2. sent \o out'[i].payload = out'[i].payload
          BY <1>1, <5>1, ByteConcatEmpty, Zenon
        <5> QED
          BY <4>1, <5>1, <5>2
      <4>3. CASE n # 0
        <5>1. i # 1 /\ i - 1 = n /\ n \in 1..n
          BY <1>1, <3>1, <3>3, <4>3
        <5> QED
          BY <1>13, <1>14, <4>1, <4>3, <5>1
      <4> QED
        BY <4>2, <4>3
    <3>4. CASE k # 1
      <4>1. k - 1 \in 1..Len(d) /\ i - 1 = n + (k - 1) /\ i # 1
        BY <1>1, <1>3, <3>1, <3>4
      <4> QED
        BY <1>15, <3>2, <4>1
    <3> QED
      BY <3>3, <3>4
  <2> QED
    BY <2>1, <2>2
<1>17. sent' = IF Len(out') = 0 THEN <<>> ELSE G[Len(out')]
  <2>1. CASE Len(d) = 0
    <3>0. sent' = sent
      BY <1>8, <1>10, <2>1, Zenon
    <3>1. sent' = sent /\ Len(out') = n
      <4>1. n + 0 = n
        BY <1>1
      <4> QED
        BY <1>3, <2>1, <3>0, <4>1, Zenon
    <3>2. n # 0 => n \in 1..n
      BY <1>1
    <3> QED
      BY <1>13, <1>14, <3>1, <3>2
  <2>2. CASE Len(d) # 0
    <3>1. Len(d) \in 1..Len(d) /\ Len(out') # 0
      BY <1>1, <1>3, <2>2
    <3> QED
      BY <1>3, <1>8, <1>15, <3>1
  <2> QED
    BY <2>1, <2>2
<1>18. Strung(G)'
  BY <1>12, <1>16, <1>17 DEF Strung
<1> QED
  BY <1>18

-----------------------------------------------------------------------------
(* FlattenSeq of the library, a recursive function. *)

\* Induction over the natural numbers, for a set.
LEMMA SetInduction ==
    ASSUME NEW S, 0 \in S, \A n \in Nat : n \in S => n + 1 \in S
    PROVE  Nat \subseteq S
<1> DEFINE T == Nat \ S
           R == OpToRel(<, Nat)
<1>1. IsWellFoundedOn(R, Nat)
  BY NatLessThanWellFounded
<1>2. SUFFICES ASSUME T # {} PROVE FALSE
  OBVIOUS
<1>3. PICK x \in T : \A y \in T : <<y, x>> \notin R
  <2> HIDE DEF R
  <2> QED
    BY <1>1, <1>2, WFMin
<1>4. \A y \in T : ~(y < x)
  BY <1>3 DEF OpToRel
<1>5. x # 0 /\ x - 1 \in Nat
  OBVIOUS
<1>6. x - 1 \in S
  BY <1>4, <1>5
<1> QED
  BY <1>5, <1>6

\* The recursion of FlattenSeq.
IsFlatten(s, F) ==
    F = [i \in 1..Len(s) |-> IF i = 1 THEN s[i] ELSE F[i - 1] \o s[i]]

\* FlattenSeq is the last value of the recursion.
LEMMA FlattenDef ==
    ASSUME NEW s, Len(s) # 0
    PROVE  FlattenSeq(s) = (CHOOSE F : IsFlatten(s, F))[Len(s)]
  BY DEF FlattenSeq, IsFlatten

\* The recursion has one solution.
LEMMA FlattenUnique ==
    ASSUME NEW s, Len(s) \in Nat, NEW F, NEW G, IsFlatten(s, F), IsFlatten(s, G)
    PROVE  \A i \in 1..Len(s) : F[i] = G[i]
<1> DEFINE N == {n \in Nat : n \in 1..Len(s) => F[n] = G[n]}
<1>1. /\ \A i \in 1..Len(s) : F[i] = IF i = 1 THEN s[i] ELSE F[i - 1] \o s[i]
      /\ \A i \in 1..Len(s) : G[i] = IF i = 1 THEN s[i] ELSE G[i - 1] \o s[i]
  <2> DEFINE A(i) == IF i = 1 THEN s[i] ELSE F[i - 1] \o s[i]
             B(i) == IF i = 1 THEN s[i] ELSE G[i - 1] \o s[i]
  <2>1. F = [i \in 1..Len(s) |-> A(i)] /\ G = [i \in 1..Len(s) |-> B(i)]
    BY DEF IsFlatten
  <2> HIDE DEF A, B
  <2>2. (\A i \in 1..Len(s) : F[i] = A(i)) /\ (\A i \in 1..Len(s) : G[i] = B(i))
    BY <2>1
  <2> QED
    BY <2>2 DEF A, B
<1>2. 0 \in N
  OBVIOUS
<1>3. ASSUME NEW n \in Nat, n \in N
      PROVE  n + 1 \in N
  <2> SUFFICES ASSUME n + 1 \in 1..Len(s) PROVE F[n + 1] = G[n + 1]
    OBVIOUS
  <2>1. CASE n = 0
    BY <1>1, <2>1
  <2>2. CASE n # 0
    <3>1. n \in 1..Len(s) /\ n + 1 # 1 /\ (n + 1) - 1 = n
      BY <2>2
    <3>2. F[n] = G[n]
      BY <1>3, <3>1
    <3> QED
      BY <1>1, <3>1, <3>2
  <2> QED
    BY <2>1, <2>2
<1>4. Nat \subseteq N
  <2> HIDE DEF N
  <2> QED
    BY <1>2, <1>3, SetInduction
<1> QED
  BY <1>4

\* FlattenSeq of the payloads is what the last frame ends.
LEMMA StrungIsFlat ==
    ASSUME TypeOK, NEW F, Strung(F)
    PROVE  FlattenSeq([i \in 1..Len(out) |-> out[i].payload]) = sent
<1> DEFINE n == Len(out)
           S == [i \in 1..n |-> out[i].payload]
<1>1. n \in Nat
  BY DEF TypeOK
<1>2. Len(S) = n
  BY <1>1
<1>3. CASE n = 0
  <2>1. S = <<>> /\ sent = <<>>
    BY <1>3 DEF Strung
  <2> HIDE DEF S, n
  <2>2. FlattenSeq(S) = S
    BY <1>2, <1>3 DEF FlattenSeq
  <2> QED
    BY <2>1, <2>2 DEF S, n
<1>4. CASE n # 0
  <2>1. IsFlatten(S, F)
    <3> DEFINE A(i) == IF i = 1 THEN S[i] ELSE F[i - 1] \o S[i]
    <3>1. F \in [1..n -> Seq(Byte)] /\ \A i \in 1..n : S[i] = out[i].payload
      BY DEF Strung
    <3>2. \A i \in 1..n : F[i] = A(i)
      BY <3>1 DEF Strung
    <3> HIDE DEF A, S
    <3>3. F = [i \in 1..n |-> A(i)]
      BY <3>1, <3>2
    <3> QED
      BY <1>2, <3>3 DEF IsFlatten, A
  <2> DEFINE C == CHOOSE G : IsFlatten(S, G)
  <2> HIDE DEF S, n
  <2>2. IsFlatten(S, C)
    BY <2>1
  <2>3. FlattenSeq(S) = C[Len(S)]
    BY <1>2, <1>4, FlattenDef
  <2> HIDE DEF C
  <2>4. n \in 1..Len(S)
    BY <1>1, <1>2, <1>4
  <2>5. C[n] = F[n]
    BY <1>1, <1>2, <2>1, <2>2, <2>4, FlattenUnique
  <2>6. sent = F[n]
    BY <1>4 DEF Strung, n
  <2>7. FlattenSeq(S) = sent
    BY <1>2, <2>3, <2>5, <2>6
  <2> QED
    BY <2>7 DEF S, n
<1> QED
  BY <1>3, <1>4

-----------------------------------------------------------------------------
(* No byte disappears. *)

\* The lengths of a concatenation.
LEMMA LenOfConcat ==
    ASSUME NEW s \in Seq(Byte), NEW t \in Seq(Byte)
    PROVE  Len(s \o t) = Len(s) + Len(t) /\ Len(s) \in Nat /\ Len(t) \in Nat
  BY ConcatProperties

\* Every step keeps the count of the bytes.
LEMMA CountKept ==
    ASSUME TypeOK, NoByteMissing, [Next]_vars
    PROVE  NoByteMissing'
<1>1. /\ sent \in Seq(Byte) /\ txBuf \in Seq(Byte) /\ written \in Seq(Byte)
      /\ chunk \in Seq(Byte)
      /\ Len(sent) \in Nat /\ Len(txBuf) \in Nat /\ Len(written) \in Nat
      /\ Len(chunk) \in Nat
  BY DEF TypeOK
<1>2. Len(sent) + Len(txBuf) = Len(written)
  BY DEF NoByteMissing
<1>3. ASSUME txBuf' \in {chunk \o txBuf, txBuf \o chunk}, written' = written \o chunk,
             sent' = sent
      PROVE  NoByteMissing'
  <2>1. /\ Len(chunk \o txBuf) = Len(chunk) + Len(txBuf)
        /\ Len(txBuf \o chunk) = Len(txBuf) + Len(chunk)
        /\ Len(written \o chunk) = Len(written) + Len(chunk)
    BY <1>1, LenOfConcat
  <2>2. Len(txBuf') = Len(txBuf) + Len(chunk) /\ Len(written') = Len(written) + Len(chunk)
    BY <1>1, <1>3, <2>1
  <2>3. Len(sent') = Len(sent)
    BY <1>3
  <2>4. \A i, j, k, n \in Nat : i + j = k => i + (j + n) = k + n
    OBVIOUS
  <2>5. Len(sent) + (Len(txBuf) + Len(chunk)) = Len(written) + Len(chunk)
    <3> DEFINE i == Len(sent)
               j == Len(txBuf)
               k == Len(written)
               n == Len(chunk)
    <3>1. i \in Nat /\ j \in Nat /\ k \in Nat /\ n \in Nat /\ i + j = k
      BY <1>1, <1>2
    <3> HIDE DEF i, j, k, n
    <3>2. i + (j + n) = k + n
      BY <2>4, <3>1
    <3> QED
      BY <3>2 DEF i, j, k, n
  <2> QED
    BY <2>2, <2>3, <2>5, Zenon DEF NoByteMissing
<1>4. ASSUME NEW n \in 1..MaxWrite, ReadSource(n)
      PROVE  NoByteMissing'
  <2>1. Len(Overwritten(n)) = Len(txBuf)
    BY OverwrittenType, WriteAssumption
  <2> QED
    BY <1>2, <1>4, <2>1 DEF ReadSource, NoByteMissing
<1>5. CASE EnqueueInitialData
  BY <1>3, <1>5 DEF EnqueueInitialData
<1>6. CASE EnqueueTxAppend
  BY <1>3, <1>6 DEF EnqueueTxAppend
<1>7. ASSUME NEW m \in 0..MaxDrainFrames, DrainTx(m)
      PROVE  NoByteMissing'
  <2> DEFINE b == BytesTaken(m)
             front == SubSeq(txBuf, 1, b)
             rest  == SubSeq(txBuf, b + 1, Len(txBuf))
  <2>1. DrainState /\ m \in Nat
    BY DrainAssumption DEF DrainState, TypeOK
  <2>2. b \in 0..Len(txBuf)
    BY <2>1, DrainAmounts
  <2>3. \A k \in 1..Len(txBuf) : txBuf[k] \in Byte
    BY <1>1
  <2> HIDE DEF b
  <2>4. front \in Seq(Byte) /\ rest \in Seq(Byte)
    BY <1>1, <2>2, <2>3, SubSeqProperties
  <2>5. front \o rest = txBuf
    <3>1. /\ 1 \in 1 .. Len(txBuf) + 1 /\ b \in 1 - 1 .. Len(txBuf)
          /\ Len(txBuf) \in b .. Len(txBuf)
      BY <1>1, <2>2
    <3>2. front \o rest = SubSeq(txBuf, 1, Len(txBuf))
      BY <1>1, <3>1, ConcatAdjacentSubSeq
    <3> QED
      BY <1>1, <3>2, SubSeqFull
  <2>6. sent' = sent \o front /\ txBuf' = rest /\ written' = written
    BY <1>7 DEF DrainTx, b
  <2> HIDE DEF front, rest
  <2>7. /\ Len(sent \o front) = Len(sent) + Len(front)
        /\ Len(front \o rest) = Len(front) + Len(rest)
        /\ Len(front) \in Nat /\ Len(rest) \in Nat
    BY <1>1, <2>4, LenOfConcat
  <2> QED
    BY <1>1, <1>2, <2>5, <2>6, <2>7 DEF NoByteMissing
<1>8. CASE UNCHANGED <<sent, txBuf, written>>
  BY <1>2, <1>8 DEF NoByteMissing
<1> QED
  BY <1>4, <1>5, <1>6, <1>7, <1>8
     DEF Next, Read, Write, EnqueueTx, StartEnqueueTx, EnqueueTxWait, EnqueueTxClosed,
         RequestClose, Drain, vars

-----------------------------------------------------------------------------
\* What the frames carry, and how much each.
Carried == (\E F : Strung(F)) /\ \A i \in 1..Len(out) : Len(out[i].payload) <= MaxFramePayload

\* No frame yet.
LEMMA CarriedInit == Init => Carried /\ NoByteMissing
<1> SUFFICES ASSUME Init PROVE Carried /\ NoByteMissing
  OBVIOUS
<1>1. out = <<>> /\ sent = <<>> /\ txBuf = <<>> /\ written = <<>>
  BY DEF Init
<1>2. Len(out) = 0
  BY <1>1
<1>3. \E F : Strung(F)
  <2>1. Strung([i \in 1..0 |-> <<>>])
    BY <1>1, <1>2 DEF Strung
  <2> QED
    BY <2>1
<1>4. NoByteMissing
  BY <1>1 DEF NoByteMissing
<1> QED
  BY <1>2, <1>3, <1>4 DEF Carried

\* Every step keeps what the frames carry.
LEMMA CarriedStep ==
    ASSUME TypeOK, Carried, [Next]_vars
    PROVE  Carried'
<1>1. PICK F : Strung(F)
  BY DEF Carried
<1>2. CASE UNCHANGED <<out, sent>>
  <2>1. Strung(F)'
    BY <1>1, <1>2 DEF Strung
  <2>2. \A i \in 1..Len(out') : Len(out'[i].payload) <= MaxFramePayload
    BY <1>2 DEF Carried
  <2> QED
    BY <2>1, <2>2 DEF Carried
<1>3. ASSUME NEW m \in 0..MaxDrainFrames, DrainTx(m)
      PROVE  Carried'
  <2>1. m \in Nat /\ DrainState
    BY DrainAssumption DEF DrainState, TypeOK
  <2>2. \E G : Strung(G)'
    BY <1>1, <1>3, <2>1, DrainStrings
  <2> DEFINE d == Drained(m)
  <2>3. \A k \in 1..Len(d) : Len(d[k].payload) <= MaxFramePayload
    BY <2>1, DrainedPayload
  <2>4. d \in Seq(Frame) /\ out' = out \o d /\ out \in Seq(Frame)
    BY <1>3, <2>1, DrainedFrames DEF DrainTx, TypeOK
  <2> HIDE DEF d
  <2>5. /\ Len(out') = Len(out) + Len(d) /\ Len(d) \in Nat /\ Len(out) \in Nat
        /\ \A i \in 1..Len(out) + Len(d) :
               out'[i] = IF i <= Len(out) THEN out[i] ELSE d[i - Len(out)]
    BY <2>4, ConcatProperties
  <2>6. ASSUME NEW i \in 1..Len(out')
        PROVE  Len(out'[i].payload) <= MaxFramePayload
    <3>1. CASE i <= Len(out)
      <4>1. i \in 1..Len(out) /\ out'[i] = out[i]
        BY <2>5, <3>1
      <4> QED
        BY <4>1 DEF Carried
    <3>2. CASE ~(i <= Len(out))
      <4>1. i - Len(out) \in 1..Len(d) /\ out'[i] = d[i - Len(out)]
        BY <2>5, <3>2
      <4> QED
        BY <2>3, <4>1
    <3> QED
      BY <3>1, <3>2
  <2> QED
    BY <2>2, <2>6 DEF Carried
<1> QED
  BY <1>2, <1>3
     DEF Next, Read, ReadSource, Write, EnqueueTx, EnqueueInitialData, StartEnqueueTx,
         EnqueueTxWait, EnqueueTxClosed, EnqueueTxAppend, RequestClose, Drain, vars

\* What the peer gets when it strings the payloads together is what left txBuf,
\* no frame is too large, and what has left and what waits are as many bytes as
\* were accepted: for every frame size and cap, on the client and on the exit.
\* Which bytes they are is ExitStreamInOrder; of early writes it says nothing.
THEOREM FramesCarryAll == Spec => []FramesCarryStream
<1>1. Init => Carried /\ NoByteMissing
  BY CarriedInit
<1>2. TypeOK /\ Carried /\ NoByteMissing /\ [Next]_vars
      => (Carried /\ NoByteMissing)'
  BY CarriedStep, CountKept
<1>3. TypeOK /\ Carried /\ NoByteMissing => FramesCarryStream
  BY StrungIsFlat DEF Carried, FramesCarryStream
<1> QED
  BY <1>1, <1>2, <1>3, TypeCorrect, PTL DEF Spec

=============================================================================
