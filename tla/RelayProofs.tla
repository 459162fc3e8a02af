----------------------------- MODULE RelayProofs -----------------------------
(***************************************************************************)
(* Relay implements ByteStream in both directions, for every number of     *)
(* bytes and of repeated frames.                                           *)
(*                                                                         *)
(* A direction is a transmit half t, the receive half r at the other end,  *)
(* the bytes w accepted from the writer, and the frames between them.  The *)
(* facts about a direction are stated once for any t, r and w.             *)
(***************************************************************************)
EXTENDS Relay, SequenceTheorems, TLAPS

TxHalf == [buf : Seq(Nat), seq : Nat, syn : BOOLEAN, closeReq : BOOLEAN, finSent : BOOLEAN]
FrameType == [seq : Nat, syn : BOOLEAN, fin : BOOLEAN, data : Seq(Nat)]
RxHalf == [seq : Nat, queue : SUBSET FrameType, hand : Seq(Nat), sending : BOOLEAN,
           out : Seq(Nat), closed : BOOLEAN, eof : BOOLEAN, cut : BOOLEAN]

\* Bytes that have left, and frames that have left beside the FIN.
Sent(t, w) == Len(w) - Len(t.buf)
DataSent(t) == t.seq - (IF t.finSent THEN 1 ELSE 0)

\* Frame n carries byte n + 1, or byte n when the SYN has left without one.
Shift(t, w) == Sent(t, w) - DataSent(t)

\* The n-th byte a writer hands over, when the stream has begun early (e) or not.
Value(e, n) == IF e THEN 0 ELSE n

\* The bytes behind the first k.
Numbered(e, s, k) == \A i \in 1..Len(s) : s[i] = Value(e, k + i)

\* Bytes are numbered, and the ones that wait are the last ones.  Nothing is
\* behind the FIN, and only early bytes wait for the SYN.
TxInv(e, t, w) ==
    /\ t \in TxHalf /\ w \in Seq(Nat)
    /\ Numbered(e, w, 0)
    /\ Len(t.buf) <= Len(w)
    /\ Numbered(e, t.buf, Sent(t, w))
    /\ t.finSent => t.closeReq /\ t.buf = <<>> /\ ~t.syn /\ t.seq > 0
    /\ t.syn => t.seq = 0 /\ Sent(t, w) = 0 /\ (~e => Len(t.buf) = 0)
    /\ Shift(t, w) = 0 \/ (Shift(t, w) = -1 /\ DataSent(t) > 0)

\* What a frame carries is settled by its number.
FrameInv(e, t, w, f) ==
    /\ f \in FrameType
    /\ f.fin => t.finSent /\ f.seq = t.seq - 1 /\ f.data = <<>>
    /\ ~f.fin => /\ f.seq < DataSent(t)
                 /\ f.data = IF f.seq + 1 + Shift(t, w) = 0 THEN <<>>
                             ELSE <<Value(e, f.seq + 1 + Shift(t, w))>>

\* What was handed over and what is about to be are the stream up to frame
\* r.seq; once the FIN has been taken they are all of it.
RxInv(e, t, w, r) ==
    /\ r \in RxHalf
    /\ \A f \in r.queue : FrameInv(e, t, w, f)
    /\ Numbered(e, r.out, 0) /\ Numbered(e, r.hand, Len(r.out))
    /\ r.eof => r.closed /\ r.hand = <<>>
    /\ ~r.closed => /\ r.seq <= DataSent(t)
                    /\ Len(r.out) + Len(r.hand) = IF r.seq = 0 THEN 0 ELSE r.seq + Shift(t, w)
    /\ r.closed /\ ~r.eof => t.finSent /\ Len(r.out) + Len(r.hand) = Sent(t, w)

\* What a reader sees of a step of rxLoop: nothing, the next byte, or the end.
Unseen(r, q) == q.out = r.out /\ q.eof = r.eof /\ q.cut = r.cut

SeesByte(w, r, q) ==
    /\ ~r.eof /\ q.eof = r.eof /\ q.cut = r.cut
    /\ Len(r.out) < Len(w) /\ q.out = Append(r.out, w[Len(r.out) + 1])

SeesEnd(t, w, r, q) ==
    /\ ~r.eof /\ q.eof = TRUE /\ q.cut = r.cut /\ q.out = r.out
    /\ t.closeReq /\ ~t.syn /\ r.out = w

\* And of Stop, unless it has seen the end.
SeesCut(r, q) == q.out = r.out /\ q.eof = TRUE /\ q.cut = TRUE

-----------------------------------------------------------------------------
(* Numbered sequences. *)

\* A byte is a number.
LEMMA ValueType == \A e, n : n \in Nat => Value(e, n) \in Nat
  BY DEF Value

\* The next byte behind the last one.
LEMMA NumberedAppend ==
    ASSUME NEW e, NEW s \in Seq(Nat), NEW k \in Nat, Numbered(e, s, k),
           NEW n \in Nat, n = Value(e, k + Len(s) + 1)
    PROVE  /\ Append(s, n) \in Seq(Nat) /\ Len(Append(s, n)) = Len(s) + 1
           /\ Numbered(e, Append(s, n), k)
<1>1. /\ Append(s, n) \in Seq(Nat) /\ Len(Append(s, n)) = Len(s) + 1
      /\ \A i \in 1..Len(s) : Append(s, n)[i] = s[i]
      /\ Append(s, n)[Len(s) + 1] = n
  BY AppendProperties
<1>2. Len(s) \in Nat
  OBVIOUS
<1>3. ASSUME NEW i \in 1..(Len(s) + 1)
      PROVE  Append(s, n)[i] = Value(e, k + i)
  <2>1. CASE i = Len(s) + 1
    <3>1. k + i = k + Len(s) + 1
      BY <1>2, <2>1
    <3> QED
      BY <1>1, <2>1, <3>1
  <2>2. CASE i \in 1..Len(s)
    BY <1>1, <2>2 DEF Numbered
  <2> QED
    BY <1>2, <2>1, <2>2
<1> QED
  BY <1>1, <1>3 DEF Numbered

\* Without the first byte.
LEMMA NumberedTail ==
    ASSUME NEW e, NEW s \in Seq(Nat), NEW k \in Nat, Numbered(e, s, k), s # <<>>
    PROVE  /\ SubSeq(s, 2, Len(s)) \in Seq(Nat)
           /\ Len(s) > 0 /\ Len(SubSeq(s, 2, Len(s))) = Len(s) - 1
           /\ Numbered(e, SubSeq(s, 2, Len(s)), k + 1)
           /\ Head(s) = Value(e, k + 1)
<1>1. Len(s) \in Nat /\ Len(s) # 0
  BY EmptySeq
<1>2. \A i \in 2..Len(s) : s[i] \in Nat
  BY ElementOfSeq
<1>3. /\ SubSeq(s, 2, Len(s)) \in Seq(Nat)
      /\ Len(SubSeq(s, 2, Len(s))) = Len(s) - 1
      /\ \A i \in 1..(Len(s) - 1) : SubSeq(s, 2, Len(s))[i] = s[2 + i - 1]
  <2>1. /\ SubSeq(s, 2, Len(s)) \in Seq(Nat)
        /\ Len(SubSeq(s, 2, Len(s))) = IF 2 <= Len(s) THEN Len(s) - 2 + 1 ELSE 0
        /\ \A i \in 1..(Len(s) - 2 + 1) : SubSeq(s, 2, Len(s))[i] = s[2 + i - 1]
    BY <1>1, <1>2, SubSeqProperties
  <2>2. Len(s) - 2 + 1 = Len(s) - 1
    BY <1>1
  <2> QED
    BY <1>1, <2>1, <2>2
<1>4. Numbered(e, SubSeq(s, 2, Len(s)), k + 1)
  <2>1. ASSUME NEW i \in 1..(Len(s) - 1)
        PROVE  SubSeq(s, 2, Len(s))[i] = Value(e, (k + 1) + i)
    <3>1. SubSeq(s, 2, Len(s))[i] = s[i + 1]
      BY <1>1, <1>3
    <3>2. i + 1 \in 1..Len(s) /\ k + (i + 1) = (k + 1) + i
      BY <1>1
    <3> QED
      BY <3>1, <3>2 DEF Numbered
  <2> QED
    BY <1>3, <2>1 DEF Numbered
<1>5. Head(s) = s[1] /\ s[1] = Value(e, k + 1)
  BY <1>1 DEF Numbered
<1> QED
  BY <1>1, <1>3, <1>4, <1>5

-----------------------------------------------------------------------------
(* The steps of a direction. *)

\* The numbers of a direction.
LEMMA TxNumbers ==
    ASSUME NEW e \in BOOLEAN, NEW t, NEW w, TxInv(e, t, w)
    PROVE  /\ Len(w) \in Nat /\ Len(t.buf) \in Nat /\ t.seq \in Nat
           /\ Sent(t, w) \in Nat /\ DataSent(t) \in Nat /\ Shift(t, w) \in Int
<1>1. Len(w) \in Nat /\ Len(t.buf) \in Nat /\ t.seq \in Nat
  BY DEF TxInv, TxHalf
<1> QED
  BY <1>1 DEF TxInv, Sent, DataSent, Shift

\* Frames and receive half do not notice what leaves these numbers alone.
LEMMA SameNumbers ==
    ASSUME NEW e \in BOOLEAN, NEW t, NEW w, NEW u, NEW v,
           u.seq = t.seq, u.finSent = t.finSent, Sent(u, v) = Sent(t, w)
    PROVE  /\ \A f : FrameInv(e, t, w, f) => FrameInv(e, u, v, f)
           /\ \A r : RxInv(e, t, w, r) => RxInv(e, u, v, r)
<1>1. DataSent(u) = DataSent(t) /\ Shift(u, v) = Shift(t, w)
  BY DEF DataSent, Shift
<1>2. \A f : FrameInv(e, t, w, f) => FrameInv(e, u, v, f)
  BY <1>1 DEF FrameInv
<1> QED
  BY <1>1, <1>2 DEF RxInv

\* A write behind what waits.
LEMMA WriteStep ==
    ASSUME NEW e \in BOOLEAN, NEW t, NEW w, TxInv(e, t, w), ~t.closeReq, ~t.syn,
           NEW b, b = Value(e, Len(w) + 1)
    PROVE  LET v == Append(w, b)
               u == [t EXCEPT !.buf = Append(t.buf, b)]
           IN  /\ TxInv(e, u, v)
               /\ \A f : FrameInv(e, t, w, f) => FrameInv(e, u, v, f)
               /\ \A r : RxInv(e, t, w, r) => RxInv(e, u, v, r)
<1> DEFINE v == Append(w, b)
           u == [t EXCEPT !.buf = Append(t.buf, b)]
<1>1. t \in TxHalf /\ w \in Seq(Nat) /\ t.buf \in Seq(Nat)
  BY DEF TxInv, TxHalf
<1>2. /\ Len(w) \in Nat /\ Len(t.buf) \in Nat /\ b \in Nat
      /\ Sent(t, w) \in Nat /\ Sent(t, w) = Len(w) - Len(t.buf)
  BY TxNumbers, ValueType DEF Sent
<1>3. v \in Seq(Nat) /\ Len(v) = Len(w) + 1 /\ Numbered(e, v, 0)
  <2>1. Numbered(e, w, 0) /\ Len(w) + 1 = 0 + Len(w) + 1
    BY <1>2 DEF TxInv
  <2>2. b = Value(e, 0 + Len(w) + 1)
    BY <2>1, Zenon
  <2> QED
    BY <1>1, <1>2, <2>1, <2>2, NumberedAppend
<1>4. /\ Append(t.buf, b) \in Seq(Nat)
      /\ Len(Append(t.buf, b)) = Len(t.buf) + 1
      /\ Numbered(e, Append(t.buf, b), Sent(t, w))
  <2>1. Numbered(e, t.buf, Sent(t, w)) /\ Len(w) + 1 = Sent(t, w) + Len(t.buf) + 1
    BY <1>2 DEF TxInv
  <2>2. b = Value(e, Sent(t, w) + Len(t.buf) + 1)
    BY <2>1, Zenon
  <2>3. t.buf \in Seq(Nat) /\ Sent(t, w) \in Nat /\ b \in Nat
    BY <1>1, <1>2
  <2> QED
    BY <2>1, <2>2, <2>3, NumberedAppend, Zenon
<1>5. /\ u \in TxHalf /\ u.seq = t.seq /\ u.syn = t.syn /\ u.closeReq = t.closeReq
      /\ u.finSent = t.finSent /\ u.buf = Append(t.buf, b)
  BY <1>1, <1>4 DEF TxHalf
<1> HIDE DEF u, v
<1>6. Sent(u, v) = Sent(t, w)
  <2>1. Len(u.buf) = Len(t.buf) + 1
    BY <1>4, <1>5
  <2>2. Sent(u, v) = (Len(w) + 1) - (Len(t.buf) + 1)
    BY <1>3, <2>1 DEF Sent
  <2> QED
    BY <1>2, <2>2
<1>7. DataSent(u) = DataSent(t) /\ Shift(u, v) = Shift(t, w)
  BY <1>5, <1>6 DEF DataSent, Shift
<1>8. ~t.finSent
  BY DEF TxInv
<1>9. TxInv(e, u, v)
  BY <1>2, <1>3, <1>4, <1>5, <1>6, <1>7, <1>8 DEF TxInv
<1> QED
  <2>1. /\ \A f : FrameInv(e, t, w, f) => FrameInv(e, u, v, f)
        /\ \A r : RxInv(e, t, w, r) => RxInv(e, u, v, r)
    BY <1>5, <1>6, SameNumbers
  <2> QED
    BY <1>9, <2>1 DEF u, v

\* A write before the SYN: from here on the bytes are 0, and none is before it.
LEMMA EarlyWriteStep ==
    ASSUME NEW e \in BOOLEAN, NEW t, NEW w, TxInv(e, t, w), t.syn
    PROVE  LET u == [t EXCEPT !.buf = <<0>> \o t.buf]
           IN  /\ TxInv(TRUE, u, Append(w, 0))
               /\ u.syn = t.syn /\ u.closeReq = t.closeReq
<1> DEFINE x == <<0>> \o t.buf
           v == Append(w, 0)
           u == [t EXCEPT !.buf = x]
<1>1. t \in TxHalf /\ w \in Seq(Nat) /\ t.buf \in Seq(Nat) /\ t.seq = 0 /\ ~t.finSent
  BY DEF TxInv, TxHalf
<1>2. /\ Len(w) \in Nat /\ Len(t.buf) \in Nat /\ Sent(t, w) = 0
      /\ Len(w) = Len(t.buf) /\ (~e => Len(w) = 0)
  <2>1. Sent(t, w) = 0 /\ (~e => Len(t.buf) = 0)
    BY DEF TxInv
  <2>2. Len(w) \in Nat /\ Len(t.buf) \in Nat /\ Len(w) - Len(t.buf) = 0
    BY <2>1, TxNumbers DEF Sent
  <2> QED
    BY <2>1, <2>2
<1>3. (\A i \in 1..Len(w) : w[i] = 0) /\ (\A i \in 1..Len(t.buf) : t.buf[i] = 0)
  <2>1. CASE e
    BY <2>1 DEF TxInv, Numbered, Value
  <2>2. CASE ~e
    BY <1>2, <2>2
  <2> QED
    BY <2>1, <2>2
<1>4. /\ v \in Seq(Nat) /\ Len(v) = Len(w) + 1
      /\ \A i \in 1..Len(v) : v[i] = 0
  <2>1. /\ v \in Seq(Nat) /\ Len(v) = Len(w) + 1 /\ v[Len(w) + 1] = 0
        /\ \A i \in 1..Len(w) : v[i] = w[i]
    BY <1>1, AppendProperties
  <2> HIDE DEF v
  <2>2. \A i \in 1..(Len(w) + 1) : i \in 1..Len(w) \/ i = Len(w) + 1
    BY <1>2
  <2> QED
    BY <1>3, <2>1, <2>2
<1>5. /\ x \in Seq(Nat) /\ Len(x) = Len(t.buf) + 1
      /\ \A i \in 1..Len(x) : x[i] = 0
  <2>1. <<0>> \in Seq(Nat) /\ Len(<<0>>) = 1 /\ <<0>>[1] = 0
    OBVIOUS
  <2>2. /\ x \in Seq(Nat) /\ Len(x) = 1 + Len(t.buf)
        /\ \A i \in 1..(1 + Len(t.buf)) : x[i] = IF i <= 1 THEN <<0>>[i] ELSE t.buf[i - 1]
    BY <1>1, <2>1, ConcatProperties
  <2> HIDE DEF x
  <2>3. ASSUME NEW i \in 1..(1 + Len(t.buf))
        PROVE  x[i] = 0
    <3>1. i = 1 \/ (~(i <= 1) /\ i - 1 \in 1..Len(t.buf))
      BY <1>2
    <3>2. CASE i = 1
      <4>1. x[i] = <<0>>[1]
        BY <2>2, <3>2
      <4> QED
        BY <2>1, <4>1
    <3>3. CASE ~(i <= 1) /\ i - 1 \in 1..Len(t.buf)
      <4>1. x[i] = t.buf[i - 1]
        BY <2>2, <3>3
      <4> QED
        BY <1>3, <3>3, <4>1
    <3> QED
      BY <3>1, <3>2, <3>3
  <2> QED
    BY <1>2, <2>2, <2>3
<1> HIDE DEF x, v
<1>6. /\ u \in TxHalf /\ u.buf = x /\ u.seq = t.seq /\ u.syn = t.syn
      /\ u.closeReq = t.closeReq /\ u.finSent = t.finSent
  BY <1>1, <1>5 DEF TxHalf
<1> HIDE DEF u
<1>7. Sent(u, v) = 0
  <2>1. Sent(u, v) = (Len(w) + 1) - (Len(t.buf) + 1)
    BY <1>4, <1>5, <1>6 DEF Sent
  <2> QED
    BY <1>2, <2>1
<1>8. DataSent(u) = 0 /\ Shift(u, v) = 0
  <2>1. DataSent(u) = u.seq - 0
    BY <1>1, <1>6 DEF DataSent
  <2>2. DataSent(u) = 0
    BY <1>1, <1>6, <2>1
  <2> QED
    BY <1>7, <2>2 DEF Shift
<1>9. Numbered(TRUE, v, 0) /\ Numbered(TRUE, x, Sent(u, v))
  BY <1>4, <1>5 DEF Numbered, Value
<1>10. Len(u.buf) <= Len(v)
  <2>1. Len(u.buf) = Len(v)
    BY <1>2, <1>4, <1>5, <1>6
  <2>2. Len(v) \in Nat
    BY <1>4
  <2> QED
    BY <2>1, <2>2
<1>11. TxInv(TRUE, u, v)
  BY <1>1, <1>4, <1>6, <1>7, <1>8, <1>9, <1>10 DEF TxInv
<1> QED
  BY <1>6, <1>11 DEF u, v, x

\* A close.
LEMMA CloseStep ==
    ASSUME NEW e \in BOOLEAN, NEW t, NEW w, TxInv(e, t, w)
    PROVE  LET u == [t EXCEPT !.closeReq = TRUE]
           IN  /\ TxInv(e, u, w)
               /\ \A f : FrameInv(e, t, w, f) => FrameInv(e, u, w, f)
               /\ \A r : RxInv(e, t, w, r) => RxInv(e, u, w, r)
<1> DEFINE u == [t EXCEPT !.closeReq = TRUE]
<1>1. /\ u \in TxHalf /\ u.seq = t.seq /\ u.syn = t.syn /\ u.closeReq = TRUE
      /\ u.finSent = t.finSent /\ u.buf = t.buf
  BY DEF TxInv, TxHalf
<1> HIDE DEF u
<1>2. Sent(u, w) = Sent(t, w)
  BY <1>1 DEF Sent
<1>3. DataSent(u) = DataSent(t) /\ Shift(u, w) = Shift(t, w)
  BY <1>1, <1>2 DEF DataSent, Shift
<1>4. TxInv(e, u, w)
  BY <1>1, <1>2, <1>3 DEF TxInv
<1> QED
  BY <1>1, <1>2, <1>4, SameNumbers DEF u

\* A frame more, with the same shift, is nothing to the frames before it.
LEMMA MoreSent ==
    ASSUME NEW e \in BOOLEAN, NEW t, NEW w, NEW u, NEW v, TxInv(e, t, w), ~t.finSent,
           DataSent(u) \in Nat, DataSent(t) <= DataSent(u), Shift(u, v) = Shift(t, w)
    PROVE  /\ \A f : FrameInv(e, t, w, f) => FrameInv(e, u, v, f)
           /\ \A r : RxInv(e, t, w, r) => RxInv(e, u, v, r)
<1>1. DataSent(t) \in Nat
  BY TxNumbers
<1>2. ASSUME NEW f, FrameInv(e, t, w, f)
      PROVE  FrameInv(e, u, v, f)
  <2>1. f \in FrameType /\ f.seq \in Nat /\ ~f.fin /\ f.seq < DataSent(t)
    BY <1>2 DEF FrameInv, FrameType
  <2>2. f.seq < DataSent(u)
    BY <1>1, <2>1
  <2> QED
    BY <1>2, <2>1, <2>2 DEF FrameInv
<1>3. ASSUME NEW r, RxInv(e, t, w, r)
      PROVE  RxInv(e, u, v, r)
  <2>1. r \in RxHalf /\ r.seq \in Nat
    BY <1>3 DEF RxInv, RxHalf
  <2>2. ~r.closed => r.seq <= DataSent(u)
    <3>1. ~r.closed => r.seq <= DataSent(t)
      BY <1>3, Zenon DEF RxInv
    <3> QED
      BY <1>1, <2>1, <3>1
  <2>3. ~(r.closed /\ ~r.eof)
    BY <1>3 DEF RxInv
  <2> QED
    BY <1>2, <1>3, <2>2, <2>3 DEF RxInv
<1> QED
  BY <1>2, <1>3

\* What drainTx leaves of the transmit half.
LEMMA DrainedFields ==
    ASSUME NEW t \in TxHalf
    PROVE  /\ Drained(t) \in TxHalf
           /\ Drained(t).buf = SubSeq(t.buf, 2, Len(t.buf))
           /\ Drained(t).seq = t.seq + 1 /\ Drained(t).syn = FALSE
           /\ Drained(t).closeReq = t.closeReq
           /\ Drained(t).finSent = (~t.syn /\ t.buf = <<>>)
           /\ t.buf = <<>> => Drained(t).buf = <<>>
<1>1. t.buf \in Seq(Nat) /\ t.seq \in Nat /\ Len(t.buf) \in Nat
  BY DEF TxHalf
<1>2. \A i \in 2..Len(t.buf) : t.buf[i] \in Nat
  BY <1>1, ElementOfSeq
<1>3. SubSeq(t.buf, 2, Len(t.buf)) \in Seq(Nat)
  BY <1>1, <1>2, SubSeqProperties
<1>4. NextFrame(t).fin = (~t.syn /\ t.buf = <<>>)
  BY DEF NextFrame
<1>5. NextFrame(t).fin \in BOOLEAN
  BY <1>4 DEF TxHalf
<1>6. t.buf = <<>> => SubSeq(t.buf, 2, Len(t.buf)) = <<>>
  <2> SUFFICES ASSUME t.buf = <<>> PROVE SubSeq(t.buf, 2, Len(t.buf)) = <<>>
    OBVIOUS
  <2>1. Len(t.buf) = 0
    BY EmptySeq
  <2> QED
    BY <2>1, SubSeqEmpty
<1>7. /\ Drained(t) \in TxHalf
      /\ Drained(t).buf = SubSeq(t.buf, 2, Len(t.buf))
      /\ Drained(t).seq = t.seq + 1 /\ Drained(t).syn = FALSE
      /\ Drained(t).closeReq = t.closeReq
      /\ Drained(t).finSent = NextFrame(t).fin
  <2> DEFINE X(b, n, e) == [t EXCEPT !.buf = b, !.seq = n, !.syn = FALSE, !.finSent = e]
  <2>1. t.seq + 1 \in Nat
    BY <1>1
  <2>2. Drained(t) = X(SubSeq(t.buf, 2, Len(t.buf)), t.seq + 1, NextFrame(t).fin)
    BY DEF Drained
  <2>3. PICK b \in Seq(Nat), n \in Nat, e \in BOOLEAN :
          /\ b = SubSeq(t.buf, 2, Len(t.buf)) /\ n = t.seq + 1 /\ e = NextFrame(t).fin
    BY <1>3, <1>5, <2>1, Zenon
  <2>4. Drained(t) = X(b, n, e)
    BY <2>2, <2>3
  <2>5. /\ X(b, n, e) \in TxHalf /\ X(b, n, e).buf = b /\ X(b, n, e).seq = n
        /\ X(b, n, e).syn = FALSE /\ X(b, n, e).closeReq = t.closeReq
        /\ X(b, n, e).finSent = e
    BY DEF TxHalf
  <2> HIDE DEF X
  <2>6. /\ Drained(t) \in TxHalf /\ Drained(t).buf = b /\ Drained(t).seq = n
        /\ Drained(t).syn = FALSE /\ Drained(t).closeReq = t.closeReq
    BY <2>4, <2>5
  <2>7. Drained(t).finSent = e
    BY <2>4, <2>5
  <2> QED
    BY <2>3, <2>6, <2>7
<1> QED
  BY <1>4, <1>6, <1>7

\* The frame drainTx takes.
LEMMA NextFrameFields ==
    ASSUME NEW t \in TxHalf
    PROVE  /\ NextFrame(t) \in FrameType
           /\ NextFrame(t).seq = t.seq
           /\ NextFrame(t).fin = (~t.syn /\ t.buf = <<>>)
           /\ t.buf = <<>> => NextFrame(t).data = <<>>
           /\ t.buf # <<>> => NextFrame(t).data = <<Head(t.buf)>>
<1>1. t.buf \in Seq(Nat) /\ t.seq \in Nat /\ t.syn \in BOOLEAN
  BY DEF TxHalf
<1>2. t.buf # <<>> => Head(t.buf) \in Nat
  BY <1>1, HeadTailProperties
<1>3. (IF t.buf = <<>> THEN <<>> ELSE <<Head(t.buf)>>) \in Seq(Nat)
  BY <1>1, <1>2, EmptySeq
<1> QED
  BY <1>1, <1>3 DEF NextFrame, FrameType

\* drainTx takes a frame: the SYN alone, a byte, or the FIN.
LEMMA DrainStep ==
    ASSUME NEW e \in BOOLEAN, NEW t, NEW w, TxInv(e, t, w), HasPendingTx(t)
    PROVE  /\ TxInv(e, Drained(t), w)
           /\ FrameInv(e, Drained(t), w, NextFrame(t))
           /\ \A f : FrameInv(e, t, w, f) => FrameInv(e, Drained(t), w, f)
           /\ \A r : RxInv(e, t, w, r) => RxInv(e, Drained(t), w, r)
<1> DEFINE u == Drained(t)
           g == NextFrame(t)
<1>1. t \in TxHalf /\ w \in Seq(Nat) /\ t.buf \in Seq(Nat)
  BY DEF TxInv, TxHalf
<1>2. /\ Len(w) \in Nat /\ Len(t.buf) \in Nat /\ t.seq \in Nat
      /\ Sent(t, w) \in Nat /\ DataSent(t) \in Nat /\ Shift(t, w) \in Int
      /\ Sent(t, w) = Len(w) - Len(t.buf)
  BY TxNumbers DEF Sent
<1>3. ~t.finSent /\ DataSent(t) = t.seq /\ Shift(t, w) = Sent(t, w) - t.seq
  BY <1>2 DEF TxInv, HasPendingTx, DataSent, Shift
<1>4. /\ u \in TxHalf /\ u.buf = SubSeq(t.buf, 2, Len(t.buf))
      /\ u.seq = t.seq + 1 /\ u.syn = FALSE /\ u.closeReq = t.closeReq
      /\ u.finSent = (~t.syn /\ t.buf = <<>>)
      /\ t.buf = <<>> => u.buf = <<>>
  BY <1>1, DrainedFields
<1>5. /\ g \in FrameType /\ g.seq = t.seq /\ g.fin = (~t.syn /\ t.buf = <<>>)
      /\ t.buf = <<>> => g.data = <<>>
      /\ t.buf # <<>> => g.data = <<Head(t.buf)>>
  BY <1>1, NextFrameFields
<1> HIDE DEF u, g
<1>6. Numbered(e, <<>>, Sent(u, w)) /\ Len(<<>>) = 0
  BY EmptySeq DEF Numbered
<1> SUFFICES /\ TxInv(e, u, w) /\ FrameInv(e, u, w, g)
             /\ \A f : FrameInv(e, t, w, f) => FrameInv(e, u, w, f)
             /\ \A r : RxInv(e, t, w, r) => RxInv(e, u, w, r)
  BY DEF u, g
<1>7. CASE t.buf # <<>>
  <2>1. /\ Len(t.buf) > 0 /\ Len(u.buf) = Len(t.buf) - 1
        /\ Numbered(e, u.buf, Sent(t, w) + 1) /\ Head(t.buf) = Value(e, Sent(t, w) + 1)
    <3>1. Numbered(e, t.buf, Sent(t, w))
      BY DEF TxInv
    <3>2. /\ Len(t.buf) > 0 /\ Len(SubSeq(t.buf, 2, Len(t.buf))) = Len(t.buf) - 1
          /\ Numbered(e, SubSeq(t.buf, 2, Len(t.buf)), Sent(t, w) + 1)
          /\ Head(t.buf) = Value(e, Sent(t, w) + 1)
      BY <1>1, <1>2, <1>7, <3>1, NumberedTail
    <3> QED
      BY <1>4, <3>2, Zenon
  <2>2. Sent(u, w) = Sent(t, w) + 1
    <3>1. Sent(u, w) = Len(w) - (Len(t.buf) - 1)
      BY <2>1 DEF Sent
    <3> QED
      BY <1>2, <3>1
  <2>3. ~u.finSent /\ DataSent(u) = t.seq + 1
    <3>1. ~u.finSent /\ DataSent(u) = u.seq - 0
      BY <1>4, <1>7 DEF DataSent
    <3> QED
      BY <1>2, <1>4, <3>1
  <2>4. Shift(u, w) = Shift(t, w)
    <3>1. Shift(u, w) = (Sent(t, w) + 1) - (t.seq + 1)
      BY <2>2, <2>3 DEF Shift
    <3>2. \A a, b \in Nat : (a + 1) - (b + 1) = a - b
      OBVIOUS
    <3> QED
      BY <1>2, <1>3, <3>1, <3>2, Zenon
  <2>5. TxInv(e, u, w)
    <3>1. Len(u.buf) <= Len(w)
      BY <1>2, <2>1 DEF TxInv
    <3>2. DataSent(u) > 0
      BY <1>2, <2>3
    <3> QED
      BY <1>1, <1>4, <2>1, <2>2, <2>3, <2>4, <3>1, <3>2 DEF TxInv
  <2>6. FrameInv(e, u, w, g)
    <3>1. g.seq + 1 + Shift(u, w) = Sent(t, w) + 1
      <4>1. g.seq + 1 + Shift(u, w) = t.seq + 1 + (Sent(t, w) - t.seq)
        BY <1>3, <1>5, <2>4
      <4>2. \A a, b \in Nat : a + 1 + (b - a) = b + 1
        OBVIOUS
      <4> QED
        BY <1>2, <4>1, <4>2, Zenon
    <3>2. g.seq < DataSent(u) /\ Sent(t, w) + 1 # 0
      BY <1>2, <1>5, <2>3
    <3> QED
      BY <1>5, <1>7, <2>1, <3>1, <3>2 DEF FrameInv
  <2>7. DataSent(u) \in Nat /\ DataSent(t) <= DataSent(u)
    BY <1>2, <1>3, <2>3
  <2> QED
    BY <1>3, <2>4, <2>5, <2>6, <2>7, MoreSent
<1>8. CASE t.buf = <<>> /\ t.syn
  <2>1. t.seq = 0 /\ Sent(t, w) = 0 /\ Len(t.buf) = 0 /\ Len(u.buf) = 0 /\ u.buf = <<>>
    BY <1>4, <1>6, <1>8 DEF TxInv
  <2>2. Len(w) = 0 /\ Sent(u, w) = 0
    BY <1>2, <2>1 DEF Sent
  <2>3. ~u.finSent /\ DataSent(u) = 1 /\ Shift(u, w) = -1 /\ u.seq = 1
    <3>1. ~u.finSent /\ u.seq = 1
      <4>1. ~u.finSent
        BY <1>4, <1>8
      <4>2. u.seq = 1
        BY <1>4, <2>1
      <4> QED
        BY <4>1, <4>2
    <3>2. DataSent(u) = 1
      BY <3>1 DEF DataSent
    <3> QED
      BY <2>2, <3>1, <3>2 DEF Shift
  <2>4. TxInv(e, u, w)
    <3>1. Len(u.buf) <= Len(w)
      BY <2>1, <2>2
    <3>2. Numbered(e, u.buf, Sent(u, w)) /\ Numbered(e, w, 0)
      BY <1>6, <2>1 DEF TxInv
    <3> QED
      BY <1>1, <1>4, <2>3, <3>1, <3>2 DEF TxInv
  <2>5. FrameInv(e, u, w, g)
    <3>1. g.seq = 0 /\ g.seq + 1 + Shift(u, w) = 0 /\ g.seq < DataSent(u)
      BY <1>5, <2>1, <2>3
    <3> QED
      BY <1>5, <1>8, <3>1 DEF FrameInv
  <2>6. \A f : ~FrameInv(e, t, w, f)
    <3> SUFFICES ASSUME NEW f, FrameInv(e, t, w, f) PROVE FALSE
      OBVIOUS
    <3>1. f.seq \in Nat
      BY DEF FrameInv, FrameType
    <3> QED
      BY <1>3, <2>1, <3>1 DEF FrameInv
  <2>7. ASSUME NEW r, RxInv(e, t, w, r)
        PROVE  RxInv(e, u, w, r)
    <3>1. r \in RxHalf /\ r.seq \in Nat
      BY <2>7 DEF RxInv, RxHalf
    <3>2. ~r.closed => r.seq = 0 /\ r.seq <= DataSent(u) /\ Len(r.out) + Len(r.hand) = 0
      <4>1. ~r.closed => /\ r.seq <= DataSent(t)
                         /\ Len(r.out) + Len(r.hand)
                              = IF r.seq = 0 THEN 0 ELSE r.seq + Shift(t, w)
        BY <2>7, Zenon DEF RxInv
      <4>2. ~r.closed => r.seq = 0 /\ r.seq <= DataSent(u)
        <5>1. ~r.closed => r.seq <= 0
          BY <1>3, <2>1, <4>1
        <5> QED
          BY <2>3, <3>1, <5>1
      <4> QED
        BY <4>1, <4>2
    <3>3. \A f \in r.queue : FrameInv(e, u, w, f)
      BY <2>6, <2>7 DEF RxInv
    <3>4. ~(r.closed /\ ~r.eof)
      BY <1>3, <2>7 DEF RxInv
    <3> QED
      BY <2>7, <3>2, <3>3, <3>4 DEF RxInv
  <2> QED
    BY <2>4, <2>5, <2>6, <2>7
<1>9. CASE t.buf = <<>> /\ ~t.syn
  <2>1. t.closeReq /\ u.finSent /\ u.buf = <<>> /\ Len(u.buf) = 0 /\ Len(t.buf) = 0
    BY <1>4, <1>6, <1>9 DEF HasPendingTx
  <2>2. Sent(u, w) = Sent(t, w)
    BY <2>1 DEF Sent
  <2>3. DataSent(u) = DataSent(t) /\ u.seq > 0 /\ u.seq - 1 = t.seq
    BY <1>2, <1>3, <1>4, <2>1 DEF DataSent
  <2>4. Shift(u, w) = Shift(t, w)
    BY <2>2, <2>3 DEF Shift
  <2>5. TxInv(e, u, w)
    BY <1>1, <1>2, <1>4, <1>6, <2>1, <2>2, <2>3, <2>4 DEF TxInv
  <2>6. FrameInv(e, u, w, g)
    BY <1>5, <1>9, <2>1, <2>3 DEF FrameInv
  <2>7. DataSent(u) \in Nat /\ DataSent(t) <= DataSent(u)
    BY <1>2, <2>3
  <2> QED
    BY <1>3, <2>4, <2>5, <2>6, <2>7, MoreSent
<1> QED
  BY <1>7, <1>8, <1>9

\* ProcessRx: the frame waits or is dropped.
LEMMA ReceiveStep ==
    ASSUME NEW e \in BOOLEAN, NEW t, NEW w, NEW r, NEW f,
           RxInv(e, t, w, r), FrameInv(e, t, w, f)
    PROVE  RxInv(e, t, w, Received(r, f)) /\ Unseen(r, Received(r, f))
<1> DEFINE q == [r EXCEPT !.queue = r.queue \cup {f}]
<1>1. r \in RxHalf /\ f \in FrameType
  BY DEF RxInv, FrameInv
<1>2. /\ q \in RxHalf /\ q.queue = r.queue \cup {f} /\ q.seq = r.seq /\ q.out = r.out
      /\ q.hand = r.hand /\ q.closed = r.closed /\ q.eof = r.eof /\ q.cut = r.cut
  BY <1>1 DEF RxHalf
<1>3. Received(r, f) = r \/ Received(r, f) = q
  BY DEF Received
<1> HIDE DEF q
<1>4. RxInv(e, t, w, q)
  BY <1>2 DEF RxInv
<1> QED
  BY <1>2, <1>3, <1>4 DEF Unseen

\* Nothing is numbered from anywhere.
LEMMA NumberedNothing ==
    <<>> \in Seq(Nat) /\ Len(<<>>) = 0 /\ \A e, k : Numbered(e, <<>>, k)
  BY EmptySeq DEF Numbered

\* CloseRx and Stop.
LEMMA StopStep ==
    ASSUME NEW e \in BOOLEAN, NEW t, NEW w, NEW r, RxInv(e, t, w, r)
    PROVE  RxInv(e, t, w, Stopped(r)) /\ (Unseen(r, Stopped(r)) \/ SeesCut(r, Stopped(r)))
<1> DEFINE q == [r EXCEPT !.queue = {}, !.hand = <<>>, !.sending = FALSE, !.closed = TRUE,
                          !.eof = TRUE, !.cut = TRUE]
<1>1. r \in RxHalf /\ <<>> \in Seq(Nat)
  BY NumberedNothing DEF RxInv
<1>2. /\ q \in RxHalf /\ q.queue = {} /\ q.hand = <<>> /\ q.out = r.out
      /\ q.closed = TRUE /\ q.eof = TRUE /\ q.cut = TRUE
  BY <1>1 DEF RxHalf
<1>3. Stopped(r) = r \/ Stopped(r) = q
  BY DEF Stopped
<1> HIDE DEF q
<1>4. RxInv(e, t, w, q)
  BY <1>2, NumberedNothing DEF RxInv
<1> QED
  BY <1>2, <1>3, <1>4 DEF Unseen, SeesCut

\* A receive half that takes frame f.
LEMMA ReassembledFields ==
    ASSUME NEW r \in RxHalf, NEW f \in FrameType
    PROVE  /\ Reassembled(r, f) \in RxHalf
           /\ Reassembled(r, f).seq = r.seq + 1
           /\ Reassembled(r, f).queue = r.queue \ {f}
           /\ Reassembled(r, f).hand = r.hand \o f.data
           /\ Reassembled(r, f).closed = f.fin
           /\ Reassembled(r, f).out = r.out
           /\ Reassembled(r, f).eof = r.eof /\ Reassembled(r, f).cut = r.cut
<1>1. /\ r.seq \in Nat /\ r.queue \subseteq FrameType /\ r.hand \in Seq(Nat)
      /\ f.data \in Seq(Nat) /\ f.fin \in BOOLEAN
  BY DEF RxHalf, FrameType
<1>2. r.seq + 1 \in Nat /\ r.queue \ {f} \in SUBSET FrameType /\ r.hand \o f.data \in Seq(Nat)
  BY <1>1, ConcatProperties
<1> DEFINE X(n, q, h, c) == [r EXCEPT !.seq = n, !.queue = q, !.hand = h, !.closed = c]
<1>3. PICK n \in Nat, q \in SUBSET FrameType, h \in Seq(Nat), c \in BOOLEAN :
        n = r.seq + 1 /\ q = r.queue \ {f} /\ h = r.hand \o f.data /\ c = f.fin
  BY <1>1, <1>2, Zenon
<1>4. Reassembled(r, f) = X(n, q, h, c)
  BY <1>3 DEF Reassembled
<1>5. /\ X(n, q, h, c) \in RxHalf /\ X(n, q, h, c).seq = n /\ X(n, q, h, c).queue = q
      /\ X(n, q, h, c).hand = h /\ X(n, q, h, c).closed = c
      /\ X(n, q, h, c).out = r.out /\ X(n, q, h, c).eof = r.eof /\ X(n, q, h, c).cut = r.cut
  BY DEF RxHalf
<1> HIDE DEF X
<1>6. /\ Reassembled(r, f) \in RxHalf /\ Reassembled(r, f).seq = n
      /\ Reassembled(r, f).queue = q /\ Reassembled(r, f).hand = h
      /\ Reassembled(r, f).out = r.out
  BY <1>4, <1>5
<1>7. /\ Reassembled(r, f).closed = c
      /\ Reassembled(r, f).eof = r.eof /\ Reassembled(r, f).cut = r.cut
  BY <1>4, <1>5
<1> QED
  BY <1>3, <1>6, <1>7

\* A receive half that sends a payload.
LEMMA HandedOverFields ==
    ASSUME NEW r \in RxHalf, r.hand # <<>>
    PROVE  /\ HandedOver(r) \in RxHalf
           /\ HandedOver(r).seq = r.seq
           /\ HandedOver(r).queue = r.queue
           /\ HandedOver(r).hand = Tail(r.hand)
           /\ HandedOver(r).out = Append(r.out, Head(r.hand))
           /\ HandedOver(r).closed = r.closed
           /\ HandedOver(r).eof = r.eof /\ HandedOver(r).cut = r.cut
<1>1. r.hand \in Seq(Nat) /\ r.out \in Seq(Nat)
  BY DEF RxHalf
<1>2. Head(r.hand) \in Nat /\ Tail(r.hand) \in Seq(Nat)
  BY <1>1, HeadTailProperties
<1>3. Append(r.out, Head(r.hand)) \in Seq(Nat) /\ (Len(r.hand) > 1) \in BOOLEAN
  BY <1>1, <1>2, AppendProperties
<1> DEFINE X(o, h, e) == [r EXCEPT !.out = o, !.hand = h, !.sending = e]
<1>4. PICK o \in Seq(Nat), h \in Seq(Nat), e \in BOOLEAN :
        o = Append(r.out, Head(r.hand)) /\ h = Tail(r.hand) /\ e = (Len(r.hand) > 1)
  BY <1>2, <1>3, Zenon
<1>5. HandedOver(r) = X(o, h, e)
  BY <1>4 DEF HandedOver
<1>6. /\ X(o, h, e) \in RxHalf /\ X(o, h, e).seq = r.seq /\ X(o, h, e).queue = r.queue
      /\ X(o, h, e).hand = h /\ X(o, h, e).out = o
      /\ X(o, h, e).closed = r.closed /\ X(o, h, e).eof = r.eof /\ X(o, h, e).cut = r.cut
  BY DEF RxHalf
<1> HIDE DEF X
<1>7. /\ HandedOver(r) \in RxHalf /\ HandedOver(r).seq = r.seq
      /\ HandedOver(r).queue = r.queue /\ HandedOver(r).hand = h
      /\ HandedOver(r).out = o
  BY <1>5, <1>6
<1>8. /\ HandedOver(r).closed = r.closed
      /\ HandedOver(r).eof = r.eof /\ HandedOver(r).cut = r.cut
  BY <1>5, <1>6
<1> QED
  BY <1>4, <1>7, <1>8

\* A numbered sequence is its length.
LEMMA NumberedEqual ==
    ASSUME NEW e \in BOOLEAN, NEW a \in Seq(Nat), NEW b \in Seq(Nat), NEW k \in Nat,
           Numbered(e, a, k), Numbered(e, b, k), Len(a) = Len(b)
    PROVE  a = b
<1>1. \A i \in 1..Len(a) : a[i] = b[i]
  BY DEF Numbered
<1> QED
  BY <1>1, SeqEqual

\* deliverRx takes the frame that is due: a FIN behind the last byte, a SYN
\* without data, or the next byte.
LEMMA ReassembleStep ==
    ASSUME NEW e \in BOOLEAN, NEW t, NEW w, NEW r, NEW f, NEW q,
           TxInv(e, t, w), RxInv(e, t, w, r), f \in Due(r), q = Reassembled(r, f)
    PROVE  RxInv(e, t, w, q) /\ Unseen(r, q)
<1> DEFINE k == Len(r.out)
           n == Len(r.hand)
<1>1. f \in r.queue /\ f.seq = r.seq /\ FrameInv(e, t, w, f) /\ ~r.closed /\ ~r.eof
  BY DEF Due, RxInv
<1>2. /\ f \in FrameType /\ f.seq \in Nat /\ f.data \in Seq(Nat) /\ f.fin \in BOOLEAN
      /\ r \in RxHalf /\ r.seq \in Nat /\ r.out \in Seq(Nat) /\ r.hand \in Seq(Nat)
      /\ k \in Nat /\ n \in Nat
      /\ Numbered(e, r.out, 0) /\ Numbered(e, r.hand, k)
  BY <1>1 DEF FrameInv, FrameType, RxInv, RxHalf
<1>3. /\ q \in RxHalf /\ q.seq = r.seq + 1 /\ q.queue = r.queue \ {f}
      /\ q.hand = r.hand \o f.data /\ q.out = r.out
  BY <1>2, ReassembledFields
<1>4. q.closed = f.fin /\ q.eof = r.eof /\ q.cut = r.cut
  BY <1>2, ReassembledFields
<1>5. \A g \in q.queue : FrameInv(e, t, w, g)
  BY <1>3 DEF RxInv
<1>6. /\ Sent(t, w) \in Nat /\ DataSent(t) \in Nat /\ Shift(t, w) \in Int
      /\ Shift(t, w) = Sent(t, w) - DataSent(t)
  BY TxNumbers DEF Shift
<1>7. /\ r.seq <= DataSent(t)
      /\ k + n = IF r.seq = 0 THEN 0 ELSE r.seq + Shift(t, w)
      /\ Shift(t, w) = 0 \/ (Shift(t, w) = -1 /\ DataSent(t) > 0)
  BY <1>1 DEF RxInv, TxInv
<1> SUFFICES RxInv(e, t, w, q)
  BY <1>3, <1>4 DEF Unseen
<1>8. CASE f.fin
  <2>1. t.finSent /\ f.seq = t.seq - 1 /\ f.data = <<>>
    BY <1>1, <1>8 DEF FrameInv
  <2>2. q.closed /\ q.hand = r.hand
    BY <1>2, <1>3, <1>4, <1>8, <2>1, ConcatEmptySeq
  <2>3. DataSent(t) = r.seq
    BY <1>1, <2>1 DEF DataSent
  <2>4. k + n = Sent(t, w)
    <3> HIDE DEF k, n
    <3> QED
      BY <1>2, <1>6, <1>7, <2>3
  <2>5. Len(q.out) + Len(q.hand) = Sent(t, w)
    BY <1>3, <2>2, <2>4
  <2> QED
    BY <1>1, <1>2, <1>3, <1>4, <1>5, <2>1, <2>2, <2>5 DEF RxInv
<1>9. CASE ~f.fin
  <2>1. /\ ~q.closed /\ r.seq < DataSent(t)
        /\ f.data = IF r.seq + 1 + Shift(t, w) = 0 THEN <<>>
                    ELSE <<Value(e, r.seq + 1 + Shift(t, w))>>
    BY <1>1, <1>4, <1>9 DEF FrameInv
  <2>2. q.seq <= DataSent(t) /\ q.seq # 0
    BY <1>2, <1>3, <1>6, <2>1
  <2>3. CASE r.seq + 1 + Shift(t, w) = 0
    <3>1. q.hand = r.hand
      BY <1>2, <1>3, <2>1, <2>3, ConcatEmptySeq
    <3>2. k + n = q.seq + Shift(t, w)
      <4> HIDE DEF k, n
      <4> QED
        BY <1>2, <1>3, <1>6, <1>7, <2>3
    <3>3. Len(q.out) + Len(q.hand) = q.seq + Shift(t, w)
      BY <1>3, <3>1, <3>2
    <3> QED
      BY <1>1, <1>2, <1>3, <1>4, <1>5, <2>1, <2>2, <3>1, <3>3 DEF RxInv
  <2>4. CASE r.seq + 1 + Shift(t, w) # 0
    <3>1. r.seq + 1 + Shift(t, w) = k + n + 1 /\ k + n + 1 \in Nat
      <4> DEFINE a == r.seq
                 d == Shift(t, w)
      <4>1. /\ a \in Nat /\ k \in Nat /\ n \in Nat /\ d \in Int
            /\ k + n = (IF a = 0 THEN 0 ELSE a + d) /\ d \in {0, -1} /\ a + 1 + d # 0
        BY <1>2, <1>6, <1>7, <2>4
      <4> HIDE DEF a, d, k, n
      <4>2. a + 1 + d = k + n + 1 /\ k + n + 1 \in Nat
        BY <4>1
      <4> QED
        BY <4>2 DEF a, d
    <3>2. q.hand = Append(r.hand, Value(e, k + n + 1)) /\ Value(e, k + n + 1) \in Nat
      <4> DEFINE b == Value(e, k + n + 1)
      <4>1. b \in Nat
        BY <3>1, ValueType
      <4>2. f.data = <<b>>
        BY <2>1, <2>4, <3>1
      <4> HIDE DEF b
      <4>3. r.hand \o <<b>> = Append(r.hand, b)
        BY <1>2, <4>1, AppendIsConcat
      <4>4. q.hand = Append(r.hand, b)
        BY <1>3, <4>2, <4>3, Zenon
      <4> QED
        BY <4>1, <4>4 DEF b
    <3>3. q.hand \in Seq(Nat) /\ Len(q.hand) = n + 1 /\ Numbered(e, q.hand, k)
      <4>1. /\ Append(r.hand, Value(e, k + n + 1)) \in Seq(Nat)
            /\ Len(Append(r.hand, Value(e, k + n + 1))) = n + 1
            /\ Numbered(e, Append(r.hand, Value(e, k + n + 1)), k)
        <5>1. PICK b \in Nat : b = Value(e, k + n + 1)
          BY <3>2
        <5>2. /\ Append(r.hand, b) \in Seq(Nat) /\ Len(Append(r.hand, b)) = n + 1
              /\ Numbered(e, Append(r.hand, b), k)
          <6>1. /\ r.hand \in Seq(Nat) /\ k \in Nat /\ Numbered(e, r.hand, k)
                /\ b = Value(e, k + Len(r.hand) + 1)
            BY <1>2, <5>1
          <6> QED
            BY <6>1, NumberedAppend, Zenon
        <5> QED
          BY <5>1, <5>2, Zenon
      <4> QED
        BY <3>2, <4>1, Zenon
    <3>4. Len(q.out) = k
      BY <1>3
    <3>5. k + (n + 1) = q.seq + Shift(t, w)
      <4> HIDE DEF k, n
      <4> QED
        BY <1>2, <1>3, <1>6, <3>1
    <3>6. Len(q.out) + Len(q.hand) = q.seq + Shift(t, w)
      BY <3>3, <3>4, <3>5
    <3>7. Numbered(e, q.out, 0) /\ Numbered(e, q.hand, Len(q.out))
      BY <1>2, <1>3, <3>3, <3>4
    <3> QED
      BY <1>1, <1>3, <1>4, <1>5, <2>1, <2>2, <3>6, <3>7 DEF RxInv
  <2> QED
    BY <2>3, <2>4
<1> QED
  BY <1>2, <1>8, <1>9

\* What a reader can have got is no more than what was sent.
LEMMA TakenIsSent ==
    ASSUME NEW e \in BOOLEAN, NEW t, NEW w, NEW r, TxInv(e, t, w), RxInv(e, t, w, r), ~r.eof
    PROVE  Len(r.out) + Len(r.hand) <= Sent(t, w) /\ Sent(t, w) <= Len(w)
<1> DEFINE k == Len(r.out)
           n == Len(r.hand)
<1>1. k \in Nat /\ n \in Nat /\ r.seq \in Nat
  BY DEF RxInv, RxHalf
<1>2. /\ Sent(t, w) \in Nat /\ DataSent(t) \in Nat /\ Shift(t, w) \in Int
      /\ Shift(t, w) = Sent(t, w) - DataSent(t)
  BY TxNumbers DEF Shift
<1>3. \/ /\ r.seq <= DataSent(t)
         /\ k + n = IF r.seq = 0 THEN 0 ELSE r.seq + Shift(t, w)
      \/ k + n = Sent(t, w)
  BY DEF RxInv
<1> HIDE DEF k, n
<1>4. k + n <= Sent(t, w)
  BY <1>1, <1>2, <1>3
<1>5. Sent(t, w) <= Len(w)
  <2>1. Len(w) \in Nat /\ Len(t.buf) \in Nat /\ Sent(t, w) = Len(w) - Len(t.buf)
    BY TxNumbers DEF Sent
  <2>2. \A a, b \in Nat : a - b <= a
    OBVIOUS
  <2> QED
    BY <2>1, <2>2, Zenon
<1> QED
  BY <1>4, <1>5 DEF k, n

\* deliverRx sends the next byte of the stream.
LEMMA HandOverStep ==
    ASSUME NEW e \in BOOLEAN, NEW t, NEW w, NEW r, NEW q,
           TxInv(e, t, w), RxInv(e, t, w, r), r.hand # <<>>, q = HandedOver(r)
    PROVE  RxInv(e, t, w, q) /\ SeesByte(w, r, q)
<1> DEFINE k == Len(r.out)
           n == Len(r.hand)
<1>1. /\ r \in RxHalf /\ r.out \in Seq(Nat) /\ r.hand \in Seq(Nat)
      /\ k \in Nat /\ n \in Nat /\ n # 0 /\ ~r.eof
      /\ Numbered(e, r.out, 0) /\ Numbered(e, r.hand, k)
  BY EmptySeq DEF RxInv, RxHalf
<1>2. /\ q \in RxHalf /\ q.seq = r.seq /\ q.queue = r.queue /\ q.hand = Tail(r.hand)
      /\ q.out = Append(r.out, Head(r.hand))
  BY <1>1, HandedOverFields
<1>3. q.closed = r.closed /\ q.eof = r.eof /\ q.cut = r.cut
  BY <1>1, HandedOverFields
<1>4. Head(r.hand) = Value(e, k + 1) /\ Tail(r.hand) = SubSeq(r.hand, 2, n) /\ n > 0
      /\ Len(SubSeq(r.hand, 2, n)) = n - 1 /\ Numbered(e, SubSeq(r.hand, 2, n), k + 1)
  <2>1. /\ Head(r.hand) = Value(e, k + 1) /\ n > 0
        /\ Len(SubSeq(r.hand, 2, n)) = n - 1 /\ Numbered(e, SubSeq(r.hand, 2, n), k + 1)
    BY <1>1, NumberedTail
  <2>2. Tail(r.hand) = SubSeq(r.hand, 2, n)
    BY <1>1, HeadTailProperties
  <2> QED
    BY <2>1, <2>2
<1>5. q.out = Append(r.out, Value(e, k + 1))
  BY <1>2, <1>4
<1>6. Len(q.out) = k + 1 /\ Numbered(e, q.out, 0)
  <2>1. k + 1 = 0 + k + 1 /\ Value(e, k + 1) \in Nat
    BY <1>1, ValueType
  <2>2. /\ Len(Append(r.out, Value(e, k + 1))) = k + 1
        /\ Numbered(e, Append(r.out, Value(e, k + 1)), 0)
    BY <1>1, <2>1, NumberedAppend
  <2> QED
    BY <1>5, <2>2, Zenon
<1>7. Len(q.hand) = n - 1 /\ Numbered(e, q.hand, k + 1)
  BY <1>2, <1>4, Zenon
<1>8. Len(q.out) + Len(q.hand) = k + n
  <2>1. \A a, b \in Nat : (a + 1) + (b - 1) = a + b
    OBVIOUS
  <2> QED
    BY <1>1, <1>6, <1>7, <2>1, Zenon
<1>9. k + 1 \in 1..Len(w) /\ k < Len(w)
  <2>1. k + n <= Sent(t, w) /\ Sent(t, w) <= Len(w)
    BY <1>1, TakenIsSent
  <2>2. Sent(t, w) \in Nat /\ Len(w) \in Nat
    BY TxNumbers
  <2> HIDE DEF k, n
  <2> QED
    BY <1>1, <1>4, <2>1, <2>2
<1>10. w[k + 1] = Value(e, k + 1)
  <2>1. \A i \in 1..Len(w) : w[i] = Value(e, 0 + i)
    BY DEF TxInv, Numbered
  <2>2. 0 + (k + 1) = k + 1
    BY <1>1
  <2> QED
    BY <1>9, <2>1, <2>2, Zenon
<1>11. q.out = Append(r.out, w[k + 1])
  BY <1>5, <1>10, Zenon
<1>12. RxInv(e, t, w, q)
  <2>1. k + n = Len(r.out) + Len(r.hand)
    OBVIOUS
  <2>2. Numbered(e, q.hand, Len(q.out))
    BY <1>6, <1>7, Zenon
  <2> HIDE DEF k, n
  <2> QED
    BY <1>1, <1>2, <1>3, <1>6, <1>8, <2>1, <2>2 DEF RxInv
<1> QED
  BY <1>1, <1>3, <1>9, <1>11, <1>12 DEF SeesByte

\* deliverRx closes RxChan behind the last byte.
LEMMA EndStep ==
    ASSUME NEW e \in BOOLEAN, NEW t, NEW w, NEW r, NEW q,
           TxInv(e, t, w), RxInv(e, t, w, r), AtEnd(r), q = [r EXCEPT !.eof = TRUE]
    PROVE  RxInv(e, t, w, q) /\ SeesEnd(t, w, r, q)
<1>1. r \in RxHalf /\ r.closed /\ r.hand = <<>> /\ ~r.eof /\ r.out \in Seq(Nat)
  BY DEF AtEnd, RxInv, RxHalf
<1>2. /\ q \in RxHalf /\ q.seq = r.seq /\ q.queue = r.queue /\ q.hand = r.hand
      /\ q.out = r.out /\ q.closed = r.closed /\ q.eof = TRUE /\ q.cut = r.cut
  BY <1>1 DEF RxHalf
<1>3. RxInv(e, t, w, q)
  BY <1>1, <1>2 DEF RxInv
<1>4. /\ t.finSent /\ t.closeReq /\ ~t.syn /\ t.buf = <<>>
      /\ Len(r.out) + Len(r.hand) = Sent(t, w)
  BY <1>1 DEF RxInv, TxInv
<1>5. Len(r.hand) = 0 /\ Len(t.buf) = 0 /\ Len(r.out) \in Nat /\ Len(w) \in Nat
  BY <1>1, <1>4, TxNumbers
<1>6. Len(r.out) = Len(w)
  <2>1. Len(r.out) + 0 = Len(w) - 0
    BY <1>4, <1>5 DEF Sent
  <2> QED
    BY <1>5, <2>1
<1>7. r.out = w
  BY <1>1, <1>6, NumberedEqual DEF TxInv, RxInv
<1> QED
  BY <1>1, <1>2, <1>3, <1>4, <1>7 DEF SeesEnd

\* A step of rxLoop.
LEMMA DeliverStep ==
    ASSUME NEW e \in BOOLEAN, NEW t, NEW w, NEW r, NEW q, TxInv(e, t, w), RxInv(e, t, w, r),
           \/ \E f \in Due(r) : q = Reassembled(r, f)
           \/ r.hand # <<>> /\ q = HandedOver(r)
           \/ AtEnd(r) /\ q = [r EXCEPT !.eof = TRUE]
    PROVE  RxInv(e, t, w, q) /\ (Unseen(r, q) \/ SeesByte(w, r, q) \/ SeesEnd(t, w, r, q))
<1>1. CASE \E f \in Due(r) : q = Reassembled(r, f)
  BY <1>1, ReassembleStep
<1>2. CASE r.hand # <<>> /\ q = HandedOver(r)
  BY <1>2, HandOverStep
<1>3. CASE AtEnd(r) /\ q = [r EXCEPT !.eof = TRUE]
  BY <1>3, EndStep
<1> QED
  BY <1>1, <1>2, <1>3

\* Nothing has arrived.
LEMMA NewRxInv ==
    ASSUME NEW e \in BOOLEAN, NEW t, NEW w, TxInv(e, t, w)
    PROVE  RxInv(e, t, w, NewRx)
<1>1. <<>> \in Seq(Nat) /\ Len(<<>>) = 0 /\ \A k : Numbered(e, <<>>, k)
  BY NumberedNothing
<1>2. /\ NewRx \in RxHalf /\ NewRx.seq = 0 /\ NewRx.queue = {} /\ NewRx.out = <<>>
      /\ NewRx.hand = <<>> /\ NewRx.closed = FALSE /\ NewRx.eof = FALSE
  BY <1>1 DEF NewRx, RxHalf
<1>3. DataSent(t) \in Nat
  BY TxNumbers
<1>4. NewRx.seq <= DataSent(t)
  BY <1>2, <1>3
<1>5. Len(NewRx.out) + Len(NewRx.hand) = 0
  BY <1>1, <1>2
<1> QED
  BY <1>1, <1>2, <1>4, <1>5 DEF RxInv

\* A new session.
LEMMA NewHalf ==
    ASSUME NEW e \in BOOLEAN, NEW syn \in BOOLEAN
    PROVE  TxInv(e, NewTx(syn), <<>>) /\ RxInv(e, NewTx(syn), <<>>, NewRx)
<1> DEFINE t == NewTx(syn)
<1>1. <<>> \in Seq(Nat) /\ Len(<<>>) = 0 /\ \A k : Numbered(e, <<>>, k)
  BY EmptySeq DEF Numbered
<1>2. /\ t \in TxHalf /\ t.buf = <<>> /\ t.seq = 0 /\ t.closeReq = FALSE
      /\ t.finSent = FALSE
  BY <1>1 DEF NewTx, TxHalf
<1> HIDE DEF t
<1>4. Sent(t, <<>>) = 0
  BY <1>1, <1>2 DEF Sent
<1>5. DataSent(t) = 0
  <2>1. DataSent(t) = t.seq - 0
    BY <1>2 DEF DataSent
  <2> QED
    BY <1>2, <2>1
<1>6. Shift(t, <<>>) = 0
  BY <1>4, <1>5 DEF Shift
<1>7. TxInv(e, t, <<>>)
  <2>1. Len(t.buf) <= Len(<<>>) /\ Len(t.buf) = 0
    BY <1>1, <1>2
  <2>2. Numbered(e, <<>>, 0) /\ Numbered(e, t.buf, Sent(t, <<>>))
    BY <1>1, <1>2
  <2> QED
    BY <1>1, <1>2, <1>4, <1>6, <2>1, <2>2 DEF TxInv
<1> QED
  BY <1>7, NewRxInv DEF t

-----------------------------------------------------------------------------
(* The direction to the application. *)

\* The frames in responses are those of the exit, whose half has no SYN.
DownInv ==
    /\ TxInv(FALSE, sTx, downIn) /\ ~sTx.syn /\ RxInv(FALSE, sTx, downIn, cRx)
    /\ \A f \in down : FrameInv(FALSE, sTx, downIn, f)

\* What DownInv is about.
downState == <<sTx, downIn, cRx, down>>

\* A step of the other direction.
LEMMA DownUntouched ==
    ASSUME DownInv, UNCHANGED downState
    PROVE  DownInv' /\ UNCHANGED Down!vars
  BY DEF DownInv, downState, Down!vars

\* A step of the writer's half keeps the invariant if its lemma does.
LEMMA DownFromTx ==
    ASSUME DownInv, TxInv(FALSE, sTx', downIn'), ~sTx'.syn,
           \A f : FrameInv(FALSE, sTx, downIn, f) => FrameInv(FALSE, sTx', downIn', f),
           \A r : RxInv(FALSE, sTx, downIn, r) => RxInv(FALSE, sTx', downIn', r),
           UNCHANGED cRx,
           \A f \in down' : f \in down \/ FrameInv(FALSE, sTx', downIn', f)
    PROVE  DownInv'
<1>1. RxInv(FALSE, sTx', downIn', cRx')
  BY DEF DownInv
<1>2. \A f \in down' : FrameInv(FALSE, sTx', downIn', f)
  BY DEF DownInv
<1> QED
  BY <1>1, <1>2 DEF DownInv

\* A step that leaves the writer's half alone.
LEMMA DownFromRx ==
    ASSUME DownInv, UNCHANGED <<sTx, downIn>>, RxInv(FALSE, sTx, downIn, cRx'),
           down' \subseteq down
    PROVE  DownInv'
  BY DEF DownInv

\* The target writes: a write of the stream.
LEMMA DownTargetWrite == DownInv /\ TargetWrite => DownInv' /\ Down!Write
<1> SUFFICES ASSUME DownInv, TargetWrite PROVE DownInv' /\ Down!Write
  OBVIOUS
<1>1. TxInv(FALSE, sTx, downIn) /\ ~sTx.syn /\ ~sTx.closeReq /\ sTx \in TxHalf
  BY DEF DownInv, TargetWrite, TxInv
<1>2. /\ sTx' = [sTx EXCEPT !.buf = Append(sTx.buf, Len(downIn) + 1)]
      /\ downIn' = Append(downIn, Len(downIn) + 1)
      /\ UNCHANGED <<cRx, down>>
  BY DEF TargetWrite, net
<1>3. /\ TxInv(FALSE, sTx', downIn')
      /\ \A f : FrameInv(FALSE, sTx, downIn, f) => FrameInv(FALSE, sTx', downIn', f)
      /\ \A r : RxInv(FALSE, sTx, downIn, r) => RxInv(FALSE, sTx', downIn', r)
  <2>1. Len(downIn) + 1 = Value(FALSE, Len(downIn) + 1)
    BY DEF Value
  <2> QED
    BY <1>1, <1>2, <2>1, WriteStep
<1>4. sTx'.syn = sTx.syn /\ sTx'.closeReq = sTx.closeReq
  BY <1>1, <1>2 DEF TxHalf
<1>5. DownInv'
  BY <1>1, <1>2, <1>3, <1>4, DownFromTx
<1>6. Len(downIn) + 1 \in 1..MaxDown
  <2>1. Len(downIn) \in Nat /\ MaxDown \in Nat /\ Len(downIn) < MaxDown
    BY <1>1, TxNumbers, RelayBoundsAssumption DEF TargetWrite
  <2> QED
    BY <2>1
<1> QED
  BY <1>1, <1>2, <1>4, <1>5, <1>6 DEF Down!Write

\* The target closes: the end of the stream.
LEMMA DownTargetClose == DownInv /\ TargetClose => DownInv' /\ Down!Close
<1> SUFFICES ASSUME DownInv, TargetClose PROVE DownInv' /\ Down!Close
  OBVIOUS
<1>1. TxInv(FALSE, sTx, downIn) /\ ~sTx.syn /\ ~sTx.closeReq /\ sTx \in TxHalf
  BY DEF DownInv, TargetClose, TxInv
<1>2. /\ sTx' = [sTx EXCEPT !.closeReq = TRUE]
      /\ UNCHANGED <<downIn, cRx, down>>
  BY DEF TargetClose, net, history
<1>3. /\ TxInv(FALSE, sTx', downIn')
      /\ \A f : FrameInv(FALSE, sTx, downIn, f) => FrameInv(FALSE, sTx', downIn', f)
      /\ \A r : RxInv(FALSE, sTx, downIn, r) => RxInv(FALSE, sTx', downIn', r)
  BY <1>1, <1>2, CloseStep
<1>4. sTx'.syn = sTx.syn /\ sTx'.closeReq = TRUE
  BY <1>1, <1>2 DEF TxHalf
<1>5. DownInv'
  BY <1>1, <1>2, <1>3, <1>4, DownFromTx
<1> QED
  BY <1>1, <1>2, <1>4, <1>5 DEF Down!Close

\* A frame leaves the exit: nothing the ends of the stream see.
LEMMA DownReply == DownInv /\ Reply => DownInv' /\ UNCHANGED Down!vars
<1> SUFFICES ASSUME DownInv, Reply PROVE DownInv' /\ UNCHANGED Down!vars
  OBVIOUS
<1>1. TxInv(FALSE, sTx, downIn) /\ HasPendingTx(sTx) /\ sTx \in TxHalf
  BY DEF DownInv, Reply, TxInv
<1>2. /\ sTx' = Drained(sTx) /\ down' = down \cup {NextFrame(sTx)}
      /\ UNCHANGED <<downIn, cRx>>
  BY DEF Reply, history
<1>3. /\ TxInv(FALSE, sTx', downIn') /\ FrameInv(FALSE, sTx', downIn', NextFrame(sTx))
      /\ \A f : FrameInv(FALSE, sTx, downIn, f) => FrameInv(FALSE, sTx', downIn', f)
      /\ \A r : RxInv(FALSE, sTx, downIn, r) => RxInv(FALSE, sTx', downIn', r)
  BY <1>1, <1>2, DrainStep
<1>4. sTx'.syn = FALSE /\ sTx'.closeReq = sTx.closeReq
  BY <1>1, <1>2, DrainedFields
<1>5. \A f \in down' : f \in down \/ FrameInv(FALSE, sTx', downIn', f)
  BY <1>2, <1>3
<1>6. DownInv'
  BY <1>2, <1>3, <1>4, <1>5, DownFromTx
<1> QED
  BY <1>2, <1>4, <1>6 DEF Down!vars

\* A step of the client's rxLoop: a read, the end, or nothing the ends see.
LEMMA DownDeliver == DownInv /\ ClientDeliver => DownInv' /\ [Down!Next]_(Down!vars)
<1> SUFFICES ASSUME DownInv, ClientDeliver PROVE DownInv' /\ [Down!Next]_(Down!vars)
  OBVIOUS
<1>1. \/ \E f \in Due(cRx) : cRx' = Reassembled(cRx, f)
      \/ cRx.hand # <<>> /\ cRx' = HandedOver(cRx)
      \/ AtEnd(cRx) /\ cRx' = [cRx EXCEPT !.eof = TRUE]
  BY DEF ClientDeliver
<1>2. /\ TxInv(FALSE, sTx, downIn) /\ RxInv(FALSE, sTx, downIn, cRx)
      /\ UNCHANGED <<sTx, downIn, down>>
  BY DEF ClientDeliver, DownInv, net, history
<1>3. /\ RxInv(FALSE, sTx, downIn, cRx')
      /\ Unseen(cRx, cRx') \/ SeesByte(downIn, cRx, cRx') \/ SeesEnd(sTx, downIn, cRx, cRx')
  BY <1>1, <1>2, DeliverStep
<1>4. DownInv'
  BY <1>2, <1>3, DownFromRx
<1>5. CASE Unseen(cRx, cRx')
  BY <1>2, <1>4, <1>5 DEF Unseen, Down!vars
<1>6. CASE SeesByte(downIn, cRx, cRx')
  BY <1>2, <1>4, <1>6 DEF SeesByte, Down!Next, Down!Read
<1>7. CASE SeesEnd(sTx, downIn, cRx, cRx')
  BY <1>2, <1>4, <1>7 DEF SeesEnd, Down!Next, Down!Eof
<1> QED
  BY <1>3, <1>5, <1>6, <1>7

\* A frame arrives at the client and joins those that wait for their turn.
LEMMA DownArrive ==
    ASSUME DownInv, NEW f, ArriveDown(f)
    PROVE  DownInv' /\ UNCHANGED Down!vars
<1>1. /\ f \in down /\ down' = down \ {f}
      /\ cRx' = IF client = "open" THEN Received(cRx, f) ELSE cRx
      /\ UNCHANGED <<sTx, downIn>>
  BY DEF ArriveDown, history
<1>2. RxInv(FALSE, sTx, downIn, cRx) /\ FrameInv(FALSE, sTx, downIn, f)
  BY <1>1 DEF DownInv
<1>3. RxInv(FALSE, sTx, downIn, cRx') /\ Unseen(cRx, cRx')
  <2>1. RxInv(FALSE, sTx, downIn, Received(cRx, f)) /\ Unseen(cRx, Received(cRx, f))
    BY <1>2, ReceiveStep
  <2> QED
    BY <1>1, <1>2, <2>1 DEF Unseen
<1>4. DownInv'
  BY <1>1, <1>3, DownFromRx
<1> QED
  BY <1>1, <1>3, <1>4 DEF Unseen, Down!vars

\* The client's session is stopped, by an overflow, the collector or an RST: the
\* stream is cut, unless it has ended.
LEMMA DownStopped ==
    ASSUME DownInv, ArriveRST \/ ClientDone \/ \E f \in down : ClientOverflow(f)
    PROVE  DownInv' /\ [Down!Next]_(Down!vars)
<1>1. cRx' = Stopped(cRx) /\ UNCHANGED <<sTx, downIn>> /\ down' \subseteq down
  BY DEF ArriveRST, ClientDone, ClientOverflow, net, history
<1>2. RxInv(FALSE, sTx, downIn, cRx') /\ (Unseen(cRx, cRx') \/ SeesCut(cRx, cRx'))
  BY <1>1, StopStep DEF DownInv
<1>3. DownInv'
  BY <1>1, <1>2, DownFromRx
<1>4. CASE Unseen(cRx, cRx')
  BY <1>1, <1>3, <1>4 DEF Unseen, Down!vars
<1>5. CASE SeesCut(cRx, cRx')
  BY <1>1, <1>3, <1>5 DEF SeesCut, Down!Next, Down!Cut
<1> QED
  BY <1>2, <1>4, <1>5

\* The downward stream at the start.
LEMMA DownInit == Init => DownInv /\ Down!Init
<1> SUFFICES ASSUME Init PROVE DownInv /\ Down!Init
  OBVIOUS
<1>1. sTx = NewTx(FALSE) /\ cRx = NewRx /\ downIn = <<>> /\ down = {}
  BY DEF Init
<1>2. TxInv(FALSE, sTx, downIn) /\ RxInv(FALSE, sTx, downIn, cRx)
  BY <1>1, NewHalf
<1>3. /\ ~sTx.syn /\ sTx.closeReq = FALSE /\ cRx.out = <<>> /\ cRx.eof = FALSE
      /\ cRx.cut = FALSE
  BY <1>1 DEF NewTx, NewRx
<1> QED
  BY <1>1, <1>2, <1>3 DEF DownInv, Down!Init

\* Every step is one of ByteStream's, or leaves the stream alone.
LEMMA DownStep ==
    ASSUME DownInv, [Next]_vars
    PROVE  DownInv' /\ [Down!Next]_(Down!vars)
<1>1. CASE UNCHANGED vars
  <2>1. UNCHANGED downState
    BY <1>1 DEF vars, halves, net, history, downState
  <2> QED
    BY <2>1, DownUntouched
<1>2. CASE Ends
  <2>1. CASE ClientWrite \/ ClientClose
    <3>1. UNCHANGED downState
      BY <2>1 DEF ClientWrite, ClientClose, net, history, downState
    <3> QED
      BY <3>1, DownUntouched
  <2>2. CASE TargetWrite
    BY <2>2, DownTargetWrite DEF Down!Next
  <2>3. CASE TargetClose
    BY <2>3, DownTargetClose DEF Down!Next
  <2> QED
    BY <1>2, <2>1, <2>2, <2>3 DEF Ends
<1>3. CASE Loops
  <2>1. CASE ClientDeliver
    BY <2>1, DownDeliver
  <2>2. CASE ExitDeliver
    <3>1. UNCHANGED downState
      BY <2>2 DEF ExitDeliver, net, history, downState
    <3> QED
      BY <3>1, DownUntouched
  <2> QED
    BY <1>3, <2>1, <2>2 DEF Loops
<1>4. CASE Reply
  BY <1>4, DownReply
<1>5. CASE Send \/ Dials \/ ExitDone \/ ExitCut \/ \E f \in up : ArriveUp(f)
  <2>1. UNCHANGED downState
    BY <1>5 DEF Send, Dials, DialFails, DialOK, DialTwice, ExitDone, ExitCut, ArriveUp,
                Arrive, ExitOverflow, ArriveUnknown, Dial, halves, net, history, downState
  <2> QED
    BY <2>1, DownUntouched
<1>6. CASE ArriveRST \/ ClientDone \/ \E f \in down : ClientOverflow(f)
  BY <1>6, DownStopped
<1>7. CASE \E f \in down : ArriveDown(f)
  BY <1>7, DownArrive
<1> QED
  BY <1>1, <1>2, <1>3, <1>4, <1>5, <1>6, <1>7 DEF Next, Collect, RouteDown

\* The application reads what the target wrote, whatever responses are lost
\* or overtake each other: for every bound, the relay implements ByteStream
\* towards the application.
THEOREM DownImplementsByteStream == Spec => DownIsByteStream
<1>1. Init => DownInv /\ Down!Init
  BY DownInit
<1>2. DownInv /\ [Next]_vars => DownInv' /\ [Down!Next]_(Down!vars)
  BY DownStep
<1> QED
  BY <1>1, <1>2, PTL DEF Spec, DownIsByteStream, Down!Spec

-----------------------------------------------------------------------------
(* The direction to the target. *)

\* The frames between the halves are those of the writer; dials holds copies
\* of the SYN.
UpInv ==
    /\ early \in BOOLEAN
    /\ TxInv(early, cTx, upIn) /\ RxInv(early, cTx, upIn, sRx)
    /\ \A f \in up : FrameInv(early, cTx, upIn, f)
    /\ dials \in Seq(FrameType)
    /\ \A i \in 1..Len(dials) : FrameInv(early, cTx, upIn, dials[i])

\* Until the SYN has left nothing has happened at the exit.
Start == cTx.syn => exit = "none" /\ up = {} /\ dials = <<>> /\ sRx = NewRx

\* A write of the application leaves the SYN and the close request alone.
LEMMA WriteFields ==
    ASSUME cTx \in TxHalf, NEW b \in Nat
    PROVE  LET u == [cTx EXCEPT !.buf = Queued(cTx, b)]
           IN  u.syn = cTx.syn /\ u.closeReq = cTx.closeReq
<1>1. cTx.buf \in Seq(Nat) /\ <<b>> \in Seq(Nat)
  BY DEF TxHalf
<1>2. Queued(cTx, b) \in Seq(Nat)
  BY <1>1, ConcatProperties, AppendProperties DEF Queued
<1>3. PICK x \in Seq(Nat) : x = Queued(cTx, b)
  BY <1>2
<1>4. /\ [cTx EXCEPT !.buf = x].syn = cTx.syn
      /\ [cTx EXCEPT !.buf = x].closeReq = cTx.closeReq
  BY DEF TxHalf
<1> QED
  BY <1>3, <1>4

\* Only Send sends the SYN, and nothing brings it back.
LEMMA SynSteps ==
    ASSUME UpInv, [Next]_vars
    PROVE  cTx'.syn => cTx.syn /\ ~Send
<1>1. cTx \in TxHalf /\ early \in BOOLEAN /\ Len(upIn) \in Nat
  BY DEF UpInv, TxInv
<1>2. CASE Send
  <2>1. cTx'.syn = FALSE
    BY <1>1, <1>2, DrainedFields DEF Send
  <2> QED
    BY <2>1
<1>3. CASE ~Send /\ ClientWrite
  <2>1. PICK b \in Nat : cTx' = [cTx EXCEPT !.buf = Queued(cTx, b)]
    <3>1. (IF cTx.syn \/ early THEN 0 ELSE Len(upIn) + 1) \in Nat
      BY <1>1
    <3> QED
      BY <1>3, <3>1 DEF ClientWrite
  <2>2. cTx'.syn = cTx.syn
    BY <1>1, <2>1, WriteFields
  <2> QED
    BY <1>3, <2>2
<1>4. CASE ~Send /\ (ClientClose \/ ArriveRST)
  <2>1. cTx' = [cTx EXCEPT !.closeReq = TRUE]
    BY <1>4 DEF ClientClose, ArriveRST
  <2>2. cTx'.syn = cTx.syn
    BY <1>1, <2>1 DEF TxHalf
  <2> QED
    BY <1>4, <2>2
<1>5. UNCHANGED cTx \/ ClientWrite \/ Send \/ ClientClose \/ ArriveRST
  BY DEF Next, Ends, TargetWrite, TargetClose, Loops, ClientDeliver, ExitDeliver, Reply,
         Dials, DialFails, DialOK, DialTwice, Collect, ExitDone, ExitCut, ClientDone,
         ArriveUp, Arrive, ExitOverflow, ArriveUnknown, Dial, RouteDown, ArriveDown,
         ClientOverflow, vars, halves, net, history
<1> QED
  BY <1>2, <1>3, <1>4, <1>5

\* Nothing happens at the exit before the SYN.
LEMMA StartStep ==
    ASSUME UpInv, Start, [Next]_vars
    PROVE  Start'
<1> SUFFICES ASSUME cTx'.syn
             PROVE  exit' = "none" /\ up' = {} /\ dials' = <<>> /\ sRx' = NewRx
  BY DEF Start
<1>1. exit = "none" /\ up = {} /\ dials = <<>> /\ sRx = NewRx /\ ~Send
  BY SynSteps DEF Start
<1>2. Due(NewRx) = {} /\ NewRx.hand = <<>> /\ ~AtEnd(NewRx)
  BY DEF Due, NewRx, AtEnd
<1>3. ~ExitDeliver
  BY <1>1, <1>2 DEF ExitDeliver
<1> QED
  BY <1>1, <1>3
     DEF Next, Ends, ClientWrite, ClientClose, TargetWrite, TargetClose, Loops, ClientDeliver,
         Reply, Dials, DialFails, DialOK, DialTwice, ArriveRST, Collect, ExitDone,
         ExitCut, ClientDone, RouteDown, ArriveDown, ClientOverflow, vars, halves, net, history

\* A step of the writer's half keeps the invariant if its lemma does.
LEMMA UpFromTx ==
    ASSUME UpInv, UNCHANGED <<early, sRx, dials>>, TxInv(early, cTx', upIn'),
           \A f : FrameInv(early, cTx, upIn, f) => FrameInv(early, cTx', upIn', f),
           \A r : RxInv(early, cTx, upIn, r) => RxInv(early, cTx', upIn', r),
           \A f \in up' : f \in up \/ FrameInv(early, cTx', upIn', f)
    PROVE  UpInv'
<1>1. RxInv(early, cTx', upIn', sRx')
  BY DEF UpInv
<1>2. \A f \in up' : FrameInv(early, cTx', upIn', f)
  BY DEF UpInv
<1>3. dials' \in Seq(FrameType)
      /\ \A i \in 1..Len(dials') : FrameInv(early, cTx', upIn', dials'[i])
  BY DEF UpInv
<1> QED
  BY <1>1, <1>2, <1>3 DEF UpInv

\* A step that leaves the writer's half alone.
LEMMA UpFromRx ==
    ASSUME UpInv, UNCHANGED <<cTx, upIn, early>>, RxInv(early, cTx, upIn, sRx'),
           up' \subseteq up, dials' \in Seq(FrameType),
           \A i \in 1..Len(dials') : FrameInv(early, cTx, upIn, dials'[i])
    PROVE  UpInv'
  BY DEF UpInv

\* The SYN copies behind the first.
LEMMA DialsTail ==
    ASSUME UpInv, dials # <<>>
    PROVE  /\ FrameInv(early, cTx, upIn, Head(dials))
           /\ Tail(dials) \in Seq(FrameType)
           /\ \A i \in 1..Len(Tail(dials)) : FrameInv(early, cTx, upIn, Tail(dials)[i])
<1>1. dials \in Seq(FrameType) /\ Len(dials) \in Nat \ {0}
  BY EmptySeq DEF UpInv
<1>2. /\ Head(dials) = dials[1] /\ Tail(dials) \in Seq(FrameType)
      /\ Len(Tail(dials)) = Len(dials) - 1
      /\ \A i \in 1..Len(Tail(dials)) : Tail(dials)[i] = dials[i + 1]
  BY <1>1, HeadTailProperties
<1>3. \A i \in 1..Len(Tail(dials)) : i + 1 \in 1..Len(dials)
  BY <1>1, <1>2
<1>4. 1 \in 1..Len(dials)
  BY <1>1
<1> QED
  BY <1>2, <1>3, <1>4 DEF UpInv

\* Another copy is dialled.
LEMMA DialsAppend ==
    ASSUME UpInv, NEW f, FrameInv(early, cTx, upIn, f)
    PROVE  /\ Append(dials, f) \in Seq(FrameType)
           /\ \A i \in 1..Len(Append(dials, f)) :
                FrameInv(early, cTx, upIn, Append(dials, f)[i])
<1>1. dials \in Seq(FrameType) /\ Len(dials) \in Nat /\ f \in FrameType
  BY DEF UpInv, FrameInv
<1>2. /\ Append(dials, f) \in Seq(FrameType) /\ Len(Append(dials, f)) = Len(dials) + 1
      /\ \A i \in 1..Len(dials) : Append(dials, f)[i] = dials[i]
      /\ Append(dials, f)[Len(dials) + 1] = f
  BY <1>1, AppendProperties
<1>3. \A i \in 1..(Len(dials) + 1) : i \in 1..Len(dials) \/ i = Len(dials) + 1
  BY <1>1
<1> QED
  BY <1>2, <1>3 DEF UpInv

\* A step of the other direction.
LEMMA UpUntouched ==
    ASSUME UpInv, UNCHANGED <<cTx, upIn, early, sRx, up, dials>>
    PROVE  UpInv' /\ UNCHANGED Up!vars
  BY DEF UpInv, Up!vars

\* A write behind the SYN.
LEMMA UpWrite ==
    ASSUME UpInv, ~cTx.syn, ClientWrite
    PROVE  UpInv' /\ Up!Write
<1> DEFINE b == Value(early, Len(upIn) + 1)
<1>1. /\ early \in BOOLEAN /\ TxInv(early, cTx, upIn) /\ ~cTx.closeReq
      /\ cTx \in TxHalf /\ cTx.buf \in Seq(Nat)
  BY DEF UpInv, ClientWrite, TxInv, TxHalf
<1>2. Len(upIn) \in Nat /\ b \in Nat
  BY <1>1, TxNumbers, ValueType
<1>3. /\ cTx' = [cTx EXCEPT !.buf = Append(cTx.buf, b)]
      /\ upIn' = Append(upIn, b)
      /\ UNCHANGED <<early, sRx, up, dials>>
  <2>1. cTx' = [cTx EXCEPT !.buf = Queued(cTx, b)] /\ upIn' = Append(upIn, b)
    BY DEF ClientWrite, Value
  <2>2. Queued(cTx, b) = Append(cTx.buf, b)
    BY DEF Queued
  <2>3. UNCHANGED <<early, sRx, up, dials>>
    BY <1>1 DEF ClientWrite, net
  <2> QED
    BY <2>1, <2>2, <2>3
<1> HIDE DEF b
<1>4. /\ TxInv(early, cTx', upIn')
      /\ \A f : FrameInv(early, cTx, upIn, f) => FrameInv(early, cTx', upIn', f)
      /\ \A r : RxInv(early, cTx, upIn, r) => RxInv(early, cTx', upIn', r)
  BY <1>1, <1>3, WriteStep DEF b
<1>5. cTx'.closeReq = cTx.closeReq /\ cTx'.syn = cTx.syn
  <2>1. Append(cTx.buf, b) \in Seq(Nat)
    BY <1>1, <1>2, AppendProperties
  <2> QED
    BY <1>1, <1>3, <2>1 DEF TxHalf
<1>6. UpInv'
  BY <1>3, <1>4, UpFromTx
<1>7. b \in 0..MaxUp
  <2>1. MaxUp \in Nat /\ Len(upIn) < MaxUp
    BY RelayBoundsAssumption DEF ClientWrite
  <2> QED
    BY <1>2, <2>1 DEF b, Value
<1> QED
  BY <1>1, <1>3, <1>5, <1>6, <1>7 DEF Up!Write

\* A write before the SYN.
LEMMA UpEarlyWrite ==
    ASSUME UpInv, Start, cTx.syn, ClientWrite
    PROVE  UpInv' /\ Up!Write
<1>1. /\ early \in BOOLEAN /\ TxInv(early, cTx, upIn) /\ cTx \in TxHalf
      /\ up = {} /\ dials = <<>> /\ sRx = NewRx
  BY DEF UpInv, TxInv, Start
<1>2. /\ cTx' = [cTx EXCEPT !.buf = <<0>> \o cTx.buf] /\ upIn' = Append(upIn, 0)
      /\ early' = TRUE /\ UNCHANGED <<sRx, up, dials>>
  <2>1. cTx' = [cTx EXCEPT !.buf = Queued(cTx, 0)] /\ upIn' = Append(upIn, 0)
    BY DEF ClientWrite
  <2>2. Queued(cTx, 0) = <<0>> \o cTx.buf
    BY DEF Queued
  <2>3. early' = TRUE /\ UNCHANGED <<sRx, up, dials>>
    BY DEF ClientWrite, net
  <2> QED
    BY <2>1, <2>2, <2>3
<1>3. TxInv(TRUE, cTx', upIn') /\ cTx'.syn = cTx.syn /\ cTx'.closeReq = cTx.closeReq
  BY <1>1, <1>2, EarlyWriteStep
<1>4. RxInv(TRUE, cTx', upIn', sRx')
  BY <1>1, <1>2, <1>3, NewRxInv
<1>5. /\ dials' \in Seq(FrameType)
      /\ \A i \in 1..Len(dials') : FrameInv(TRUE, cTx', upIn', dials'[i])
  <2>1. dials' \in Seq(FrameType) /\ Len(dials') = 0
    BY <1>1, <1>2, EmptySeq
  <2> QED
    BY <2>1
<1>6. UpInv'
  BY <1>1, <1>2, <1>3, <1>4, <1>5 DEF UpInv
<1>7. 0 \in 0..MaxUp
  BY RelayBoundsAssumption
<1> QED
  BY <1>2, <1>3, <1>6, <1>7 DEF Up!Write

\* The session is closed, by the application or by an RST.
LEMMA UpClose ==
    ASSUME UpInv, ClientClose \/ ArriveRST
    PROVE  UpInv' /\ [Up!Next]_(Up!vars)
<1>1. /\ early \in BOOLEAN /\ TxInv(early, cTx, upIn) /\ cTx \in TxHalf
      /\ cTx.closeReq \in BOOLEAN /\ cTx.syn \in BOOLEAN
  BY DEF UpInv, TxInv, TxHalf
<1>2. /\ cTx' = [cTx EXCEPT !.closeReq = TRUE]
      /\ UNCHANGED <<upIn, early, sRx, up, dials>>
  BY DEF ClientClose, ArriveRST, net, history
<1>3. /\ TxInv(early, cTx', upIn')
      /\ \A f : FrameInv(early, cTx, upIn, f) => FrameInv(early, cTx', upIn', f)
      /\ \A r : RxInv(early, cTx, upIn, r) => RxInv(early, cTx', upIn', r)
  BY <1>1, <1>2, CloseStep
<1>4. cTx'.closeReq = TRUE /\ cTx'.syn = cTx.syn
  BY <1>1, <1>2 DEF TxHalf
<1>5. UpInv'
  BY <1>2, <1>3, UpFromTx
<1>6. CASE cTx.syn \/ cTx.closeReq
  <2>1. (cTx.closeReq /\ ~cTx.syn)' = (cTx.closeReq /\ ~cTx.syn)
    BY <1>1, <1>4, <1>6
  <2> QED
    BY <1>2, <1>5, <2>1 DEF Up!vars
<1>7. CASE ~cTx.syn /\ ~cTx.closeReq
  <2>1. (cTx.closeReq /\ ~cTx.syn)' = TRUE
    BY <1>4, <1>7
  <2> QED
    BY <1>2, <1>5, <1>7, <2>1 DEF Up!Next, Up!Close
<1> QED
  BY <1>6, <1>7

\* A frame leaves the client: nothing the ends of the stream see, unless it is
\* the SYN of a session that is closed.
LEMMA UpSend ==
    ASSUME UpInv, Send
    PROVE  UpInv' /\ [Up!Next]_(Up!vars)
<1>1. /\ early \in BOOLEAN /\ TxInv(early, cTx, upIn) /\ HasPendingTx(cTx) /\ cTx \in TxHalf
      /\ cTx.closeReq \in BOOLEAN /\ cTx.syn \in BOOLEAN
  BY DEF UpInv, Send, TxInv, TxHalf
<1>2. /\ cTx' = Drained(cTx) /\ up' = up \cup {NextFrame(cTx)}
      /\ UNCHANGED <<upIn, early, sRx, dials>>
  BY DEF Send, history
<1>3. /\ TxInv(early, cTx', upIn') /\ FrameInv(early, cTx', upIn', NextFrame(cTx))
      /\ \A f : FrameInv(early, cTx, upIn, f) => FrameInv(early, cTx', upIn', f)
      /\ \A r : RxInv(early, cTx, upIn, r) => RxInv(early, cTx', upIn', r)
  BY <1>1, <1>2, DrainStep
<1>4. cTx'.closeReq = cTx.closeReq /\ cTx'.syn = FALSE
  BY <1>1, <1>2, DrainedFields
<1>5. \A f \in up' : f \in up \/ FrameInv(early, cTx', upIn', f)
  BY <1>2, <1>3
<1>6. UpInv'
  BY <1>2, <1>3, <1>5, UpFromTx
<1>7. CASE cTx.syn /\ cTx.closeReq
  <2>1. (cTx.closeReq /\ ~cTx.syn)' = TRUE
    BY <1>4, <1>7
  <2> QED
    BY <1>2, <1>6, <1>7, <2>1 DEF Up!Next, Up!Close
<1>8. CASE ~(cTx.syn /\ cTx.closeReq)
  <2>1. (cTx.closeReq /\ ~cTx.syn)' = (cTx.closeReq /\ ~cTx.syn)
    BY <1>1, <1>4, <1>8
  <2> QED
    BY <1>2, <1>6, <2>1 DEF Up!vars
<1> QED
  BY <1>7, <1>8

\* A step of the exit's rxLoop: a read, the end, or nothing the ends see.
LEMMA UpDeliver ==
    ASSUME UpInv, ExitDeliver
    PROVE  UpInv' /\ [Up!Next]_(Up!vars)
<1>1. \/ \E f \in Due(sRx) : sRx' = Reassembled(sRx, f)
      \/ sRx.hand # <<>> /\ sRx' = HandedOver(sRx)
      \/ AtEnd(sRx) /\ sRx' = [sRx EXCEPT !.eof = TRUE]
  BY DEF ExitDeliver
<1>2. /\ early \in BOOLEAN /\ TxInv(early, cTx, upIn) /\ RxInv(early, cTx, upIn, sRx)
      /\ UNCHANGED <<cTx, upIn, early, up, dials>>
  BY DEF ExitDeliver, UpInv, net, history
<1>3. /\ RxInv(early, cTx, upIn, sRx')
      /\ Unseen(sRx, sRx') \/ SeesByte(upIn, sRx, sRx') \/ SeesEnd(cTx, upIn, sRx, sRx')
  BY <1>1, <1>2, DeliverStep
<1>4. UpInv'
  BY <1>2, <1>3, UpFromRx DEF UpInv
<1>5. CASE Unseen(sRx, sRx')
  BY <1>2, <1>4, <1>5 DEF Unseen, Up!vars
<1>6. CASE SeesByte(upIn, sRx, sRx')
  BY <1>2, <1>4, <1>6 DEF SeesByte, Up!Next, Up!Read
<1>7. CASE SeesEnd(cTx, upIn, sRx, sRx')
  BY <1>2, <1>4, <1>7 DEF SeesEnd, Up!Next, Up!Eof
<1> QED
  BY <1>3, <1>5, <1>6, <1>7

\* A frame that gets into the receive half of the exit.
LEMMA UpReceive ==
    ASSUME UpInv, UNCHANGED <<cTx, upIn, early>>, up' \subseteq up,
           NEW f, FrameInv(early, cTx, upIn, f), sRx' = Received(sRx, f),
           dials' \in Seq(FrameType),
           \A i \in 1..Len(dials') : FrameInv(early, cTx, upIn, dials'[i])
    PROVE  UpInv' /\ UNCHANGED Up!vars
<1>1. RxInv(early, cTx, upIn, sRx') /\ Unseen(sRx, sRx')
  <2>1. RxInv(early, cTx, upIn, Received(sRx, f)) /\ Unseen(sRx, Received(sRx, f))
    BY ReceiveStep DEF UpInv
  <2> QED
    BY <2>1
<1>2. UpInv'
  BY <1>1, UpFromRx
<1> QED
  BY <1>1, <1>2 DEF Unseen, Up!vars

\* A frame reaches routeIncoming, or a dial ends.
LEMMA UpArrive ==
    ASSUME UpInv, Dials \/ \E f \in up : Arrive(f) \/ ArriveUnknown(f) \/ Dial(f)
    PROVE  UpInv' /\ UNCHANGED Up!vars
<1>1. UNCHANGED <<cTx, upIn, early>> /\ up' \subseteq up
  BY DEF Dials, DialFails, DialOK, DialTwice, Arrive, ArriveUnknown, Dial,
         Routed, halves, net, history
<1>2. RxInv(early, cTx, upIn, sRx) /\ dials \in Seq(FrameType)
      /\ \A i \in 1..Len(dials) : FrameInv(early, cTx, upIn, dials[i])
  BY DEF UpInv
<1>3. CASE UNCHANGED <<sRx, dials>>
  BY <1>1, <1>2, <1>3, UpFromRx DEF Up!vars
<1>4. CASE dials # <<>> /\ dials' = Tail(dials) /\ UNCHANGED sRx
  BY <1>1, <1>2, <1>4, DialsTail, UpFromRx DEF Up!vars
<1>5. CASE dials # <<>> /\ dials' = Tail(dials) /\ sRx' = Received(sRx, Head(dials))
  BY <1>1, <1>5, DialsTail, UpReceive
<1>6. ASSUME NEW f \in up, dials' = Append(dials, f), UNCHANGED sRx
      PROVE  UpInv' /\ UNCHANGED Up!vars
  <2>1. FrameInv(early, cTx, upIn, f)
    BY DEF UpInv
  <2> QED
    BY <1>1, <1>2, <1>6, <2>1, DialsAppend, UpFromRx DEF Up!vars
<1>7. ASSUME NEW f \in up, sRx' = Received(sRx, f), UNCHANGED dials
      PROVE  UpInv' /\ UNCHANGED Up!vars
  <2>1. FrameInv(early, cTx, upIn, f)
    BY DEF UpInv
  <2> QED
    BY <1>1, <1>2, <1>7, <2>1, UpReceive
<1>8. CASE Dials
  BY <1>3, <1>4, <1>5, <1>8 DEF Dials, DialFails, DialOK, DialTwice, halves, net
<1>9. CASE \E f \in up : Arrive(f) \/ ArriveUnknown(f) \/ Dial(f)
  <2>1. PICK f \in up : Arrive(f) \/ ArriveUnknown(f) \/ Dial(f)
    BY <1>9
  <2>2. \/ sRx' = Received(sRx, f) /\ UNCHANGED dials
        \/ UNCHANGED <<sRx, dials>>
        \/ dials' = Append(dials, f) /\ UNCHANGED sRx
    BY <2>1 DEF Arrive, ArriveUnknown, Dial, halves
  <2> QED
    BY <1>3, <1>6, <1>7, <2>2
<1> QED
  BY <1>8, <1>9

\* The exit's session is stopped, by the target, an overflow or a collector: the
\* stream is cut, unless it has ended.
LEMMA UpStopped ==
    ASSUME UpInv, TargetClose \/ ExitDone \/ ExitCut \/ \E f \in up : ExitOverflow(f)
    PROVE  UpInv' /\ [Up!Next]_(Up!vars)
<1>1. /\ sRx' = Stopped(sRx) /\ UNCHANGED <<cTx, upIn, early, dials>> /\ up' \subseteq up
  BY DEF TargetClose, ExitDone, ExitCut, ExitOverflow, Routed, net, history
<1>2. RxInv(early, cTx, upIn, sRx') /\ (Unseen(sRx, sRx') \/ SeesCut(sRx, sRx'))
  BY <1>1, StopStep DEF UpInv
<1>3. UpInv'
  BY <1>1, <1>2, UpFromRx DEF UpInv
<1>4. CASE Unseen(sRx, sRx')
  BY <1>1, <1>3, <1>4 DEF Unseen, Up!vars
<1>5. CASE SeesCut(sRx, sRx')
  BY <1>1, <1>3, <1>5 DEF SeesCut, Up!Next, Up!Cut
<1> QED
  BY <1>2, <1>4, <1>5

\* The upward stream at the start.
LEMMA UpInit == Init => UpInv /\ Start /\ Up!Init
<1> SUFFICES ASSUME Init PROVE UpInv /\ Start /\ Up!Init
  OBVIOUS
<1>1. /\ cTx = NewTx(TRUE) /\ sRx = NewRx /\ upIn = <<>> /\ up = {} /\ dials = <<>>
      /\ early = FALSE /\ exit = "none"
  BY DEF Init
<1>2. TxInv(early, cTx, upIn) /\ RxInv(early, cTx, upIn, sRx)
  BY <1>1, NewHalf
<1>3. /\ cTx.closeReq = FALSE /\ sRx.out = <<>> /\ sRx.eof = FALSE /\ sRx.cut = FALSE
  BY <1>1 DEF NewTx, NewRx
<1>4. /\ dials \in Seq(FrameType)
      /\ \A i \in 1..Len(dials) : FrameInv(early, cTx, upIn, dials[i])
  <2>1. dials \in Seq(FrameType) /\ Len(dials) = 0
    BY <1>1, EmptySeq
  <2> QED
    BY <2>1
<1>5. UpInv /\ Start
  BY <1>1, <1>2, <1>4 DEF UpInv, Start
<1> QED
  BY <1>1, <1>3, <1>5 DEF Up!Init

\* Every step is one of ByteStream's, or leaves the stream alone.
LEMMA UpStep ==
    ASSUME UpInv, Start, [Next]_vars
    PROVE  UpInv' /\ [Up!Next]_(Up!vars)
<1> DEFINE rest == <<cTx, upIn, early, sRx, up, dials>>
<1>1. CASE UNCHANGED rest
  BY <1>1, UpUntouched
<1>2. CASE ClientWrite
  BY <1>2, UpWrite, UpEarlyWrite DEF Up!Next
<1>3. CASE ClientClose \/ ArriveRST
  BY <1>3, UpClose
<1>4. CASE TargetClose \/ ExitDone \/ ExitCut \/ \E f \in up : ExitOverflow(f)
  BY <1>4, UpStopped
<1>5. CASE ExitDeliver
  BY <1>5, UpDeliver
<1>6. CASE Send
  BY <1>6, UpSend
<1>7. CASE Dials \/ \E f \in up : Arrive(f) \/ ArriveUnknown(f) \/ Dial(f)
  BY <1>7, UpArrive
<1>8. \/ UNCHANGED vars \/ TargetWrite \/ ClientDeliver \/ Reply \/ ClientDone
      \/ \E f \in down : RouteDown(f)
      => UNCHANGED rest
  BY DEF TargetWrite, ClientDeliver, Reply, ClientDone, RouteDown, ArriveDown,
         ClientOverflow, vars, halves, net, history
<1> QED
  BY <1>1, <1>2, <1>3, <1>4, <1>5, <1>6, <1>7, <1>8 DEF Next, Ends, Loops, Collect, ArriveUp

\* The target reads what the application wrote, over retried, lost, late and
\* repeated requests: for every bound on the bytes and on the copies, the relay
\* implements ByteStream towards the target.  The values of the bytes are those
\* written if the SYN had left before the first of them; otherwise the theorem
\* is about how many they are and about the end of the stream.
THEOREM UpImplementsByteStream == Spec => UpIsByteStream
<1>1. Init => UpInv /\ Start /\ Up!Init
  BY UpInit
<1>2. UpInv /\ Start /\ [Next]_vars => UpInv' /\ Start' /\ [Up!Next]_(Up!vars)
  BY UpStep, StartStep
<1> QED
  BY <1>1, <1>2, PTL DEF Spec, UpIsByteStream, Up!Spec

=============================================================================
