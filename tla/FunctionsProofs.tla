--------------------------- MODULE FunctionsProofs ---------------------------
(***************************************************************************)
(* Proofs about the four subjects of MCFunctions, in this order:           *)
(*                                                                         *)
(*   - FrameCodec, for every width, base and limit its assumptions allow:  *)
(*     numbers in bytes, the layout of a frame, the pieces of a plain      *)
(*     text, the loop of DecodeBatch, the trimming of a body;              *)
(*   - Fronting, for any number of hosts, attempts and times;              *)
(*   - KickCoalesce, for every step, cap and set of timers;                *)
(*   - Quota, for days of any length and any sequence of long, short and   *)
(*     ordinary days.                                                      *)
(*                                                                         *)
(* What a recursive function computes is proved in two steps: a function   *)
(* that satisfies the recursion exists, because the set of the numbers up  *)
(* to which one exists contains them all (SetInduction), and there is only *)
(* one.                                                                    *)
(***************************************************************************)
EXTENDS MCFunctions, FiniteSetTheorems, SequenceTheorems, WellFoundedInduction, TLAPS

\* Induction over the natural numbers, for a set.
LEMMA SetInduction ==
    ASSUME NEW S, 0 \in S, \A n \in Nat : n \in S => n + 1 \in S
    PROVE  Nat \subseteq S
<1> DEFINE T == Nat \ S
           R == OpToRel(<, Nat)
<1>1. IsWellFoundedOn(R, Nat)
  BY NatLessThanWellFounded
<1>2. SUFFICES ASSUME T # {} PROVE FALSE
  OBVIOUS
<1>3. PICK x \in T : \A y \in T : <<y, x>> \notin R
  <2> HIDE DEF R
  <2> QED
    BY <1>1, <1>2, WFMin
<1>4. \A y \in T : ~(y < x)
  BY <1>3 DEF OpToRel
<1>5. x # 0 /\ x - 1 \in Nat
  OBVIOUS
<1>6. x - 1 \in S
  BY <1>4, <1>5
<1> QED
  BY <1>5, <1>6

-----------------------------------------------------------------------------
(* Numbers in bytes. *)

\* The constants of the codec.
LEMMA CodecConsts ==
    /\ Base \in Nat /\ Base > 1
    /\ IDLen \in Nat /\ SeqBytes \in Nat /\ LenBytes \in Nat /\ CountBytes \in Nat
    /\ MaxTargetLen \in Nat /\ MaxPayload \in Nat /\ CompressMin \in Nat
    /\ MaxTargetLen < Base
    /\ IDLen > 0 /\ SeqBytes > 0 /\ LenBytes > 0 /\ CountBytes > 0
  BY ByteAssumption, WidthAssumption, LimitAssumption

\* The recursion of Pow up to n.
IsPow(g, n) == /\ g[0] = 1
               /\ \A k \in 1..n : g[k] = Base * g[k - 1]

\* It has a solution.
LEMMA PowExists ==
    \A n \in Nat : \E g \in [0..n -> Nat \ {0}] : IsPow(g, n)
<1> DEFINE N == {n \in Nat : \E g \in [0..n -> Nat \ {0}] : IsPow(g, n)}
<1>1. 0 \in N
  <2> DEFINE g == [k \in 0..0 |-> 1]
  <2>1. g \in [0..0 -> Nat \ {0}] /\ IsPow(g, 0)
    BY DEF IsPow
  <2> HIDE DEF g
  <2> QED
    BY <2>1
<1>2. ASSUME NEW n \in Nat, n \in N
      PROVE  n + 1 \in N
  <2>1. PICK g \in [0..n -> Nat \ {0}] : IsPow(g, n)
    BY <1>2
  <2> DEFINE h == [k \in 0..n + 1 |-> IF k = n + 1 THEN Base * g[n] ELSE g[k]]
  <2>2. Base * g[n] \in Nat \ {0}
    <3>1. Base \in Nat /\ Base > 0 /\ g[n] \in Nat /\ g[n] > 0
      BY CodecConsts
    <3> QED
      BY <3>1
  <2>3. h \in [0..n + 1 -> Nat \ {0}]
    BY <2>2
  <2>4. IsPow(h, n + 1)
    BY <2>1 DEF IsPow
  <2> HIDE DEF h
  <2> QED
    BY <2>3, <2>4
<1>3. Nat \subseteq N
  <2> HIDE DEF N
  <2> QED
    BY <1>1, <1>2, SetInduction
<1> QED
  BY <1>3

\* And no two.
LEMMA PowUnique ==
    ASSUME NEW m \in Nat, NEW n \in Nat, m <= n, NEW g, NEW h, IsPow(g, m), IsPow(h, n)
    PROVE  g[m] = h[m]
<1> DEFINE N == {k \in Nat : k <= m => g[k] = h[k]}
<1>1. 0 \in N
  BY DEF IsPow
<1>2. ASSUME NEW k \in Nat, k \in N
      PROVE  k + 1 \in N
  BY <1>2 DEF IsPow
<1>3. Nat \subseteq N
  <2> HIDE DEF N
  <2> QED
    BY <1>1, <1>2, SetInduction
<1> QED
  BY <1>3

\* The powers satisfy their equations, and are positive.
LEMMA PowDef ==
    /\ Pow[0] = 1
    /\ \A n \in Nat : Pow[n] \in Nat /\ Pow[n] > 0 /\ Pow[n + 1] = Base * Pow[n]
<1> DEFINE D(f, k) == IF k = 0 THEN 1 ELSE Base * f[k - 1]
           Eq(f) == f = [k \in Nat |-> D(f, k)]
           G(n) == CHOOSE g \in [0..n -> Nat \ {0}] : IsPow(g, n)
           P == [n \in Nat |-> G(n)[n]]
<1>1. \A n \in Nat : G(n) \in [0..n -> Nat \ {0}] /\ IsPow(G(n), n)
  BY PowExists
<1> HIDE DEF G
<1>2. \A n \in Nat : P[n] \in Nat \ {0}
  BY <1>1
<1>3. P[0] = 1
  BY <1>1 DEF IsPow
<1>4. ASSUME NEW n \in Nat
      PROVE  P[n + 1] = Base * P[n]
  <2>1. G(n + 1)[n + 1] = Base * G(n + 1)[n]
    BY <1>1 DEF IsPow
  <2>2. G(n)[n] = G(n + 1)[n]
    BY <1>1, PowUnique
  <2> QED
    BY <2>1, <2>2
<1>5. P = [k \in Nat |-> D(P, k)]
  <2>1. \A k \in Nat : P[k] = D(P, k)
    <3> TAKE k \in Nat
    <3>1. CASE k = 0
      BY <1>3, <3>1
    <3>2. CASE k # 0
      <4>1. k - 1 \in Nat /\ (k - 1) + 1 = k
        BY <3>2
      <4>2. P[k] = Base * P[k - 1]
        BY <1>4, <4>1
      <4> QED
        BY <3>2, <4>2
    <3> QED
      BY <3>1, <3>2
  <2> HIDE DEF D
  <2> QED
    BY <2>1
<1>6. Eq(P)
  BY <1>5
<1>7. Pow = CHOOSE f : Eq(f)
  BY DEF Pow
<1>8. Eq(Pow)
  <2> HIDE DEF Eq
  <2> QED
    BY <1>6, <1>7
<1>9. \A k \in Nat : Pow[k] = D(Pow, k)
  <2> HIDE DEF D
  <2> QED
    BY <1>8
<1> DEFINE N == {k \in Nat : Pow[k] = P[k]}
<1>10. 0 \in N
  BY <1>3, <1>9
<1>11. ASSUME NEW n \in Nat, n \in N
       PROVE  n + 1 \in N
  <2>1. Pow[n + 1] = Base * Pow[n]
    BY <1>9
  <2> QED
    BY <1>4, <1>11, <2>1
<1>12. Nat \subseteq N
  <2> HIDE DEF N
  <2> QED
    BY <1>10, <1>11, SetInduction
<1>13. \A n \in Nat : Pow[n] = P[n]
  BY <1>12
<1> HIDE DEF P
<1> QED
  BY <1>2, <1>3, <1>4, <1>13

\* Dividing by the base once more.
LEMMA NextDigit ==
    ASSUME NEW b \in Nat, b > 0, NEW p \in Nat, p > 0, NEW n \in Nat
    PROVE  n \div p = b * (n \div (b * p)) + ((n \div p) % b)
<1> DEFINE q == n \div p
           r == n % p
           u == q \div b
           d == q % b
<1>1. q \in Nat /\ r \in Nat /\ r < p /\ n = p * q + r
  OBVIOUS
<1> HIDE DEF q, r
<1>2. u \in Nat /\ d \in Nat /\ d < b /\ q = b * u + d
  BY <1>1
<1> HIDE DEF u, d
<1>3. b * p \in Nat /\ b * p > 0
  OBVIOUS
<1>4. n = (b * p) * u + (p * d + r)
  BY <1>1, <1>2
<1>5. p * d + r \in Nat /\ p * d + r < b * p
  <2>1. d + 1 <= b
    BY <1>2
  <2>2. p * (d + 1) <= p * b
    BY <1>2, <2>1
  <2> QED
    BY <1>1, <1>2, <2>2
<1>6. \A m \in Nat, c \in Nat, v \in Nat, s \in Nat : c > 0 /\ s < c /\ m = c * v + s => m \div c = v
  OBVIOUS
<1>7. n \div (b * p) = u
  <2> DEFINE c == b * p
             s == p * d + r
  <2>1. c \in Nat /\ c > 0 /\ s \in Nat /\ s < c /\ n = c * u + s
    BY <1>3, <1>4, <1>5
  <2> HIDE DEF c, s
  <2>2. n \div c = u
    BY <1>2, <1>6, <2>1
  <2> QED
    BY <2>2 DEF c
<1>8. q = b * (n \div (b * p)) + d
  BY <1>2, <1>7
<1> QED
  BY <1>8 DEF q, d

\* The recursion of Value.
IsValue(bytes, v) ==
    v = [i \in 0..Len(bytes) |-> IF i = 0 THEN 0 ELSE Base * v[i - 1] + bytes[i]]

\* Value is the last value of the recursion.
LEMMA ValueDef ==
    ASSUME NEW bytes
    PROVE  Value(bytes) = (CHOOSE v : IsValue(bytes, v))[Len(bytes)]
  BY DEF Value, IsValue

\* The recursion has one solution.
LEMMA ValueUnique ==
    ASSUME NEW bytes, Len(bytes) \in Nat, NEW v, NEW w, IsValue(bytes, v), IsValue(bytes, w)
    PROVE  v[Len(bytes)] = w[Len(bytes)]
<1> DEFINE A(i) == IF i = 0 THEN 0 ELSE Base * v[i - 1] + bytes[i]
           B(i) == IF i = 0 THEN 0 ELSE Base * w[i - 1] + bytes[i]
           N == {k \in Nat : k <= Len(bytes) => v[k] = w[k]}
<1>1. v = [i \in 0..Len(bytes) |-> A(i)] /\ w = [i \in 0..Len(bytes) |-> B(i)]
  BY DEF IsValue
<1>2. \A i \in 0..Len(bytes) : v[i] = A(i) /\ w[i] = B(i)
  <2> HIDE DEF A, B
  <2> QED
    BY <1>1
<1>3. 0 \in N
  BY <1>2
<1>4. ASSUME NEW k \in Nat, k \in N
      PROVE  k + 1 \in N
  BY <1>2, <1>4
<1>5. Nat \subseteq N
  <2> HIDE DEF N
  <2> QED
    BY <1>3, <1>4, SetInduction
<1> QED
  BY <1>5

\* A number of w bytes is w bytes long.
LEMMA BigEndianType ==
    ASSUME NEW n \in Nat, NEW w \in Nat
    PROVE  /\ BigEndian(n, w) \in Seq(Byte)
           /\ Len(BigEndian(n, w)) = w
           /\ \A i \in 1..w : BigEndian(n, w)[i] = (n \div Pow[w - i]) % Base
<1>1. ASSUME NEW i \in 1..w
      PROVE  (n \div Pow[w - i]) % Base \in Byte
  <2>1. w - i \in Nat
    OBVIOUS
  <2>2. Pow[w - i] \in Nat /\ Pow[w - i] > 0
    BY <2>1, PowDef
  <2> DEFINE q == n \div Pow[w - i]
  <2>3. q \in Nat
    BY <2>2
  <2> HIDE DEF q
  <2>4. q % Base \in 0 .. Base - 1
    BY <2>3, CodecConsts
  <2> QED
    BY <2>4 DEF Byte, q
<1>2. BigEndian(n, w) \in [1..w -> Byte]
  BY <1>1 DEF BigEndian
<1> QED
  BY <1>2 DEF BigEndian

\* Reading back what was written: the first i bytes are worth the number
\* without the digits of the others.
LEMMA ValueOfBigEndian ==
    ASSUME NEW n \in Nat, NEW w \in Nat, n < Pow[w]
    PROVE  Value(BigEndian(n, w)) = n
<1> DEFINE bytes == BigEndian(n, w)
           v == [i \in 0..w |-> n \div Pow[w - i]]
           A(i) == IF i = 0 THEN 0 ELSE Base * v[i - 1] + bytes[i]
<1>1. Len(bytes) = w /\ \A i \in 1..w : bytes[i] = (n \div Pow[w - i]) % Base
  BY BigEndianType
<1> HIDE DEF bytes
<1>2. ASSUME NEW i \in 0..w
      PROVE  v[i] = A(i)
  <2>1. CASE i = 0
    <3>1. n \div Pow[w] = 0
      <4>1. Pow[w] \in Nat /\ Pow[w] > 0
        BY PowDef
      <4> QED
        BY <4>1
    <3> QED
      BY <2>1, <3>1
  <2>2. CASE i # 0
    <3> DEFINE p == Pow[w - i]
    <3>1. w - i \in Nat /\ (w - i) + 1 = w - (i - 1) /\ i - 1 \in 0..w
      BY <2>2
    <3>2. p \in Nat /\ p > 0 /\ Pow[w - (i - 1)] = Base * p
      BY <3>1, PowDef
    <3>3. n \div p = Base * (n \div (Base * p)) + ((n \div p) % Base)
      <4>1. Base \in Nat /\ Base > 0
        BY CodecConsts
      <4> HIDE DEF p
      <4> QED
        BY <3>2, <4>1, NextDigit, Zenon
    <3>4. v[i] = n \div p /\ v[i - 1] = n \div (Base * p) /\ bytes[i] = (n \div p) % Base
      BY <1>1, <2>2, <3>1, <3>2
    <3>5. /\ n \div p \in Nat /\ n \div (Base * p) \in Nat /\ (n \div p) % Base \in Nat
      <4>1. Base * p \in Nat /\ Base * p > 0
        BY <3>2, CodecConsts
      <4>2. n \div p \in Nat
        BY <3>2
      <4>3. n \div (Base * p) \in Nat
        BY <4>1
      <4> QED
        BY <4>2, <4>3, CodecConsts
    <3> HIDE DEF p, v
    <3> QED
      BY <2>2, <3>3, <3>4, <3>5, CodecConsts
  <2> QED
    BY <2>1, <2>2
<1>3. v = [i \in 0..w |-> A(i)]
  <2> HIDE DEF A
  <2> QED
    BY <1>2
<1>4. IsValue(bytes, v)
  BY <1>1, <1>3 DEF IsValue
<1> DEFINE C == CHOOSE u : IsValue(bytes, u)
<1> HIDE DEF v
<1>5. IsValue(bytes, C) /\ Value(bytes) = C[Len(bytes)]
  BY <1>4, ValueDef
<1> HIDE DEF C
<1>6. Value(bytes) = v[w]
  BY <1>1, <1>4, <1>5, ValueUnique
<1>7. v[w] = n
  <2>1. v[w] = n \div Pow[w - w] /\ w - w = 0 /\ Pow[0] = 1
    BY PowDef DEF v
  <2> QED
    BY <2>1
<1> QED
  BY <1>6, <1>7 DEF bytes

-----------------------------------------------------------------------------
(* Fields of a sequence. *)

\* A field is what stands there.
LEMMA FieldIs ==
    ASSUME NEW S, NEW data \in Seq(S), NEW x \in Seq(S), NEW off \in Nat,
           off + Len(x) <= Len(data), \A i \in 1..Len(x) : data[off + i] = x[i]
    PROVE  Field(data, off, Len(x)) = x
<1> DEFINE n == Len(x)
<1>1. n \in Nat /\ off + n <= Len(data) /\ \A i \in 1..n : data[off + i] = x[i]
  OBVIOUS
<1> HIDE DEF n
<1>2. /\ SubSeq(data, off + 1, off + n) \in Seq(S)
      /\ Len(SubSeq(data, off + 1, off + n)) = n
      /\ \A i \in 1..n : SubSeq(data, off + 1, off + n)[i] = data[off + i]
  BY <1>1, SMTT(30)
<1> QED
  BY <1>1, <1>2, SeqEqual DEF Field, n

\* The same for a number.
LEMMA NumberIs ==
    ASSUME NEW data \in Seq(Byte), NEW off \in Nat, NEW w \in Nat, NEW n \in Nat, n < Pow[w],
           off + w <= Len(data), \A i \in 1..w : data[off + i] = BigEndian(n, w)[i]
    PROVE  Number(data, off, w) = n
<1>1. BigEndian(n, w) \in Seq(Byte) /\ Len(BigEndian(n, w)) = w
  BY BigEndianType
<1>2. Field(data, off, w) = BigEndian(n, w)
  BY <1>1, FieldIs
<1> QED
  BY <1>2, ValueOfBigEndian DEF Number

\* A function on 1..n is a sequence.
LEMMA FunctionIsSeq ==
    ASSUME NEW S, NEW n \in Nat, NEW f \in [1..n -> S]
    PROVE  f \in Seq(S) /\ Len(f) = n
  OBVIOUS

\* The bytes of a concatenation.
LEMMA Concat ==
    ASSUME NEW S, NEW s \in Seq(S), NEW t \in Seq(S)
    PROVE  /\ s \o t \in Seq(S)
           /\ Len(s \o t) = Len(s) + Len(t)
           /\ \A i \in 1..Len(s) : (s \o t)[i] = s[i]
           /\ \A i \in 1..Len(t) : (s \o t)[Len(s) + i] = t[i]
  OBVIOUS

-----------------------------------------------------------------------------
(* The layout of a frame. *)

\* Where the fields stand in a marshalled frame, whose target has n bytes.
LenAt(n) == TargetAt + n

HasFields(raw, id, seq, flags, target, payload) ==
    /\ raw \in Seq(Byte) /\ Len(raw) = LenAt(Len(target)) + LenBytes + Len(payload)
    /\ \A i \in 1..IDLen : raw[i] = id[i]
    /\ \A i \in 1..SeqBytes : raw[IDLen + i] = BigEndian(seq, SeqBytes)[i]
    /\ raw[FlagsAt + 1] = flags
    /\ raw[FlagsAt + 2] = Len(target)
    /\ \A i \in 1..Len(target) : raw[TargetAt + i] = target[i]
    /\ \A i \in 1..LenBytes :
           raw[LenAt(Len(target)) + i] = BigEndian(Len(payload), LenBytes)[i]
    /\ \A i \in 1..Len(payload) : raw[LenAt(Len(target)) + LenBytes + i] = payload[i]

\* The fields of a frame that Marshal accepts.
AreFields(id, seq, flags, target, payload) ==
    /\ id \in Seq(Byte) /\ Len(id) = IDLen
    /\ seq \in Nat /\ seq < Pow[SeqBytes]
    /\ flags \in Byte
    /\ target \in Seq(Byte) /\ Len(target) <= MaxTargetLen
    /\ payload \in Seq(Byte) /\ Len(payload) <= MaxPayload

\* What the limits are worth.
LEMMA FieldSizes ==
    ASSUME NEW id, NEW seq, NEW flags, NEW target, NEW payload,
           AreFields(id, seq, flags, target, payload)
    PROVE  /\ Len(target) \in Nat /\ Len(payload) \in Nat
           /\ Len(target) \in Byte /\ Len(target) % Base = Len(target)
           /\ Len(payload) < Pow[LenBytes]
           /\ FlagsAt \in Nat /\ TargetAt \in Nat /\ TargetAt = FlagsAt + 2
           /\ LenAt(Len(target)) \in Nat /\ LenAt(Len(target)) = TargetAt + Len(target)
           /\ LenAt(Len(target)) + LenBytes + Len(payload) \in Nat
           /\ LenAt(Len(target)) + LenBytes + Len(payload) < Pow[LenBytes]
<1>1. Len(target) \in Nat /\ Len(payload) \in Nat
  BY DEF AreFields
<1>2. Len(target) <= MaxTargetLen /\ Len(payload) <= MaxPayload
  BY DEF AreFields
<1>3. Pow[LenBytes] \in Nat
  BY CodecConsts, PowDef
<1>4. IDLen + SeqBytes + 2 + MaxTargetLen + LenBytes + MaxPayload < Pow[LenBytes]
  BY LimitAssumption
<1>5. Len(target) \in 0 .. Base - 1
  BY <1>1, <1>2, CodecConsts
<1>6. \A t \in 0 .. Base - 1 : t % Base = t
  BY CodecConsts
<1>7. Len(target) \in Byte /\ Len(target) % Base = Len(target)
  BY <1>5, <1>6, Zenon DEF Byte
<1>8. /\ FlagsAt \in Nat /\ TargetAt \in Nat /\ TargetAt = FlagsAt + 2
      /\ LenAt(Len(target)) \in Nat /\ LenAt(Len(target)) = TargetAt + Len(target)
  BY <1>1, CodecConsts DEF LenAt, TargetAt, FlagsAt
<1>9. Len(payload) < Pow[LenBytes]
  BY <1>1, <1>2, <1>3, <1>4, CodecConsts
<1>10. /\ LenAt(Len(target)) + LenBytes + Len(payload) \in Nat
       /\ LenAt(Len(target)) + LenBytes + Len(payload) < Pow[LenBytes]
  BY <1>1, <1>2, <1>3, <1>4, CodecConsts DEF LenAt, TargetAt, FlagsAt
<1> QED
  BY <1>1, <1>7, <1>8, <1>9, <1>10

\* The bytes of Marshal: every field in its place.
LEMMA Layout ==
    ASSUME NEW id, NEW seq, NEW flags, NEW target, NEW payload,
           AreFields(id, seq, flags, target, payload)
    PROVE  HasFields(id \o BigEndian(seq, SeqBytes) \o <<flags>> \o <<Len(target) % Base>>
                     \o target \o BigEndian(Len(payload), LenBytes) \o payload,
                     id, seq, flags, target, payload)
<1> DEFINE sq == BigEndian(seq, SeqBytes)
           pl == BigEndian(Len(payload), LenBytes)
           lenAt == LenAt(Len(target))
           s1 == id \o sq
           s2 == s1 \o <<flags>>
           s3 == s2 \o <<Len(target) % Base>>
           s4 == s3 \o target
           s5 == s4 \o pl
           s6 == s5 \o payload
<1>2. /\ id \in Seq(Byte) /\ Len(id) = IDLen /\ seq \in Nat
      /\ flags \in Byte
      /\ target \in Seq(Byte) /\ Len(target) \in Nat
      /\ payload \in Seq(Byte) /\ Len(payload) \in Nat
  BY DEF AreFields
<1>3. sq \in Seq(Byte) /\ Len(sq) = SeqBytes /\ pl \in Seq(Byte) /\ Len(pl) = LenBytes
  BY <1>2, BigEndianType, CodecConsts
<1>4. Len(target) \in Byte /\ Len(target) % Base = Len(target)
  BY FieldSizes
<1>8. /\ FlagsAt \in Nat /\ TargetAt \in Nat /\ TargetAt = FlagsAt + 2
      /\ lenAt \in Nat /\ lenAt = TargetAt + Len(target)
  BY FieldSizes
<1> HIDE DEF sq, pl, lenAt
<1>5. /\ s1 \in Seq(Byte) /\ Len(s1) = FlagsAt
      /\ \A i \in 1..IDLen : s1[i] = id[i]
      /\ \A i \in 1..SeqBytes : s1[IDLen + i] = sq[i]
  <2>0. id \in Seq(Byte) /\ sq \in Seq(Byte)
    BY <1>2, <1>3
  <2>1. /\ id \o sq \in Seq(Byte)
        /\ Len(id \o sq) = Len(id) + Len(sq)
        /\ \A i \in 1..Len(id) : (id \o sq)[i] = id[i]
        /\ \A i \in 1..Len(sq) : (id \o sq)[Len(id) + i] = sq[i]
    BY <2>0, Concat
  <2> QED
    BY <1>2, <1>3, <2>1, Zenon DEF FlagsAt
<1> HIDE DEF s1
<1>6. /\ s2 \in Seq(Byte) /\ Len(s2) = FlagsAt + 1
      /\ \A i \in 1..FlagsAt : s2[i] = s1[i]
      /\ s2[FlagsAt + 1] = flags
  BY <1>2, <1>5, <1>8
<1> HIDE DEF s2
<1>7. /\ s3 \in Seq(Byte) /\ Len(s3) = TargetAt
      /\ \A i \in 1..FlagsAt + 1 : s3[i] = s2[i]
      /\ s3[FlagsAt + 2] = Len(target)
  <2> DEFINE t == Len(target) % Base
  <2>1. t \in Byte /\ t = Len(target)
    BY <1>4
  <2> HIDE DEF t
  <2>2. /\ s2 \o <<t>> \in Seq(Byte) /\ Len(s2 \o <<t>>) = Len(s2) + 1
        /\ \A i \in 1..Len(s2) : (s2 \o <<t>>)[i] = s2[i]
        /\ (s2 \o <<t>>)[Len(s2) + 1] = t
    BY <1>6, <2>1
  <2>3. (FlagsAt + 1) + 1 = FlagsAt + 2
    BY <1>8
  <2> QED
    BY <1>6, <1>8, <2>1, <2>2, <2>3, Zenon DEF t
<1> HIDE DEF s3
<1>9. /\ s4 \in Seq(Byte) /\ Len(s4) = lenAt
      /\ \A i \in 1..TargetAt : s4[i] = s3[i]
      /\ \A i \in 1..Len(target) : s4[TargetAt + i] = target[i]
  <2>0. s3 \in Seq(Byte) /\ target \in Seq(Byte)
    BY <1>2, <1>7
  <2>1. /\ s3 \o target \in Seq(Byte)
        /\ Len(s3 \o target) = Len(s3) + Len(target)
        /\ \A i \in 1..Len(s3) : (s3 \o target)[i] = s3[i]
        /\ \A i \in 1..Len(target) : (s3 \o target)[Len(s3) + i] = target[i]
    BY <2>0, Concat
  <2> QED
    BY <1>7, <1>8, <2>1, Zenon
<1> HIDE DEF s4
<1>10. /\ s5 \in Seq(Byte) /\ Len(s5) = lenAt + LenBytes
       /\ \A i \in 1..lenAt : s5[i] = s4[i]
       /\ \A i \in 1..LenBytes : s5[lenAt + i] = pl[i]
  <2>0. s4 \in Seq(Byte) /\ pl \in Seq(Byte)
    BY <1>3, <1>9
  <2>1. /\ s4 \o pl \in Seq(Byte)
        /\ Len(s4 \o pl) = Len(s4) + Len(pl)
        /\ \A i \in 1..Len(s4) : (s4 \o pl)[i] = s4[i]
        /\ \A i \in 1..Len(pl) : (s4 \o pl)[Len(s4) + i] = pl[i]
    BY <2>0, Concat
  <2> QED
    BY <1>3, <1>9, <2>1, Zenon
<1> HIDE DEF s5
<1>11. /\ s6 \in Seq(Byte) /\ Len(s6) = lenAt + LenBytes + Len(payload)
       /\ \A i \in 1..lenAt + LenBytes : s6[i] = s5[i]
       /\ \A i \in 1..Len(payload) : s6[lenAt + LenBytes + i] = payload[i]
  <2>0. s5 \in Seq(Byte) /\ payload \in Seq(Byte)
    BY <1>2, <1>10
  <2>1. /\ s5 \o payload \in Seq(Byte)
        /\ Len(s5 \o payload) = Len(s5) + Len(payload)
        /\ \A i \in 1..Len(s5) : (s5 \o payload)[i] = s5[i]
        /\ \A i \in 1..Len(payload) : (s5 \o payload)[Len(s5) + i] = payload[i]
    BY <2>0, Concat
  <2> QED
    BY <1>10, <2>1, Zenon
<1> HIDE DEF s6
<1>12. \A i \in 1..lenAt : s6[i] = s4[i]
  BY <1>8, <1>10, <1>11, CodecConsts
<1>13. \A i \in 1..TargetAt : s6[i] = s3[i]
  BY <1>2, <1>8, <1>9, <1>12
<1>14. \A i \in 1..FlagsAt : s6[i] = s1[i]
  BY <1>6, <1>7, <1>8, <1>13
<1>15. \A i \in 1..IDLen : s6[i] = id[i]
  BY <1>5, <1>14, CodecConsts DEF FlagsAt
<1>16. \A i \in 1..SeqBytes : s6[IDLen + i] = sq[i]
  BY <1>5, <1>14, CodecConsts DEF FlagsAt
<1>17. s6[FlagsAt + 1] = flags /\ s6[FlagsAt + 2] = Len(target)
  BY <1>6, <1>7, <1>8, <1>13
<1>18. \A i \in 1..Len(target) : s6[TargetAt + i] = target[i]
  <2>1. Len(target) \in Nat
    BY <1>2
  <2>2. \A i \in 1..Len(target) : TargetAt + i \in 1..lenAt
    BY <1>8, <2>1
  <2> QED
    BY <1>9, <1>12, <2>2
<1>19. \A i \in 1..LenBytes : s6[lenAt + i] = pl[i]
  <2>1. \A i \in 1..LenBytes : lenAt + i \in 1..lenAt + LenBytes
    BY <1>8, CodecConsts
  <2> QED
    BY <1>10, <1>11, <2>1, Zenon
<1>20. HasFields(s6, id, seq, flags, target, payload)
  BY <1>11, <1>15, <1>16, <1>17, <1>18, <1>19 DEF HasFields, sq, pl, lenAt
<1> QED
  BY <1>20 DEF s1, s2, s3, s4, s5, s6, sq, pl

\* Bytes that begin with those of a frame, or are the beginning of them.
Begins(data, raw) ==
    /\ data \in Seq(Byte)
    /\ \A i \in 1..Len(data) : i <= Len(raw) => data[i] = raw[i]

\* Unmarshal reads the fields when all of them are there, and refuses bytes
\* that end before.
LEMMA UnmarshalReads ==
    ASSUME NEW id, NEW seq, NEW flags, NEW target, NEW payload,
           AreFields(id, seq, flags, target, payload),
           NEW raw, HasFields(raw, id, seq, flags, target, payload),
           NEW data, Begins(data, raw)
    PROVE  Unmarshal(data) =
             IF Len(data) < Len(raw) THEN Failed
             ELSE [ok |-> TRUE, used |-> Len(raw),
                   frame |-> [id |-> id, seq |-> seq, flags |-> flags,
                              target |-> target, payload |-> payload]]
<1> DEFINE tlen == data[FlagsAt + 2]
           lenAt == TargetAt + tlen
           plen == PayloadLen(data, lenAt)
           end == lenAt + LenBytes + plen
           fr == [id |-> Field(data, 0, IDLen), seq |-> Number(data, IDLen, SeqBytes),
                  flags |-> data[FlagsAt + 1], target |-> Field(data, TargetAt, tlen),
                  payload |-> Field(data, lenAt + LenBytes, plen)]
           la == LenAt(Len(target))
<1>1. Unmarshal(data) = IF \/ Len(data) < TargetAt + LenBytes \/ Len(data) < lenAt + LenBytes
                           \/ plen > MaxPayload \/ Len(data) < end
                        THEN Failed ELSE [ok |-> TRUE, used |-> end, frame |-> fr]
  BY DEF Unmarshal
<1>2. data \in Seq(Byte) /\ \A i \in 1..Len(data) : i <= Len(raw) => data[i] = raw[i]
  BY DEF Begins
<1>3. /\ target \in Seq(Byte) /\ payload \in Seq(Byte)
      /\ id \in Seq(Byte) /\ Len(id) = IDLen
  BY DEF AreFields
<1>4. /\ Len(data) \in Nat /\ Len(target) \in Nat /\ Len(payload) \in Nat
      /\ FlagsAt \in Nat /\ TargetAt \in Nat /\ TargetAt = FlagsAt + 2
      /\ la \in Nat /\ la = TargetAt + Len(target)
  BY <1>2, FieldSizes
<1>5. FlagsAt = IDLen + SeqBytes /\ Len(raw) = la + LenBytes + Len(payload) /\ Len(raw) \in Nat
  BY FieldSizes DEF HasFields, FlagsAt
<1>8. seq \in Nat /\ seq < Pow[SeqBytes] /\ Len(payload) < Pow[LenBytes]
  BY FieldSizes DEF AreFields
<1>9. Len(payload) <= MaxPayload
  BY DEF AreFields
<1>0. /\ \A i \in 1..IDLen : raw[i] = id[i]
      /\ \A i \in 1..SeqBytes : raw[IDLen + i] = BigEndian(seq, SeqBytes)[i]
      /\ raw[FlagsAt + 1] = flags /\ raw[FlagsAt + 2] = Len(target)
      /\ \A i \in 1..Len(target) : raw[TargetAt + i] = target[i]
      /\ \A i \in 1..LenBytes : raw[la + i] = BigEndian(Len(payload), LenBytes)[i]
      /\ \A i \in 1..Len(payload) : raw[la + LenBytes + i] = payload[i]
  BY DEF HasFields
<1> HIDE DEF tlen, fr, la
<1>6. CASE Len(data) < TargetAt + LenBytes
  <2>1. Unmarshal(data) = Failed
    BY <1>1, <1>6
  <2>2. Len(data) < Len(raw)
    BY <1>4, <1>5, <1>6, CodecConsts
  <2> QED
    BY <2>1, <2>2
<1>7. CASE ~(Len(data) < TargetAt + LenBytes)
  <2>1. tlen = Len(target) /\ lenAt = la
    <3>1. FlagsAt + 2 \in 1..Len(data) /\ FlagsAt + 2 <= Len(raw)
      BY <1>4, <1>5, <1>7, CodecConsts
    <3>2. data[FlagsAt + 2] = Len(target)
      BY <1>0, <1>2, <3>1
    <3> QED
      BY <1>4, <3>2 DEF tlen
  <2> HIDE DEF lenAt
  <2>2. CASE Len(data) < la + LenBytes
    <3>1. Unmarshal(data) = Failed
      BY <1>1, <2>1, <2>2
    <3>2. Len(data) < Len(raw)
      BY <1>4, <1>5, <2>2, CodecConsts
    <3> QED
      BY <3>1, <3>2
  <2>3. CASE ~(Len(data) < la + LenBytes)
    <3>1. \A i \in 1..LenBytes : la + i \in 1..Len(data) /\ la + i <= Len(raw)
      BY <1>4, <1>5, <2>3, CodecConsts
    <3>2. \A i \in 1..LenBytes : data[la + i] = BigEndian(Len(payload), LenBytes)[i]
      BY <1>0, <1>2, <3>1
    <3>3. la + LenBytes <= Len(data)
      BY <1>4, <2>3, CodecConsts
    <3>4. plen = Len(payload)
      BY <1>2, <1>4, <1>8, <2>1, <3>2, <3>3, NumberIs, CodecConsts DEF PayloadLen
    <3> HIDE DEF plen
    <3>5. end = Len(raw)
      BY <1>5, <2>1, <3>4
    <3> HIDE DEF end
    <3>6. CASE Len(data) < Len(raw)
      BY <1>1, <3>5, <3>6
    <3>7. CASE ~(Len(data) < Len(raw))
      <4>0. \A i \in 1..Len(raw) : data[i] = raw[i]
        BY <1>2, <1>4, <1>5, <3>7
      <4>1. Field(data, 0, IDLen) = id
        <5>0. \A i \in 1..IDLen : 0 + i = i /\ i \in 1..Len(raw)
          BY <1>4, <1>5, CodecConsts
        <5>1. \A i \in 1..IDLen : data[0 + i] = id[i]
          BY <1>0, <4>0, <5>0, Zenon
        <5>2. 0 + IDLen <= Len(data)
          BY <1>4, <1>5, <3>7, CodecConsts
        <5>3. Field(data, 0, Len(id)) = id
          BY <1>2, <1>3, <5>1, <5>2, FieldIs
        <5> QED
          BY <1>3, <5>3
      <4>2. Number(data, IDLen, SeqBytes) = seq
        <5>1. \A i \in 1..SeqBytes : data[IDLen + i] = BigEndian(seq, SeqBytes)[i]
          BY <1>0, <1>4, <1>5, <4>0, CodecConsts
        <5>2. IDLen + SeqBytes <= Len(data)
          BY <1>4, <1>5, <3>7, CodecConsts
        <5> QED
          BY <1>2, <1>3, <1>8, <5>1, <5>2, NumberIs, CodecConsts
      <4>3. data[FlagsAt + 1] = flags
        BY <1>0, <1>4, <1>5, <4>0, CodecConsts
      <4>4. Field(data, TargetAt, tlen) = target
        <5>0. \A i \in 1..Len(target) : TargetAt + i \in 1..Len(raw)
          BY <1>4, <1>5, CodecConsts
        <5>1. \A i \in 1..Len(target) : data[TargetAt + i] = target[i]
          BY <1>0, <4>0, <5>0
        <5>2. TargetAt + Len(target) <= Len(data)
          BY <1>4, <1>5, <3>7, CodecConsts
        <5>3. Field(data, TargetAt, Len(target)) = target
          BY <1>2, <1>3, <1>4, <5>1, <5>2, FieldIs, Zenon
        <5> QED
          BY <2>1, <5>3
      <4>5. Field(data, lenAt + LenBytes, plen) = payload
        <5>1. \A i \in 1..Len(payload) : data[la + LenBytes + i] = payload[i]
          BY <1>0, <1>4, <1>5, <4>0, CodecConsts
        <5>2. la + LenBytes + Len(payload) <= Len(data)
          BY <1>4, <1>5, <3>7, CodecConsts
        <5>3. la + LenBytes \in Nat
          BY <1>4, CodecConsts
        <5>4. Field(data, la + LenBytes, Len(payload)) = payload
          BY <1>2, <1>3, <1>4, <5>1, <5>2, <5>3, FieldIs, Zenon
        <5> QED
          BY <2>1, <3>4, <5>4
      <4>6. fr = [id |-> id, seq |-> seq, flags |-> flags, target |-> target, payload |-> payload]
        BY <4>1, <4>2, <4>3, <4>4, <4>5 DEF fr
      <4>7. Unmarshal(data) = [ok |-> TRUE, used |-> end, frame |-> fr]
        <5>1. ~(Len(payload) > MaxPayload)
          BY <1>4, <1>9, CodecConsts
        <5> QED
          BY <1>1, <1>7, <2>1, <2>3, <3>4, <3>5, <3>7, <5>1, Zenon
      <4> QED
        BY <3>5, <3>7, <4>6, <4>7
    <3> QED
      BY <3>6, <3>7
  <2> QED
    BY <2>2, <2>3
<1> QED
  BY <1>6, <1>7

\* A frame is its fields, and Marshal takes it when they are within the limits.
LEMMA FrameIsFields ==
    ASSUME NEW f \in Frame
    PROVE  /\ f = [id |-> f.id, seq |-> f.seq, flags |-> f.flags,
                   target |-> f.target, payload |-> f.payload]
           /\ Fits(f) => AreFields(f.id, f.seq, f.flags, f.target, f.payload)
<1>1. /\ f.id \in [1..IDLen -> Byte] /\ f.seq \in 0 .. Pow[SeqBytes] - 1 /\ f.flags \in Byte
      /\ f.target \in Seq(Byte) /\ f.payload \in Seq(Byte)
  BY DEF Frame
<1>2. f.seq \in Nat /\ f.seq < Pow[SeqBytes]
  <2>1. Pow[SeqBytes] \in Nat
    BY CodecConsts, PowDef
  <2> QED
    BY <1>1, <2>1
<1>3. f.id \in Seq(Byte) /\ Len(f.id) = IDLen
  BY <1>1, FunctionIsSeq, CodecConsts
<1>4. f = [id |-> f.id, seq |-> f.seq, flags |-> f.flags, target |-> f.target, payload |-> f.payload]
  BY DEF Frame
<1> QED
  BY <1>1, <1>2, <1>3, <1>4, Zenon DEF Fits, AreFields

\* What Marshal returns.
LEMMA MarshalIs ==
    ASSUME NEW f \in Frame
    PROVE  /\ Marshal(f).ok <=> Fits(f)
           /\ Fits(f) => /\ Marshal(f).raw \in Seq(Byte)
                         /\ Len(Marshal(f).raw) \in Nat /\ Len(Marshal(f).raw) < Pow[LenBytes]
                         /\ HasFields(Marshal(f).raw, f.id, f.seq, f.flags, f.target, f.payload)
<1>1. CASE ~Fits(f)
  <2>1. Marshal(f) = Failed
    BY <1>1 DEF Marshal
  <2> QED
    BY <1>1, <2>1 DEF Failed
<1>2. CASE Fits(f)
  <2> DEFINE raw == f.id \o BigEndian(f.seq, SeqBytes) \o <<f.flags>> \o <<Len(f.target) % Base>>
                    \o f.target \o BigEndian(Len(f.payload), LenBytes) \o f.payload
  <2>1. Marshal(f) = [ok |-> TRUE, raw |-> raw]
    BY <1>2 DEF Marshal
  <2>2. AreFields(f.id, f.seq, f.flags, f.target, f.payload)
    BY <1>2, FrameIsFields
  <2>3. HasFields(raw, f.id, f.seq, f.flags, f.target, f.payload)
    BY <2>2, Layout
  <2> HIDE DEF raw
  <2>4. raw \in Seq(Byte) /\ Len(raw) = LenAt(Len(f.target)) + LenBytes + Len(f.payload)
    BY <2>3, Zenon DEF HasFields
  <2>5. /\ LenAt(Len(f.target)) + LenBytes + Len(f.payload) \in Nat
        /\ LenAt(Len(f.target)) + LenBytes + Len(f.payload) < Pow[LenBytes]
    BY <2>2, FieldSizes, Zenon
  <2>6. Len(raw) \in Nat /\ Len(raw) < Pow[LenBytes]
    BY <2>4, <2>5, Zenon
  <2>7. Marshal(f).ok = TRUE /\ Marshal(f).raw = raw
    BY <2>1
  <2> QED
    BY <1>2, <2>3, <2>4, <2>6, <2>7, Zenon
<1> QED
  BY <1>1, <1>2

\* Unmarshal inverts it, and needs all of it.
LEMMA UnmarshalInverts ==
    ASSUME NEW f \in Frame, Fits(f), NEW data, Begins(data, Marshal(f).raw)
    PROVE  Unmarshal(data) = IF Len(data) < Len(Marshal(f).raw) THEN Failed
                             ELSE [ok |-> TRUE, used |-> Len(Marshal(f).raw), frame |-> f]
<1> DEFINE raw == Marshal(f).raw
<1>1. HasFields(raw, f.id, f.seq, f.flags, f.target, f.payload)
  BY MarshalIs
<1>2. AreFields(f.id, f.seq, f.flags, f.target, f.payload)
  BY FrameIsFields
<1>3. Begins(data, raw)
  OBVIOUS
<1> HIDE DEF raw
<1> DEFINE g == [id |-> f.id, seq |-> f.seq, flags |-> f.flags,
                 target |-> f.target, payload |-> f.payload]
<1>4. Unmarshal(data) = IF Len(data) < Len(raw) THEN Failed
                        ELSE [ok |-> TRUE, used |-> Len(raw), frame |-> g]
  BY <1>1, <1>2, <1>3, UnmarshalReads
<1>5. f = g
  BY FrameIsFields, Zenon
<1> HIDE DEF g
<1> QED
  BY <1>4, <1>5 DEF raw

\* A frame tells where it ends, for every frame there is: whatever follows it,
\* it is read back and nothing else is consumed, and bytes that end before it
\* does are refused.
THEOREM EveryFrameDelimited ==
    \A f \in Frame : SelfDelimiting(f)
<1> SUFFICES ASSUME NEW f \in Frame PROVE SelfDelimiting(f)
  OBVIOUS
<1> DEFINE raw == Marshal(f).raw
           more == raw \o <<0, Base - 1>>
<1>1. Marshal(f).ok <=> Fits(f)
  BY MarshalIs
<1>2. ASSUME Fits(f)
      PROVE  /\ Unmarshal(more) = [ok |-> TRUE, used |-> Len(raw), frame |-> f]
             /\ \A n \in 0 .. Len(raw) - 1 : Unmarshal(SubSeq(raw, 1, n)) = Failed
  <2>1. raw \in Seq(Byte) /\ Len(raw) \in Nat
    BY <1>2, MarshalIs
  <2>2. ASSUME NEW data, Begins(data, raw)
        PROVE  Unmarshal(data) = IF Len(data) < Len(raw) THEN Failed
                                 ELSE [ok |-> TRUE, used |-> Len(raw), frame |-> f]
    BY <1>2, <2>2, UnmarshalInverts
  <2> HIDE DEF raw
  <2>3. Begins(more, raw) /\ Len(more) = Len(raw) + 2
    <3>1. 0 \in Byte /\ Base - 1 \in Byte
      BY CodecConsts DEF Byte
    <3>2. <<0, Base - 1>> \in Seq(Byte) /\ Len(<<0, Base - 1>>) = 2
      BY <3>1
    <3>3. more \in Seq(Byte) /\ Len(more) = Len(raw) + 2 /\ \A i \in 1..Len(raw) : more[i] = raw[i]
      <4> DEFINE t == <<0, Base - 1>>
      <4> HIDE DEF t
      <4>1. raw \o t \in Seq(Byte) /\ Len(raw \o t) = Len(raw) + Len(t) /\ \A i \in 1..Len(raw) : (raw \o t)[i] = raw[i]
        BY <2>1, <3>2, Concat DEF t
      <4> QED
        BY <3>2, <4>1 DEF t
    <3> HIDE DEF more
    <3> QED
      BY <2>1, <3>3 DEF Begins
  <2>4. ASSUME NEW n \in 0 .. Len(raw) - 1
        PROVE  Begins(SubSeq(raw, 1, n), raw) /\ Len(SubSeq(raw, 1, n)) = n /\ n < Len(raw)
    <3>1. SubSeq(raw, 1, n) \in Seq(Byte) /\ Len(SubSeq(raw, 1, n)) = n
      BY <2>1
    <3>2. \A i \in 1..n : SubSeq(raw, 1, n)[i] = raw[i]
      BY <2>1
    <3> QED
      BY <2>1, <3>1, <3>2 DEF Begins
  <2> HIDE DEF more
  <2>5. Unmarshal(more) = [ok |-> TRUE, used |-> Len(raw), frame |-> f]
    <3>1. ~(Len(more) < Len(raw))
      BY <2>1, <2>3
    <3> QED
      BY <2>2, <2>3, <3>1
  <2>6. ASSUME NEW n \in 0 .. Len(raw) - 1
        PROVE  Unmarshal(SubSeq(raw, 1, n)) = Failed
    <3> DEFINE cut == SubSeq(raw, 1, n)
    <3>1. Begins(cut, raw) /\ Len(cut) < Len(raw)
      BY <2>4
    <3> HIDE DEF cut
    <3>2. Unmarshal(cut) = Failed
      BY <2>2, <3>1
    <3> QED
      BY <3>2 DEF cut
  <2> QED
    BY <2>5, <2>6
<1> QED
  BY <1>1, <1>2 DEF SelfDelimiting

-----------------------------------------------------------------------------
(* The pieces of a plain text. *)

\* The recursion of FlattenSeq.
IsFlatten(s, F) ==
    F = [i \in 1..Len(s) |-> IF i = 1 THEN s[i] ELSE F[i - 1] \o s[i]]

\* FlattenSeq is the last value of the recursion.
LEMMA FlattenDef ==
    ASSUME NEW s, Len(s) # 0
    PROVE  FlattenSeq(s) = (CHOOSE F : IsFlatten(s, F))[Len(s)]
  BY DEF FlattenSeq, IsFlatten

\* The recursion has one solution.
LEMMA FlattenUnique ==
    ASSUME NEW s, Len(s) \in Nat, NEW F, NEW G, IsFlatten(s, F), IsFlatten(s, G)
    PROVE  \A i \in 1..Len(s) : F[i] = G[i]
<1> DEFINE A(i) == IF i = 1 THEN s[i] ELSE F[i - 1] \o s[i]
           B(i) == IF i = 1 THEN s[i] ELSE G[i - 1] \o s[i]
           N == {n \in Nat : n \in 1..Len(s) => F[n] = G[n]}
<1>1. F = [i \in 1..Len(s) |-> A(i)] /\ G = [i \in 1..Len(s) |-> B(i)]
  BY DEF IsFlatten
<1>2. \A i \in 1..Len(s) : F[i] = A(i) /\ G[i] = B(i)
  <2> HIDE DEF A, B
  <2> QED
    BY <1>1
<1>3. 0 \in N
  OBVIOUS
<1>4. ASSUME NEW n \in Nat, n \in N
      PROVE  n + 1 \in N
  <2> SUFFICES ASSUME n + 1 \in 1..Len(s) PROVE F[n + 1] = G[n + 1]
    OBVIOUS
  <2>1. CASE n = 0
    BY <1>2, <2>1
  <2>2. CASE n # 0
    <3>1. n \in 1..Len(s) /\ n + 1 # 1 /\ (n + 1) - 1 = n
      BY <2>2
    <3>2. F[n] = G[n]
      BY <1>4, <3>1
    <3> QED
      BY <1>2, <3>1, <3>2
  <2> QED
    BY <2>1, <2>2
<1>5. Nat \subseteq N
  <2> HIDE DEF N
  <2> QED
    BY <1>3, <1>4, SetInduction
<1> QED
  BY <1>5

\* F solves the recursion up to m, and the piece j begins behind O[j - 1].
Strings(P, m, F, O) ==
    /\ F \in [1..m -> Seq(Byte)] /\ O \in [0..m -> Nat]
    /\ O[0] = 0
    /\ \A i \in 1..m : F[i] = IF i = 1 THEN P[i] ELSE F[i - 1] \o P[i]
    /\ \A i \in 1..m : O[i] = O[i - 1] + Len(P[i])
    /\ \A i \in 1..m : Len(F[i]) = O[i]
    /\ \A i \in 0..m : O[i] <= O[m]
    /\ m > 0 => \A j \in 1..m : \A k \in 1..Len(P[j]) : F[m][O[j - 1] + k] = P[j][k]

\* One piece more.
LEMMA StringsStep ==
    ASSUME NEW P \in Seq(Seq(Byte)), NEW m \in Nat, m + 1 <= Len(P),
           NEW F, NEW O, Strings(P, m, F, O)
    PROVE  \E G, Q : Strings(P, m + 1, G, Q)
<1> DEFINE p == P[m + 1]
           new == IF m = 0 THEN p ELSE F[m] \o p
           G == [i \in 1..m + 1 |-> IF i = m + 1 THEN new ELSE F[i]]
           Q == [i \in 0..m + 1 |-> IF i = m + 1 THEN O[m] + Len(p) ELSE O[i]]
<1>1. p \in Seq(Byte) /\ Len(p) \in Nat
  OBVIOUS
<1>2. /\ F \in [1..m -> Seq(Byte)] /\ O \in [0..m -> Nat] /\ O[0] = 0
      /\ \A i \in 1..m : F[i] = IF i = 1 THEN P[i] ELSE F[i - 1] \o P[i]
      /\ \A i \in 1..m : O[i] = O[i - 1] + Len(P[i])
      /\ \A i \in 1..m : Len(F[i]) = O[i]
      /\ \A i \in 0..m : O[i] <= O[m]
  BY DEF Strings
<1>3. m > 0 => \A j \in 1..m : \A k \in 1..Len(P[j]) : F[m][O[j - 1] + k] = P[j][k]
  BY DEF Strings
<1>4. /\ new \in Seq(Byte) /\ Len(new) = O[m] + Len(p)
      /\ \A k \in 1..Len(p) : new[O[m] + k] = p[k]
      /\ m > 0 => \A k \in 1..O[m] : new[k] = F[m][k]
  <2>1. CASE m = 0
    <3>1. O[m] = 0 /\ new = p
      BY <1>2, <2>1
    <3> HIDE DEF new, p
    <3> QED
      BY <1>1, <2>1, <3>1
  <2>2. CASE m # 0
    <3> DEFINE s == F[m]
    <3>0. m \in 1..m
      BY <2>2
    <3>1. s \in Seq(Byte) /\ p \in Seq(Byte)
      BY <1>1, <1>2, <3>0
    <3>3. Len(s) = O[m] /\ new = s \o p
      BY <1>2, <2>2, <3>0, Zenon
    <3> HIDE DEF new, p, s
    <3>2. /\ s \o p \in Seq(Byte) /\ Len(s \o p) = Len(s) + Len(p)
          /\ \A i \in 1..Len(s) : (s \o p)[i] = s[i]
          /\ \A i \in 1..Len(p) : (s \o p)[Len(s) + i] = p[i]
      BY <3>1, Concat
    <3> QED
      BY <3>2, <3>3, Zenon DEF s
  <2> QED
    BY <2>1, <2>2
<1>5. O[m] \in Nat
  BY <1>2
<1> HIDE DEF new
<1>6. G \in [1..m + 1 -> Seq(Byte)]
  BY <1>2, <1>4
<1>7. Q \in [0..m + 1 -> Nat] /\ Q[0] = 0
  BY <1>1, <1>2, <1>5
<1>8. /\ G[m + 1] = new /\ \A i \in 1..m : G[i] = F[i]
      /\ Q[m + 1] = O[m] + Len(p) /\ \A i \in 0..m : Q[i] = O[i]
  OBVIOUS
<1> HIDE DEF G, Q
<1>9. ASSUME NEW i \in 1..m + 1
      PROVE  /\ G[i] = IF i = 1 THEN P[i] ELSE G[i - 1] \o P[i]
             /\ Q[i] = Q[i - 1] + Len(P[i])
             /\ Len(G[i]) = Q[i]
  <2>1. CASE i = m + 1
    <3>1. Q[i - 1] = O[m] /\ (m # 0 => G[i - 1] = F[m])
      BY <1>8, <2>1
    <3>2. new = IF i = 1 THEN p ELSE F[m] \o p
      BY <2>1 DEF new
    <3>3. G[i] = new /\ Q[i] = O[m] + Len(p) /\ P[i] = p /\ (i # 1 => m # 0)
      BY <1>8, <2>1
    <3> HIDE DEF p
    <3> QED
      BY <1>4, <3>1, <3>2, <3>3, Zenon
  <2>2. CASE i # m + 1
    <3>1. i \in 1..m /\ i - 1 \in 0..m /\ (i # 1 => i - 1 \in 1..m)
      BY <2>2
    <3>2. F[i] = (IF i = 1 THEN P[i] ELSE F[i - 1] \o P[i]) /\ O[i] = O[i - 1] + Len(P[i]) /\ Len(F[i]) = O[i]
      BY <1>2, <3>1
    <3>3. G[i] = F[i] /\ Q[i] = O[i] /\ Q[i - 1] = O[i - 1] /\ (i # 1 => G[i - 1] = F[i - 1])
      BY <1>8, <3>1
    <3> QED
      BY <3>2, <3>3, Zenon
  <2> QED
    BY <2>1, <2>2
<1>10. \A i \in 0..m + 1 : Q[i] <= Q[m + 1]
  <2> HIDE DEF p
  <2>1. O[m] + Len(p) \in Nat /\ O[m] <= O[m] + Len(p)
    BY <1>1, <1>5
  <2>2. \A i \in 0..m : O[i] \in Nat /\ O[i] <= O[m]
    BY <1>2
  <2> DEFINE a == O[m]
             b == O[m] + Len(p)
  <2>3. a \in Nat /\ b \in Nat /\ a <= b /\ Q[m + 1] = b
    BY <1>5, <1>8, <2>1
  <2>4. \A i \in 0..m : Q[i] \in Nat /\ Q[i] <= a
    BY <1>8, <2>2
  <2> HIDE DEF a, b
  <2> QED
    BY <2>3, <2>4
<1>11. ASSUME NEW j \in 1..m + 1, NEW k \in 1..Len(P[j])
       PROVE  G[m + 1][Q[j - 1] + k] = P[j][k]
  <2>1. CASE j = m + 1
    <3>1. Q[j - 1] = O[m] /\ k \in 1..Len(p) /\ P[j] = p
      BY <1>8, <2>1
    <3> QED
      BY <1>4, <1>8, <3>1
  <2>2. CASE j # m + 1
    <3>1. j \in 1..m /\ m > 0 /\ j - 1 \in 0..m
      BY <2>2
    <3>2. Q[j - 1] = O[j - 1] /\ F[m][O[j - 1] + k] = P[j][k]
      BY <1>3, <1>8, <3>1
    <3>3. O[j - 1] + k \in 1..O[m]
      <4>0. j \in 0..m /\ j \in 1..Len(P)
        BY <3>1
      <4>1. O[j] = O[j - 1] + Len(P[j]) /\ O[j] <= O[m] /\ O[j] \in Nat /\ O[j - 1] \in Nat /\ Len(P[j]) \in Nat
        <5>1. O[j] = O[j - 1] + Len(P[j]) /\ O[j] <= O[m]
          BY <1>2, <3>1, <4>0, Zenon
        <5>2. O[j] \in Nat /\ O[j - 1] \in Nat
          BY <1>2, <3>1, <4>0, Zenon
        <5>3. Len(P[j]) \in Nat
          BY <4>0
        <5> QED
          BY <5>1, <5>2, <5>3, Zenon
      <4> DEFINE l == Len(P[j])
                 a == O[j - 1]
                 b == O[m]
      <4>2. k \in 1..l /\ a + l <= b /\ l \in Nat /\ a \in Nat /\ b \in Nat
        BY <1>5, <4>1
      <4> HIDE DEF l, a, b
      <4>3. a + k \in 1..b
        BY <4>2
      <4> QED
        BY <4>3 DEF a, b
    <3>4. new[O[j - 1] + k] = F[m][O[j - 1] + k]
      <4>1. \A i \in 1..O[m] : new[i] = F[m][i]
        BY <1>4, <3>1
      <4> QED
        BY <3>3, <4>1, Zenon
    <3>5. G[m + 1] = new /\ Q[j - 1] = O[j - 1] /\ F[m][O[j - 1] + k] = P[j][k]
      BY <1>8, <3>2, Zenon
    <3> QED
      BY <3>4, <3>5, Zenon
  <2> QED
    BY <2>1, <2>2
<1>12. Strings(P, m + 1, G, Q)
  BY <1>6, <1>7, <1>9, <1>10, <1>11 DEF Strings
<1> QED
  BY <1>12

\* The pieces of FlattenSeq stand one behind the other.
LEMMA FlattenPieces ==
    ASSUME NEW P \in Seq(Seq(Byte))
    PROVE  \E O \in [0..Len(P) -> Nat] :
              /\ O[0] = 0
              /\ FlattenSeq(P) \in Seq(Byte) /\ Len(FlattenSeq(P)) = O[Len(P)]
              /\ \A i \in 1..Len(P) :
                    /\ O[i] = O[i - 1] + Len(P[i]) /\ O[i] <= O[Len(P)]
                    /\ \A k \in 1..Len(P[i]) : FlattenSeq(P)[O[i - 1] + k] = P[i][k]
<1> DEFINE N == {m \in Nat : m <= Len(P) => \E F, O : Strings(P, m, F, O)}
           n == Len(P)
<1>0. n \in Nat
  OBVIOUS
<1>1. 0 \in N
  <2> DEFINE F == [i \in 1..0 |-> <<>>]
             O == [i \in 0..0 |-> 0]
  <2>1. Strings(P, 0, F, O)
    BY DEF Strings
  <2> HIDE DEF F, O
  <2> QED
    BY <2>1
<1>2. ASSUME NEW m \in Nat, m \in N
      PROVE  m + 1 \in N
  <2> SUFFICES ASSUME m + 1 <= Len(P) PROVE \E F, O : Strings(P, m + 1, F, O)
    OBVIOUS
  <2>1. m <= Len(P)
    BY <1>0
  <2>2. PICK F, O : Strings(P, m, F, O)
    BY <1>2, <2>1
  <2> QED
    BY <2>2, StringsStep
<1>3. Nat \subseteq N
  <2> HIDE DEF N
  <2> QED
    BY <1>1, <1>2, SetInduction
<1>4. PICK F, O : Strings(P, n, F, O)
  BY <1>0, <1>3
<1>5. CASE n = 0
  <2>1. P = <<>> /\ FlattenSeq(P) = P
    BY <1>5 DEF FlattenSeq
  <2>2. O \in [0..n -> Nat] /\ O[0] = 0
    BY <1>4 DEF Strings
  <2>3. <<>> \in Seq(Byte) /\ Len(<<>>) = 0
    OBVIOUS
  <2> QED
    BY <1>5, <2>1, <2>2, <2>3
<1>6. CASE n # 0
  <2>1. IsFlatten(P, F)
    <3> DEFINE A(i) == IF i = 1 THEN P[i] ELSE F[i - 1] \o P[i]
    <3>1. F \in [1..n -> Seq(Byte)] /\ \A i \in 1..n : F[i] = A(i)
      BY <1>4 DEF Strings
    <3> HIDE DEF A
    <3>2. F = [i \in 1..n |-> A(i)]
      BY <3>1
    <3> QED
      BY <3>2 DEF IsFlatten, A
  <2> DEFINE C == CHOOSE H : IsFlatten(P, H)
  <2>2. IsFlatten(P, C)
    BY <2>1
  <2>3. FlattenSeq(P) = C[n]
    BY <1>6, FlattenDef
  <2> HIDE DEF C
  <2>4. C[n] = F[n]
    BY <1>0, <1>6, <2>1, <2>2, FlattenUnique
  <2>5. FlattenSeq(P) = F[n]
    BY <2>3, <2>4
  <2>6. /\ O \in [0..n -> Nat] /\ O[0] = 0
        /\ F[n] \in Seq(Byte) /\ Len(F[n]) = O[n]
        /\ \A i \in 1..n : O[i] = O[i - 1] + Len(P[i]) /\ O[i] <= O[n]
        /\ \A i \in 1..n : \A k \in 1..Len(P[i]) : F[n][O[i - 1] + k] = P[i][k]
    <3>1. n > 0 /\ n \in 1..n /\ \A i \in 1..n : i \in 0..n
      BY <1>0, <1>6
    <3>2. /\ O \in [0..n -> Nat] /\ O[0] = 0 /\ F \in [1..n -> Seq(Byte)]
          /\ \A i \in 1..n : O[i] = O[i - 1] + Len(P[i])
          /\ \A i \in 1..n : Len(F[i]) = O[i]
          /\ \A i \in 0..n : O[i] <= O[n]
          /\ n > 0 => \A i \in 1..n : \A k \in 1..Len(P[i]) : F[n][O[i - 1] + k] = P[i][k]
      BY <1>4, Zenon DEF Strings
    <3>3. F[n] \in Seq(Byte)
      BY <3>1, <3>2
    <3> QED
      BY <3>1, <3>2, <3>3, Zenon
  <2> QED
    BY <2>5, <2>6
<1> QED
  BY <1>5, <1>6

-----------------------------------------------------------------------------
(* The loop of DecodeBatch. *)

\* Behind off, the plain text has the length of raw and then raw.
Stands(plain, off, raw) ==
    /\ off + LenBytes + Len(raw) <= Len(plain)
    /\ \A k \in 1..LenBytes : plain[off + k] = BigEndian(Len(raw), LenBytes)[k]
    /\ \A k \in 1..Len(raw) : plain[off + LenBytes + k] = raw[k]

\* DecodeBatch takes the next frame from where the one before it ended.
LEMMA DecodeStep ==
    ASSUME NEW plain \in Seq(Byte), NEW off \in Nat, NEW f \in Frame, Fits(f),
           Stands(plain, off, Marshal(f).raw), NEW fs
    PROVE  DecodeNext(plain, [ok |-> TRUE, off |-> off, frames |-> fs])
           = [ok |-> TRUE, off |-> off + LenBytes + Len(Marshal(f).raw), frames |-> Append(fs, f)]
<1> DEFINE raw == Marshal(f).raw
           acc == [ok |-> TRUE, off |-> off, frames |-> fs]
           flen == Number(plain, acc.off, LenBytes)
           start == acc.off + LenBytes
           u == Unmarshal(Field(plain, start, flen))
<1>1. raw \in Seq(Byte) /\ Len(raw) \in Nat /\ Len(raw) < Pow[LenBytes]
  BY MarshalIs
<1>15. /\ off + LenBytes + Len(raw) <= Len(plain)
       /\ \A k \in 1..LenBytes : plain[off + k] = BigEndian(Len(raw), LenBytes)[k]
       /\ \A k \in 1..Len(raw) : plain[off + LenBytes + k] = raw[k]
  BY DEF Stands
<1>16. \A data : Begins(data, raw) => Unmarshal(data) = IF Len(data) < Len(raw) THEN Failed
                             ELSE [ok |-> TRUE, used |-> Len(raw), frame |-> f]
  BY UnmarshalInverts
<1> HIDE DEF raw
<1>2. acc.off = off /\ acc.ok = TRUE /\ acc.frames = fs
  OBVIOUS
<1>3. LenBytes \in Nat /\ Len(plain) \in Nat
  BY CodecConsts
<1>4. off + LenBytes <= Len(plain) /\ off + LenBytes \in Nat
  BY <1>1, <1>3, <1>15
<1>5. Number(plain, off, LenBytes) = Len(raw)
  BY <1>1, <1>3, <1>4, <1>15, NumberIs
<1>6. flen = Len(raw) /\ start = off + LenBytes
  BY <1>2, <1>5
<1>7. Field(plain, off + LenBytes, Len(raw)) = raw
  <2> DEFINE b == off + LenBytes
  <2>1. b \in Nat /\ b + Len(raw) <= Len(plain) /\ \A k \in 1..Len(raw) : plain[b + k] = raw[k]
    BY <1>4, <1>15
  <2>2. raw \in Seq(Byte)
    BY <1>1
  <2> HIDE DEF b
  <2>3. Field(plain, b, Len(raw)) = raw
    BY <2>1, <2>2, FieldIs
  <2> QED
    BY <2>3 DEF b
<1>8. Begins(raw, raw) /\ ~(Len(raw) < Len(raw))
  BY <1>1 DEF Begins
<1>9. Unmarshal(raw) = [ok |-> TRUE, used |-> Len(raw), frame |-> f]
  BY <1>8, <1>16
<1>10. u = [ok |-> TRUE, used |-> Len(raw), frame |-> f]
  BY <1>6, <1>7, <1>9
<1>11. DecodeNext(plain, acc) =
         IF \/ ~acc.ok \/ Len(plain) < start \/ Len(plain) < start + flen \/ ~u.ok
         THEN Failed
         ELSE [ok |-> TRUE, off |-> start + flen, frames |-> Append(acc.frames, u.frame)]
  BY DEF DecodeNext
<1> HIDE DEF flen, start, u, acc
<1>12. u.ok = TRUE /\ u.frame = f
  BY <1>10
<1>13. ~(Len(plain) < off + LenBytes) /\ ~(Len(plain) < off + LenBytes + Len(raw))
  <2> DEFINE r == Len(raw)
             d == Len(plain)
  <2>1. r \in Nat /\ d \in Nat /\ off + LenBytes + r <= d /\ LenBytes \in Nat
    BY <1>1, <1>3, <1>15
  <2> HIDE DEF r, d
  <2>2. ~(d < off + LenBytes) /\ ~(d < off + LenBytes + r)
    BY <2>1
  <2> QED
    BY <2>2 DEF r, d
<1>14. DecodeNext(plain, acc) = [ok |-> TRUE, off |-> off + LenBytes + Len(raw), frames |-> Append(fs, f)]
  BY <1>2, <1>6, <1>11, <1>12, <1>13, Zenon
<1> QED
  BY <1>14 DEF acc, raw

\* The recursion of DecodePlain.
First == [ok |-> TRUE, off |-> IDLen + CountBytes, frames |-> <<>>]
IsAfter(plain, count, A) ==
    A = [i \in 0..count |-> IF i = 0 THEN First ELSE DecodeNext(plain, A[i - 1])]

\* It has one solution.
LEMMA AfterUnique ==
    ASSUME NEW plain, NEW count \in Nat, NEW A, NEW B,
           IsAfter(plain, count, A), IsAfter(plain, count, B)
    PROVE  A[count] = B[count]
<1> DEFINE D(i) == IF i = 0 THEN First ELSE DecodeNext(plain, A[i - 1])
           E(i) == IF i = 0 THEN First ELSE DecodeNext(plain, B[i - 1])
           N == {k \in Nat : k <= count => A[k] = B[k]}
<1>1. A = [i \in 0..count |-> D(i)] /\ B = [i \in 0..count |-> E(i)]
  BY DEF IsAfter
<1>2. \A i \in 0..count : A[i] = D(i) /\ B[i] = E(i)
  <2> HIDE DEF D, E
  <2> QED
    BY <1>1
<1>3. 0 \in N
  BY <1>2
<1>4. ASSUME NEW k \in Nat, k \in N
      PROVE  k + 1 \in N
  BY <1>2, <1>4
<1>5. Nat \subseteq N
  <2> HIDE DEF N
  <2> QED
    BY <1>3, <1>4, SetInduction
<1> QED
  BY <1>5

\* DecodePlain is its last value.
LEMMA DecodePlainIs ==
    ASSUME NEW plain, NEW count \in Nat, count = Number(plain, IDLen, CountBytes),
           NEW A, IsAfter(plain, count, A)
    PROVE  DecodePlain(plain) =
             IF Len(plain) < IDLen + CountBytes \/ ~A[count].ok THEN Failed
             ELSE [ok |-> TRUE, clientID |-> Field(plain, 0, IDLen), frames |-> A[count].frames]
<1> DEFINE C == CHOOSE B : IsAfter(plain, count, B)
<1>1. DecodePlain(plain) =
        IF Len(plain) < IDLen + CountBytes \/ ~C[count].ok THEN Failed
        ELSE [ok |-> TRUE, clientID |-> Field(plain, 0, IDLen), frames |-> C[count].frames]
  BY DEF DecodePlain, IsAfter, First
<1>2. IsAfter(plain, count, C)
  OBVIOUS
<1> HIDE DEF C
<1>3. C[count] = A[count]
  BY <1>2, AfterUnique
<1> QED
  BY <1>1, <1>3

\* The bytes of a batch: the head, and the pieces behind it.
LEMMA PlainBytes ==
    ASSUME NEW id \in Seq(Byte), Len(id) = IDLen, NEW n \in Nat, NEW raws \in [1..n -> Seq(Byte)]
    PROVE  LET plain == Plain(id, raws)
               H     == IDLen + CountBytes
           IN  /\ plain \in Seq(Byte)
               /\ \A i \in 1..IDLen : plain[i] = id[i]
               /\ \A i \in 1..CountBytes : plain[IDLen + i] = BigEndian(n, CountBytes)[i]
               /\ \E O \in [0..n -> Nat] :
                     /\ O[0] = 0 /\ Len(plain) = H + O[n]
                     /\ \A i \in 1..n :
                           /\ O[i] = O[i - 1] + LenBytes + Len(raws[i]) /\ O[i] <= O[n]
                           /\ \A k \in 1..LenBytes :
                                 plain[H + O[i - 1] + k] = BigEndian(Len(raws[i]), LenBytes)[k]
                           /\ \A k \in 1..Len(raws[i]) :
                                 plain[H + O[i - 1] + LenBytes + k] = raws[i][k]
<1> DEFINE plain == Plain(id, raws)
           H == IDLen + CountBytes
           cnt == BigEndian(n, CountBytes)
           P == [i \in 1..n |-> BigEndian(Len(raws[i]), LenBytes) \o raws[i]]
           flat == FlattenSeq(P)
           head == id \o cnt
<1>1. Len(raws) = n
  BY FunctionIsSeq
<1>2. plain = head \o flat
  BY <1>1 DEF Plain
<1>3. cnt \in Seq(Byte) /\ Len(cnt) = CountBytes /\ H \in Nat
  <2>1. CountBytes \in Nat /\ H \in Nat
    BY CodecConsts
  <2> QED
    BY <2>1, BigEndianType
<1>4. ASSUME NEW i \in 1..n
      PROVE  /\ P[i] \in Seq(Byte) /\ Len(P[i]) = LenBytes + Len(raws[i])
             /\ \A k \in 1..LenBytes : P[i][k] = BigEndian(Len(raws[i]), LenBytes)[k]
             /\ \A k \in 1..Len(raws[i]) : P[i][LenBytes + k] = raws[i][k]
  <2> DEFINE r == raws[i]
             l == BigEndian(Len(r), LenBytes)
  <2>1. r \in Seq(Byte) /\ P[i] = l \o r
    OBVIOUS
  <2> HIDE DEF P, r
  <2>2. l \in Seq(Byte) /\ Len(l) = LenBytes
    <3>1. Len(r) \in Nat /\ LenBytes \in Nat
      BY <2>1, CodecConsts
    <3> QED
      BY <3>1, BigEndianType
  <2> HIDE DEF l
  <2>0. l \in Seq(Byte) /\ r \in Seq(Byte)
    BY <2>1, <2>2
  <2>3. /\ l \o r \in Seq(Byte) /\ Len(l \o r) = Len(l) + Len(r)
        /\ \A k \in 1..Len(l) : (l \o r)[k] = l[k]
        /\ \A k \in 1..Len(r) : (l \o r)[Len(l) + k] = r[k]
    BY <2>0, Concat
  <2>4. /\ P[i] \in Seq(Byte) /\ Len(P[i]) = LenBytes + Len(r)
        /\ \A k \in 1..LenBytes : P[i][k] = l[k]
        /\ \A k \in 1..Len(r) : P[i][LenBytes + k] = r[k]
    BY <2>1, <2>2, <2>3, Zenon
  <2> QED
    BY <2>4 DEF l, r
<1>5. P \in Seq(Seq(Byte)) /\ Len(P) = n
  <2>1. P \in [1..n -> Seq(Byte)]
    BY <1>4
  <2> HIDE DEF P
  <2> QED
    BY <2>1, FunctionIsSeq
<1> HIDE DEF P
<1>6. PICK O \in [0..n -> Nat] :
        /\ O[0] = 0
        /\ flat \in Seq(Byte) /\ Len(flat) = O[n]
        /\ \A i \in 1..n : /\ O[i] = O[i - 1] + Len(P[i]) /\ O[i] <= O[n]
                           /\ \A k \in 1..Len(P[i]) : flat[O[i - 1] + k] = P[i][k]
  <2>1. \E O \in [0..Len(P) -> Nat] :
              /\ O[0] = 0
              /\ FlattenSeq(P) \in Seq(Byte) /\ Len(FlattenSeq(P)) = O[Len(P)]
              /\ \A i \in 1..Len(P) :
                    /\ O[i] = O[i - 1] + Len(P[i]) /\ O[i] <= O[Len(P)]
                    /\ \A k \in 1..Len(P[i]) : FlattenSeq(P)[O[i - 1] + k] = P[i][k]
    BY <1>5, FlattenPieces
  <2> QED
    BY <1>5, <2>1
<1> HIDE DEF flat, cnt
<1>7. /\ head \in Seq(Byte) /\ Len(head) = H
      /\ \A i \in 1..IDLen : head[i] = id[i]
      /\ \A i \in 1..CountBytes : head[IDLen + i] = cnt[i]
  <2> DEFINE Joins(s, t) == /\ s \o t \in Seq(Byte) /\ Len(s \o t) = Len(s) + Len(t)
                            /\ \A k \in 1..Len(s) : (s \o t)[k] = s[k]
                            /\ \A k \in 1..Len(t) : (s \o t)[Len(s) + k] = t[k]
  <2>0. \A s, t \in Seq(Byte) : Joins(s, t)
    BY Concat
  <2>1. /\ id \o cnt \in Seq(Byte) /\ Len(id \o cnt) = Len(id) + Len(cnt)
        /\ \A k \in 1..Len(id) : (id \o cnt)[k] = id[k]
        /\ \A k \in 1..Len(cnt) : (id \o cnt)[Len(id) + k] = cnt[k]
    <3> HIDE DEF Joins
    <3>1. Joins(id, cnt)
      BY <1>3, <2>0
    <3> QED
      BY <3>1 DEF Joins
  <2> QED
    BY <1>3, <2>1
<1> HIDE DEF head, plain
<1>8. /\ plain \in Seq(Byte) /\ Len(plain) = H + O[n]
      /\ \A i \in 1..H : plain[i] = head[i]
      /\ \A i \in 1..O[n] : plain[H + i] = flat[i]
  <2>1. flat \in Seq(Byte) /\ Len(flat) = O[n]
    BY <1>6
  <2>0. head \in Seq(Byte) /\ flat \in Seq(Byte)
    BY <1>7, <2>1
  <2>2. /\ head \o flat \in Seq(Byte) /\ Len(head \o flat) = Len(head) + Len(flat)
        /\ \A k \in 1..Len(head) : (head \o flat)[k] = head[k]
        /\ \A k \in 1..Len(flat) : (head \o flat)[Len(head) + k] = flat[k]
    BY <2>0, Concat
  <2> QED
    BY <1>2, <1>7, <2>1, <2>2, Zenon
<1>9. \A i \in 1..IDLen : plain[i] = id[i]
  BY <1>7, <1>8, CodecConsts
<1>10. \A i \in 1..CountBytes : plain[IDLen + i] = cnt[i]
  BY <1>7, <1>8, CodecConsts
<1>11. ASSUME NEW i \in 1..n
       PROVE  /\ O[i] = O[i - 1] + LenBytes + Len(raws[i]) /\ O[i] <= O[n]
              /\ \A k \in 1..LenBytes :
                    plain[H + O[i - 1] + k] = BigEndian(Len(raws[i]), LenBytes)[k]
              /\ \A k \in 1..Len(raws[i]) : plain[H + O[i - 1] + LenBytes + k] = raws[i][k]
  <2> DEFINE r == Len(raws[i])
             a == O[i - 1]
             b == O[n]
             p == P[i]
  <2>1. r \in Nat /\ LenBytes \in Nat /\ H \in Nat /\ i - 1 \in 0..n /\ n \in 0..n /\ i \in 0..n
    BY <1>3, CodecConsts
  <2>2. a \in Nat /\ b \in Nat /\ O[i] \in Nat
    BY <1>6, <2>1
  <2>3. Len(p) = LenBytes + r /\ O[i] = a + Len(p) /\ O[i] <= b
    BY <1>4, <1>6
  <2>4. \A k \in 1..Len(p) : flat[a + k] = p[k]
    BY <1>6
  <2>5. \A k \in 1..LenBytes : p[k] = BigEndian(r, LenBytes)[k]
    BY <1>4
  <2>6. \A k \in 1..r : p[LenBytes + k] = raws[i][k]
    BY <1>4
  <2>7. \A k \in 1..b : plain[H + k] = flat[k]
    BY <1>8
  <2> HIDE DEF r, a, b, p
  <2>8. a + (LenBytes + r) <= b /\ O[i] = a + LenBytes + r
    BY <2>1, <2>2, <2>3
  <2>9. ASSUME NEW k \in 1..LenBytes + r
        PROVE  plain[H + a + k] = p[k]
    <3>1. a + k \in 1..b /\ H + (a + k) = H + a + k
      BY <2>1, <2>2, <2>8
    <3>2. k \in 1..Len(p)
      BY <2>3
    <3>3. plain[H + (a + k)] = flat[a + k]
      BY <2>7, <3>1
    <3> QED
      BY <2>4, <3>1, <3>2, <3>3
  <2>10. \A k \in 1..LenBytes : plain[H + a + k] = BigEndian(r, LenBytes)[k]
    BY <2>1, <2>5, <2>9
  <2>11. ASSUME NEW k \in 1..r
         PROVE  plain[H + a + LenBytes + k] = raws[i][k]
    <3>1. LenBytes + k \in 1..LenBytes + r /\ H + a + (LenBytes + k) = H + a + LenBytes + k
      BY <2>1, <2>2
    <3>2. plain[H + a + (LenBytes + k)] = p[LenBytes + k]
      BY <2>9, <3>1
    <3> QED
      BY <2>6, <3>1, <3>2
  <2> QED
    BY <2>3, <2>8, <2>10, <2>11 DEF r, a, b
<1> HIDE DEF H
<1>12. \E Q \in [0..n -> Nat] :
         /\ Q[0] = 0 /\ Len(plain) = H + Q[n]
         /\ \A i \in 1..n :
               /\ Q[i] = Q[i - 1] + LenBytes + Len(raws[i]) /\ Q[i] <= Q[n]
               /\ \A k \in 1..LenBytes :
                     plain[H + Q[i - 1] + k] = BigEndian(Len(raws[i]), LenBytes)[k]
               /\ \A k \in 1..Len(raws[i]) : plain[H + Q[i - 1] + LenBytes + k] = raws[i][k]
  BY <1>6, <1>8, <1>11
<1> QED
  BY <1>8, <1>9, <1>10, <1>12, Zenon DEF plain, H, cnt

\* The frames of the plain text, for every batch within the limits.
LEMMA PlainDecodes ==
    ASSUME NEW id \in Seq(Byte), Len(id) = IDLen, NEW frames \in Seq(Frame),
           Len(frames) < Pow[CountBytes], \A i \in 1..Len(frames) : Fits(frames[i])
    PROVE  DecodePlain(Plain(id, [i \in 1..Len(frames) |-> Marshal(frames[i]).raw]))
           = [ok |-> TRUE, clientID |-> id, frames |-> frames]
<1> DEFINE n == Len(frames)
           raws == [i \in 1..n |-> Marshal(frames[i]).raw]
           plain == Plain(id, raws)
           H == IDLen + CountBytes
<1>0. n \in Nat /\ H \in Nat /\ IDLen \in Nat /\ CountBytes \in Nat /\ LenBytes \in Nat
  BY CodecConsts
<1>1. \A i \in 1..n : raws[i] = Marshal(frames[i]).raw /\ frames[i] \in Frame /\ Fits(frames[i])
  OBVIOUS
<1>2. raws \in [1..n -> Seq(Byte)]
  BY <1>1, MarshalIs
<1> HIDE DEF raws
<1>3. /\ plain \in Seq(Byte)
      /\ \A i \in 1..IDLen : plain[i] = id[i]
      /\ \A i \in 1..CountBytes : plain[IDLen + i] = BigEndian(n, CountBytes)[i]
      /\ \E O \in [0..n -> Nat] :
            /\ O[0] = 0 /\ Len(plain) = H + O[n]
            /\ \A i \in 1..n :
                  /\ O[i] = O[i - 1] + LenBytes + Len(raws[i]) /\ O[i] <= O[n]
                  /\ \A k \in 1..LenBytes :
                        plain[H + O[i - 1] + k] = BigEndian(Len(raws[i]), LenBytes)[k]
                  /\ \A k \in 1..Len(raws[i]) :
                        plain[H + O[i - 1] + LenBytes + k] = raws[i][k]
  <2> HIDE DEF n
  <2> QED
    BY <1>0, <1>2, PlainBytes
<1> HIDE DEF plain, H
<1>4. PICK O \in [0..n -> Nat] :
        /\ O[0] = 0 /\ Len(plain) = H + O[n]
        /\ \A i \in 1..n :
              /\ O[i] = O[i - 1] + LenBytes + Len(raws[i]) /\ O[i] <= O[n]
              /\ \A k \in 1..LenBytes :
                    plain[H + O[i - 1] + k] = BigEndian(Len(raws[i]), LenBytes)[k]
              /\ \A k \in 1..Len(raws[i]) :
                    plain[H + O[i - 1] + LenBytes + k] = raws[i][k]
  BY <1>3
<1>15. plain \in Seq(Byte) /\ O \in [0..n -> Nat] /\ n \in 0..n
  BY <1>0, <1>3, <1>4
<1>5. O[n] \in Nat /\ H <= Len(plain)
  BY <1>0, <1>4
<1>6. Number(plain, IDLen, CountBytes) = n
  <2>1. IDLen + CountBytes <= Len(plain)
    BY <1>5 DEF H
  <2>2. n < Pow[CountBytes]
    OBVIOUS
  <2> HIDE DEF n
  <2> QED
    BY <1>0, <1>3, <2>1, <2>2, NumberIs
<1>7. Field(plain, 0, IDLen) = id
  <2>1. 0 + Len(id) <= Len(plain) /\ \A i \in 1..Len(id) : plain[0 + i] = id[i]
    BY <1>0, <1>3, <1>5 DEF H
  <2>2. Field(plain, 0, Len(id)) = id
    BY <1>3, <2>1, FieldIs
  <2> QED
    BY <2>2
<1> DEFINE A == [i \in 0..n |-> [ok |-> TRUE, off |-> H + O[i], frames |-> SubSeq(frames, 1, i)]]
           D(i) == IF i = 0 THEN First ELSE DecodeNext(plain, A[i - 1])
<1>8. ASSUME NEW i \in 0..n
      PROVE  A[i] = D(i)
  <2>1. CASE i = 0
    <3>1. SubSeq(frames, 1, 0) = <<>>
      OBVIOUS
    <3>2. H + O[0] = IDLen + CountBytes
      BY <1>0, <1>4 DEF H
    <3> QED
      BY <2>1, <3>1, <3>2 DEF First
  <2>2. CASE i # 0
    <3>1. i \in 1..n /\ i - 1 \in 0..n
      BY <2>2
    <3> DEFINE f == frames[i]
               raw == raws[i]
               off == H + O[i - 1]
               fs == SubSeq(frames, 1, i - 1)
    <3>2. f \in Frame /\ Fits(f) /\ raw = Marshal(f).raw
      BY <1>1, <3>1
    <3>3. off \in Nat
      <4>1. O[i - 1] \in Nat
        BY <1>15, <3>1
      <4> QED
        BY <1>0, <4>1
    <3>4. /\ \A k \in 1..LenBytes : plain[off + k] = BigEndian(Len(raw), LenBytes)[k]
          /\ \A k \in 1..Len(raw) : plain[off + LenBytes + k] = raw[k]
      BY <1>4, <3>1
    <3>5. off + LenBytes + Len(raw) = H + O[i] /\ off + LenBytes + Len(raw) <= Len(plain)
      <4> DEFINE r == Len(raw)
                 a == O[i - 1]
                 b == O[i]
                 c == O[n]
      <4>1. r \in Nat
        BY <1>2, <3>1
      <4>2. a \in Nat /\ b \in Nat /\ c \in Nat
        BY <1>15, <3>1
      <4>3. b = a + LenBytes + r /\ b <= c /\ Len(plain) = H + c
        BY <1>4, <3>1
      <4> HIDE DEF r, a, b, c
      <4>4. H + a + LenBytes + r = H + b /\ H + a + LenBytes + r <= H + c
        BY <1>0, <4>1, <4>2, <4>3
      <4> QED
        BY <4>3, <4>4 DEF r, a, b, c
    <3>6. Append(fs, f) = SubSeq(frames, 1, i)
      <4>1. fs \in Seq(Frame) /\ Len(fs) = i - 1 /\ \A k \in 1..i - 1 : fs[k] = frames[k]
        BY <3>1
      <4>2. /\ SubSeq(frames, 1, i) \in Seq(Frame) /\ Len(SubSeq(frames, 1, i)) = i
            /\ \A k \in 1..i : SubSeq(frames, 1, i)[k] = frames[k]
        BY <3>1
      <4> HIDE DEF fs
      <4>3. /\ Append(fs, f) \in Seq(Frame) /\ Len(Append(fs, f)) = i
            /\ \A k \in 1..i : Append(fs, f)[k] = frames[k]
        BY <3>1, <3>2, <4>1
      <4> QED
        BY <4>2, <4>3, SeqEqual
    <3>7. A[i - 1] = [ok |-> TRUE, off |-> off, frames |-> fs]
      BY <3>1
    <3> HIDE DEF f, raw, off, fs
    <3>8. DecodeNext(plain, [ok |-> TRUE, off |-> off, frames |-> fs])
          = [ok |-> TRUE, off |-> off + LenBytes + Len(raw), frames |-> Append(fs, f)]
      <4>1. Stands(plain, off, raw)
        BY <3>4, <3>5, Zenon DEF Stands
      <4>2. Stands(plain, off, Marshal(f).raw)
        BY <3>2, <4>1
      <4>3. DecodeNext(plain, [ok |-> TRUE, off |-> off, frames |-> fs])
            = [ok |-> TRUE, off |-> off + LenBytes + Len(Marshal(f).raw), frames |-> Append(fs, f)]
        BY <1>15, <3>2, <3>3, <4>2, DecodeStep, Zenon
      <4> QED
        BY <3>2, <4>3, Zenon
    <3>9. A[i] = [ok |-> TRUE, off |-> H + O[i], frames |-> SubSeq(frames, 1, i)]
      BY <3>1
    <3> HIDE DEF A
    <3>10. A[i] = DecodeNext(plain, A[i - 1])
      BY <3>5, <3>6, <3>7, <3>8, <3>9
    <3> QED
      BY <2>2, <3>10
  <2> QED
    BY <2>1, <2>2
<1>9. A[n] = [ok |-> TRUE, off |-> H + O[n], frames |-> frames]
  <2>1. SubSeq(frames, 1, n) = frames
    <3>1. /\ SubSeq(frames, 1, n) \in Seq(Frame) /\ Len(SubSeq(frames, 1, n)) = n
          /\ \A k \in 1..n : SubSeq(frames, 1, n)[k] = frames[k]
      OBVIOUS
    <3> QED
      BY <3>1, SeqEqual
  <2> QED
    BY <1>15, <2>1
<1>10. IsAfter(plain, n, A)
  <2>1. A = [i \in 0..n |-> D(i)]
    <3> HIDE DEF D
    <3> QED
      BY <1>8
  <2> HIDE DEF A
  <2> QED
    BY <2>1 DEF IsAfter
<1> HIDE DEF A, n
<1>11. DecodePlain(plain) =
         IF Len(plain) < IDLen + CountBytes \/ ~A[n].ok THEN Failed
         ELSE [ok |-> TRUE, clientID |-> Field(plain, 0, IDLen), frames |-> A[n].frames]
  BY <1>0, <1>6, <1>10, DecodePlainIs
<1>12. A[n].ok = TRUE /\ A[n].frames = frames
  BY <1>9
<1>13. ~(Len(plain) < IDLen + CountBytes)
  BY <1>0, <1>3, <1>5 DEF H
<1>14. DecodePlain(plain) = [ok |-> TRUE, clientID |-> id, frames |-> frames]
  BY <1>7, <1>11, <1>12, <1>13, Zenon
<1> QED
  BY <1>14 DEF plain, raws, n

-----------------------------------------------------------------------------
(* The text of a body. *)

\* TrimRight cuts behind the last character that is another one.
LEMMA TrimTo ==
    ASSUME NEW C, NEW body \in Seq(C), NEW c, NEW m \in 1..Len(body), body[m].char # c,
           \A j \in m + 1 .. Len(body) : body[j].char = c
    PROVE  TrimRight(body, c) = SubSeq(body, 1, m)
<1> DEFINE other == {i \in 1..Len(body) : body[i].char # c}
           last == CHOOSE i \in other : \A j \in other : j <= i
<1>1. m \in other /\ \A j \in other : j <= m
  OBVIOUS
<1>2. last = m
  <2>1. last \in other /\ \A j \in other : j <= last
    BY <1>1
  <2> HIDE DEF last
  <2> QED
    BY <1>1, <2>1
<1>3. TrimRight(body, c) = SubSeq(body, 1, IF other = {} THEN 0 ELSE last)
  BY DEF TrimRight
<1> HIDE DEF other, last
<1> QED
  BY <1>1, <1>2, <1>3

\* The text x of a body, white space before it, padding and then white space
\* behind it.
Arrives(body, x, m, e) ==
    /\ body \in Seq({x, Char("space"), Char("pad")})
    /\ m \in 1..e /\ e \in 1..Len(body)
    /\ body[m] = x
    /\ \A i \in 1 .. m - 1 : body[i] = Char("space")
    /\ \A i \in m + 1 .. e : body[i] = Char("pad")
    /\ \A i \in e + 1 .. Len(body) : body[i] = Char("space")

\* Trimming leaves the text.
LEMMA TrimmedIsText ==
    ASSUME NEW x, x.char = "text", NEW body, NEW m, NEW e, Arrives(body, x, m, e)
    PROVE  Trimmed(body) = <<x>> /\ body # <<>>
<1> DEFINE C == {x, Char("space"), Char("pad")}
           b1 == SubSeq(body, 1, e)
           r == Reverse(b1)
           k == e - m + 1
           r1 == SubSeq(r, 1, k)
           b2 == Reverse(r1)
<1>1. /\ body \in Seq(C) /\ m \in Nat /\ e \in Nat /\ Len(body) \in Nat
      /\ 1 <= m /\ m <= e /\ e <= Len(body)
      /\ body[m] = x
      /\ \A i \in 1 .. m - 1 : body[i] = Char("space")
      /\ \A i \in m + 1 .. e : body[i] = Char("pad")
      /\ \A i \in e + 1 .. Len(body) : body[i] = Char("space")
  BY DEF Arrives
<1>2. /\ Char("space").char = "space" /\ Char("pad").char = "pad"
      /\ x.char # "space" /\ x.char # "pad" /\ Char("pad").char # "space"
  BY DEF Char
<1>3. body[e].char # "space" /\ \A j \in e + 1 .. Len(body) : body[j].char = "space"
  <2>1. body[e] = x \/ body[e] = Char("pad")
    BY <1>1
  <2> QED
    BY <1>1, <1>2, <2>1
<1> HIDE DEF C
<1>4. TrimRight(body, "space") = b1
  BY <1>1, <1>3, TrimTo
<1>5. /\ b1 \in Seq(C) /\ Len(b1) = e
      /\ \A i \in 1..e : b1[i] = body[i]
  BY <1>1
<1> HIDE DEF b1
<1>6. /\ r \in Seq(C) /\ Len(r) = e
      /\ \A i \in 1..e : r[i] = b1[(e - i) + 1]
  <2>1. r = [i \in 1..e |-> b1[(e - i) + 1]]
    BY <1>5 DEF Reverse
  <2>2. \A i \in 1..e : b1[(e - i) + 1] \in C
    BY <1>1, <1>5
  <2>3. r \in [1..e -> C]
    BY <2>1, <2>2
  <2> HIDE DEF r
  <2> QED
    BY <1>1, <2>1, <2>3, FunctionIsSeq
<1> HIDE DEF r
<1>7. k \in Nat /\ 1 <= k /\ k <= e /\ (e - k) + 1 = m
  BY <1>1
<1>8. r[k].char # "space" /\ \A j \in k + 1 .. Len(r) : r[j].char = "space"
  <2>1. r[k] = x
    BY <1>1, <1>5, <1>6, <1>7
  <2>2. ASSUME NEW j \in k + 1 .. e
        PROVE  r[j] = Char("space")
    <3>1. j \in 1..e /\ (e - j) + 1 \in 1 .. m - 1 /\ (e - j) + 1 \in 1..e
      BY <1>1, <1>7
    <3> QED
      BY <1>1, <1>5, <1>6, <3>1
  <2> QED
    BY <1>2, <1>6, <2>1, <2>2
<1> HIDE DEF k
<1>9. TrimRight(r, "space") = r1
  <2>1. k \in 1..Len(r)
    BY <1>1, <1>6, <1>7
  <2> QED
    BY <1>6, <1>8, <2>1, TrimTo
<1>10. /\ r1 \in Seq(C) /\ Len(r1) = k
       /\ \A i \in 1..k : r1[i] = r[i]
  BY <1>6, <1>7
<1> HIDE DEF r1
<1>11. /\ b2 \in Seq(C) /\ Len(b2) = k
       /\ \A i \in 1..k : b2[i] = r1[(k - i) + 1]
  <2>1. b2 = [i \in 1..k |-> r1[(k - i) + 1]]
    BY <1>10 DEF Reverse
  <2>2. \A i \in 1..k : r1[(k - i) + 1] \in C
    BY <1>7, <1>10
  <2>3. b2 \in [1..k -> C]
    BY <2>1, <2>2
  <2> HIDE DEF b2
  <2> QED
    BY <1>7, <2>1, <2>3, FunctionIsSeq
<1> HIDE DEF b2
<1>12. ASSUME NEW i \in 1..k
       PROVE  b2[i] = body[m - 1 + i]
  <2>1. (k - i) + 1 \in 1..k /\ (k - i) + 1 \in 1..e /\ (e - ((k - i) + 1)) + 1 = m - 1 + i
        /\ m - 1 + i \in 1..e
    BY <1>1, <1>7
  <2> QED
    BY <1>5, <1>6, <1>10, <1>11, <2>1
<1>13. b2[1] = x /\ \A i \in 2..k : b2[i] = Char("pad")
  <2>1. 1 \in 1..k /\ m - 1 + 1 = m
    BY <1>1, <1>7
  <2>2. ASSUME NEW i \in 2..k
        PROVE  b2[i] = Char("pad")
    <3>1. i \in 1..k /\ m - 1 + i \in m + 1 .. e
      BY <1>1, <1>7
    <3> QED
      BY <1>1, <1>12, <3>1
  <2> QED
    BY <1>1, <1>12, <2>1, <2>2
<1>14. TrimRight(b2, "pad") = SubSeq(b2, 1, 1)
  <2>1. 1 \in 1..Len(b2) /\ b2[1].char # "pad" /\ \A j \in 1 + 1 .. Len(b2) : b2[j].char = "pad"
    BY <1>2, <1>7, <1>11, <1>13
  <2> QED
    BY <1>11, <2>1, TrimTo
<1>15. SubSeq(b2, 1, 1) = <<x>>
  <2> DEFINE c == SubSeq(b2, 1, 1)
  <2>1. 1 \in 1..k /\ 1 <= Len(b2)
    BY <1>7, <1>11
  <2>2. c \in Seq(C) /\ Len(c) = 1 /\ c[1] = b2[1]
    BY <1>11, <2>1
  <2> HIDE DEF c
  <2>3. c = <<x>>
    BY <1>13, <2>2
  <2> QED
    BY <2>3 DEF c
<1>16. Trimmed(body) = <<x>>
  BY <1>4, <1>9, <1>14, <1>15 DEF Trimmed, TrimSpace, r, b2
<1> QED
  BY <1>1, <1>16

\* The forms in which a body arrives are of that kind.
LEMMA ArrivalsArrive ==
    ASSUME NEW x, NEW body \in Arrivals(<<x>>)
    PROVE  \E m, e : Arrives(body, x, m, e)
<1> DEFINE S == Char("space")
           P == Char("pad")
           C == {x, S, P}
<1>1. PICK before \in {<<>>, <<S>>}, after \in {<<>>, <<S>>}, pads \in {<<>>, <<P>>, <<P, P>>} :
        body = before \o <<x>> \o pads \o after
  BY DEF Arrivals
<1> DEFINE m == Len(before) + 1
           e == m + Len(pads)
           s1 == before \o <<x>>
           s2 == s1 \o pads
<1> HIDE DEF S, P
<1>2. /\ before \in Seq(C) /\ \A i \in 1..Len(before) : before[i] = S
      /\ after \in Seq(C) /\ \A i \in 1..Len(after) : after[i] = S
      /\ pads \in Seq(C) /\ \A i \in 1..Len(pads) : pads[i] = P
      /\ <<x>> \in Seq(C) /\ Len(<<x>>) = 1 /\ <<x>>[1] = x
  <2>1. ASSUME NEW s \in {<<>>, <<S>>}
        PROVE  s \in Seq(C) /\ \A i \in 1..Len(s) : s[i] = S
    <3>1. CASE s = <<>>
      BY <3>1
    <3>2. CASE s = <<S>>
      BY <3>2
    <3> QED
      BY <3>1, <3>2
  <2>2. pads \in Seq(C) /\ \A i \in 1..Len(pads) : pads[i] = P
    <3>1. CASE pads = <<>>
      BY <3>1
    <3>2. CASE pads = <<P>>
      BY <3>2
    <3>3. CASE pads = <<P, P>>
      BY <3>3
    <3> QED
      BY <3>1, <3>2, <3>3
  <2>3. <<x>> \in Seq(C) /\ Len(<<x>>) = 1 /\ <<x>>[1] = x
    OBVIOUS
  <2>4. before \in Seq(C) /\ \A i \in 1..Len(before) : before[i] = S
    BY <2>1
  <2>5. after \in Seq(C) /\ \A i \in 1..Len(after) : after[i] = S
    BY <2>1
  <2> HIDE DEF C
  <2> QED
    BY <2>2, <2>3, <2>4, <2>5
<1>3. Len(before) \in Nat /\ Len(after) \in Nat /\ Len(pads) \in Nat
  BY <1>2
<1> HIDE DEF C
<1>4. /\ s1 \in Seq(C) /\ Len(s1) = m /\ s1[m] = x
      /\ \A i \in 1..m - 1 : s1[i] = S
  <2> DEFINE t == <<x>>
  <2> HIDE DEF t
  <2>1. t \in Seq(C) /\ Len(t) = 1 /\ t[1] = x
    BY <1>2 DEF t
  <2>2. /\ before \o t \in Seq(C) /\ Len(before \o t) = Len(before) + Len(t)
        /\ \A i \in 1..Len(before) : (before \o t)[i] = before[i]
        /\ \A i \in 1..Len(t) : (before \o t)[Len(before) + i] = t[i]
    <3>1. before \in Seq(C) /\ t \in Seq(C)
      BY <1>2, <2>1
    <3> QED
      BY <3>1, Concat
  <2>3. m - 1 = Len(before) /\ 1 \in 1..1
    BY <1>3
  <2> QED
    BY <1>2, <2>1, <2>2, <2>3 DEF t
<1>5. m \in Nat /\ 1 <= m
  BY <1>3
<1> HIDE DEF s1, m
<1>6. /\ s2 \in Seq(C) /\ Len(s2) = e
      /\ \A i \in 1..m : s2[i] = s1[i]
      /\ \A i \in 1..Len(pads) : s2[m + i] = P
  <2>0. s1 \in Seq(C) /\ pads \in Seq(C)
    BY <1>2, <1>4
  <2>1. /\ s1 \o pads \in Seq(C) /\ Len(s1 \o pads) = Len(s1) + Len(pads)
        /\ \A i \in 1..Len(s1) : (s1 \o pads)[i] = s1[i]
        /\ \A i \in 1..Len(pads) : (s1 \o pads)[Len(s1) + i] = pads[i]
    BY <2>0, Concat
  <2> QED
    BY <1>2, <1>4, <2>1, Zenon
<1>7. e \in Nat /\ m <= e /\ e - m = Len(pads)
  BY <1>3, <1>5
<1> HIDE DEF s2, e
<1>8. /\ body \in Seq(C) /\ Len(body) = e + Len(after)
      /\ \A i \in 1..e : body[i] = s2[i]
      /\ \A i \in 1..Len(after) : body[e + i] = S
  <2>0. s2 \in Seq(C) /\ after \in Seq(C)
    BY <1>2, <1>6
  <2>1. /\ s2 \o after \in Seq(C) /\ Len(s2 \o after) = Len(s2) + Len(after)
        /\ \A i \in 1..Len(s2) : (s2 \o after)[i] = s2[i]
        /\ \A i \in 1..Len(after) : (s2 \o after)[Len(s2) + i] = after[i]
    BY <2>0, Concat
  <2>2. body = s2 \o after
    BY <1>1 DEF s2, s1
  <2> QED
    BY <1>2, <1>6, <2>1, <2>2, Zenon
<1>9. body[m] = x /\ \A i \in 1..m - 1 : body[i] = S
  BY <1>4, <1>5, <1>6, <1>7, <1>8
<1>10. ASSUME NEW i \in m + 1 .. e
       PROVE  body[i] = P
  <2> DEFINE j == i - m
  <2>1. j \in 1..Len(pads) /\ m + j = i /\ i \in 1..e
    BY <1>3, <1>5, <1>7
  <2> QED
    BY <1>6, <1>8, <2>1
<1>11. ASSUME NEW i \in e + 1 .. Len(body)
       PROVE  body[i] = S
  <2> DEFINE j == i - e
  <2>1. j \in 1..Len(after) /\ e + j = i
    BY <1>3, <1>7, <1>8
  <2> QED
    BY <1>8, <2>1
<1>12. m \in 1..e /\ e \in 1..Len(body)
  BY <1>3, <1>5, <1>7, <1>8
<1>13. Arrives(body, x, m, e)
  BY <1>8, <1>9, <1>10, <1>11, <1>12 DEF Arrives, C, S, P
<1> QED
  BY <1>13

\* A sealed body opens with its key, whatever it is packed with.
LEMMA BodyDecodes ==
    ASSUME NEW key, NEW flag \in {Raw, Flate, Zstd}, NEW plain, NEW body, body # <<>>,
           Trimmed(body) = <<Text(Seal(key, [flag |-> flag, body |-> Packed(flag, plain)]))>>
    PROVE  /\ DecodeBatch(key, body) = DecodePlain(plain)
           /\ \A other : other # key => DecodeBatch(other, body) = Failed
<1> DEFINE in == [flag |-> flag, body |-> Packed(flag, plain)]
           sealed == Seal(key, in)
           x == Text(sealed)
           text == Trimmed(body)
<1>1. x.char = "text" /\ x.sealed = sealed
  BY DEF Text
<1>2. text = <<x>>
  OBVIOUS
<1> HIDE DEF x, text
<1>3. Len(text) = 1 /\ text[1] = x
  BY <1>2
<1>4. in.flag = flag /\ in.body.by = flag /\ in.body.content = plain
  BY DEF Packed
<1> HIDE DEF in
<1>5. sealed.key = key /\ sealed.input = in
  BY DEF Seal
<1> HIDE DEF sealed
<1>6. /\ Open(key, sealed) = [ok |-> TRUE, input |-> in]
      /\ \A other : other # key => Open(other, sealed) = Failed
  BY <1>5 DEF Open
<1>7. ASSUME NEW k
      PROVE  DecodeBatch(k, body) =
               IF \/ Len(text) # 1 \/ text[1].char # "text"
                  \/ ~Open(k, text[1].sealed).ok
                  \/ Open(k, text[1].sealed).input.flag \notin {Raw, Flate, Zstd}
                  \/ Open(k, text[1].sealed).input.body.by # Open(k, text[1].sealed).input.flag
               THEN Failed
               ELSE DecodePlain(Open(k, text[1].sealed).input.body.content)
  BY DEF DecodeBatch, text
<1>8. Open(key, sealed).ok = TRUE /\ Open(key, sealed).input = in
  BY <1>6
<1>9. DecodeBatch(key, body) = DecodePlain(plain)
  BY <1>1, <1>3, <1>4, <1>7, <1>8, Zenon
<1>10. ASSUME NEW other, other # key
       PROVE  DecodeBatch(other, body) = Failed
  <2>1. ~Open(other, sealed).ok
    BY <1>6, <1>10 DEF Failed
  <2> QED
    BY <1>1, <1>3, <1>7, <2>1, Zenon
<1> QED
  BY <1>9, <1>10

-----------------------------------------------------------------------------
(* Batches. *)

\* The plain text of a batch.
PlainOf(id, frames) == Plain(id, [i \in 1..Len(frames) |-> Marshal(frames[i]).raw])

\* The body of a batch that is packed as the flag says.
BodyOf(key, flag, plain) == <<Text(Seal(key, [flag |-> flag, body |-> Packed(flag, plain)]))>>

\* The batches that are not beyond a limit.
Within(frames) == /\ Len(frames) < Pow[CountBytes]
                  /\ \A i \in 1..Len(frames) : Fits(frames[i])

\* The number of frames a count of CountBytes bytes stays below.
LEMMA CountLimit == Pow[CountBytes] \in Nat
<1>1. CountBytes \in Nat
  BY CodecConsts
<1> QED
  BY <1>1, PowDef, Zenon

\* EncodeBatch refuses what is beyond a limit and seals the rest, packed or not.
LEMMA EncodeIs ==
    ASSUME NEW key, NEW id, NEW frames \in Seq(Frame), NEW shrinks \in BOOLEAN
    PROVE  LET e == EncodeBatch(key, id, frames, shrinks)
           IN  /\ e.ok <=> Within(frames)
               /\ Within(frames) => \E flag \in {Raw, Zstd} :
                                       e.body = BodyOf(key, flag, PlainOf(id, frames))
<1> DEFINE e == EncodeBatch(key, id, frames, shrinks)
           n == Len(frames)
           raws == [i \in 1..n |-> Marshal(frames[i])]
           plain == PlainOf(id, frames)
           packs == Len(plain) >= CompressMin /\ shrinks
           tooMany == n >= Pow[CountBytes]
           refused == \E i \in 1..n : ~raws[i].ok
<1>1. n \in Nat /\ Pow[CountBytes] \in Nat
  BY CountLimit
<1>2. \A i \in 1..n : frames[i] \in Frame
  OBVIOUS
<1>3. refused <=> ~ \A i \in 1..n : Fits(frames[i])
  BY <1>2, MarshalIs
<1>4. tooMany <=> ~(n < Pow[CountBytes])
  BY <1>1
<1>5. [i \in 1..n |-> raws[i].raw] = [i \in 1..n |-> Marshal(frames[i]).raw]
  OBVIOUS
<1>6. e = IF tooMany \/ refused THEN Failed
          ELSE [ok |-> TRUE,
                body |-> <<Text(Seal(key, IF packs
                                          THEN [flag |-> Zstd, body |-> Packed(Zstd, plain)]
                                          ELSE [flag |-> Raw, body |-> Packed(Raw, plain)]))>>]
  <2>1. plain = Plain(id, [i \in 1..n |-> raws[i].raw])
    BY <1>5 DEF PlainOf
  <2> QED
    BY <2>1, Zenon DEF EncodeBatch
<1> HIDE DEF e, tooMany, refused, packs, plain
<1>7. CASE ~Within(frames)
  <2>1. e = Failed
    BY <1>3, <1>4, <1>6, <1>7 DEF Within
  <2> QED
    BY <1>7, <2>1 DEF Failed, e
<1>8. CASE Within(frames)
  <2>1. ~tooMany /\ ~refused
    BY <1>3, <1>4, <1>8 DEF Within
  <2>2. CASE packs
    <3>1. e = [ok |-> TRUE, body |-> BodyOf(key, Zstd, plain)]
      BY <1>6, <2>1, <2>2 DEF BodyOf
    <3>2. e.ok = TRUE /\ e.body = BodyOf(key, Zstd, plain)
      BY <3>1
    <3> QED
      BY <1>8, <3>2 DEF e, plain
  <2>3. CASE ~packs
    <3>1. e = [ok |-> TRUE, body |-> BodyOf(key, Raw, plain)]
      BY <1>6, <2>1, <2>3 DEF BodyOf
    <3>2. e.ok = TRUE /\ e.body = BodyOf(key, Raw, plain)
      BY <3>1
    <3> QED
      BY <1>8, <3>2 DEF e, plain
  <2> QED
    BY <2>2, <2>3
<1> QED
  BY <1>7, <1>8

\* A body decodes in each of the forms in which it may arrive, and with no
\* other key.
LEMMA ArrivalDecodes ==
    ASSUME NEW key, NEW flag \in {Raw, Flate, Zstd}, NEW plain,
           NEW body \in Arrivals(BodyOf(key, flag, plain))
    PROVE  /\ DecodeBatch(key, body) = DecodePlain(plain)
           /\ \A other : other # key => DecodeBatch(other, body) = Failed
<1> DEFINE x == Text(Seal(key, [flag |-> flag, body |-> Packed(flag, plain)]))
<1>1. x.char = "text"
  BY DEF Text
<1>2. BodyOf(key, flag, plain) = <<x>>
  BY DEF BodyOf
<1>3. PICK m, e : Arrives(body, x, m, e)
  <2> HIDE DEF x
  <2> QED
    BY <1>2, ArrivalsArrive
<1>4. Trimmed(body) = <<x>> /\ body # <<>>
  <2> HIDE DEF x
  <2> QED
    BY <1>1, <1>3, TrimmedIsText
<1> QED
  BY <1>4, BodyDecodes

\* A body may arrive as it was sent.
LEMMA SentArrives ==
    ASSUME NEW x
    PROVE  <<x>> \in Arrivals(<<x>>)
<1>1. \E before, after \in {<<>>, <<Char("space")>>},
         pads \in {<<>>, <<Char("pad")>>, <<Char("pad"), Char("pad")>>} :
            <<x>> = before \o <<x>> \o pads \o after
  <2>1. <<x>> = <<>> \o <<x>> \o <<>> \o <<>>
    OBVIOUS
  <2> QED
    BY <2>1
<1> QED
  BY <1>1 DEF Arrivals

\* Whatever the client id and the frames, encoding succeeds exactly within the
\* limits, what was encoded decodes to what was sent in every form in which it
\* may arrive, from a peer that packs with DEFLATE too, and the wrong key opens
\* nothing (EncodeBatch, DecodeBatch).
THEOREM EveryBatchRoundTrips ==
    \A id \in [1..IDLen -> Byte], frames \in Seq(Frame), shrinks \in BOOLEAN :
        RoundTrips(id, frames, shrinks)
<1> SUFFICES ASSUME NEW id \in [1..IDLen -> Byte], NEW frames \in Seq(Frame),
                    NEW shrinks \in BOOLEAN
             PROVE  RoundTrips(id, frames, shrinks)
  OBVIOUS
<1> DEFINE sent == [ok |-> TRUE, clientID |-> id, frames |-> frames]
           fine == /\ Len(frames) <= Pow[CountBytes] - 1
                   /\ \A i \in 1..Len(frames) : /\ Len(frames[i].target) <= MaxTargetLen
                                                /\ Len(frames[i].payload) <= MaxPayload
           encoded == EncodeBatch("k", id, frames, shrinks)
           plain == PlainOf(id, frames)
<1>1. fine <=> Within(frames)
  <2>1. Len(frames) \in Nat /\ Pow[CountBytes] \in Nat
    BY CountLimit
  <2>2. Len(frames) <= Pow[CountBytes] - 1 <=> Len(frames) < Pow[CountBytes]
    BY <2>1
  <2> QED
    BY <2>2, Zenon DEF Within, Fits
<1>2. encoded.ok <=> Within(frames)
  BY EncodeIs
<1>3. ASSUME Within(frames)
      PROVE  /\ \A body \in Arrivals(encoded.body) \cup Arrivals(OldBody(id, frames)) :
                    DecodeBatch("k", body) = sent
             /\ DecodeBatch("other", encoded.body) = Failed
  <2>1. PICK flag \in {Raw, Zstd} : encoded.body = BodyOf("k", flag, plain)
    BY <1>3, EncodeIs
  <2>2. OldBody(id, frames) = BodyOf("k", Flate, plain)
    BY DEF OldBody, BodyOf, PlainOf
  <2>3. DecodePlain(plain) = sent
    <3>1. id \in Seq(Byte) /\ Len(id) = IDLen
      BY CodecConsts, FunctionIsSeq
    <3> QED
      BY <1>3, <3>1, PlainDecodes DEF Within, PlainOf
  <2>4. encoded.body \in Arrivals(encoded.body)
    BY <2>1, SentArrives DEF BodyOf
  <2> HIDE DEF encoded, plain, sent
  <2>5. ASSUME NEW body \in Arrivals(encoded.body)
        PROVE  DecodeBatch("k", body) = sent /\ DecodeBatch("other", body) = Failed
    <3>1. body \in Arrivals(BodyOf("k", flag, plain)) /\ flag \in {Raw, Flate, Zstd}
      BY <2>1
    <3>2. "other" # "k"
      OBVIOUS
    <3>3. /\ DecodeBatch("k", body) = DecodePlain(plain)
          /\ \A other : other # "k" => DecodeBatch(other, body) = Failed
      BY <3>1, ArrivalDecodes
    <3> QED
      BY <2>3, <3>2, <3>3, Zenon
  <2>6. ASSUME NEW body \in Arrivals(OldBody(id, frames))
        PROVE  DecodeBatch("k", body) = sent
    <3>1. body \in Arrivals(BodyOf("k", Flate, plain)) /\ Flate \in {Raw, Flate, Zstd}
      BY <2>2
    <3> QED
      BY <2>3, <3>1, ArrivalDecodes
  <2> QED
    BY <2>4, <2>5, <2>6
<1>4. RoundTrips(id, frames, shrinks) <=>
        /\ encoded.ok <=> fine
        /\ fine => /\ \A body \in Arrivals(encoded.body) \cup Arrivals(OldBody(id, frames)) :
                          DecodeBatch("k", body) = sent
                   /\ DecodeBatch("other", encoded.body) = Failed
  BY Zenon DEF RoundTrips
<1> HIDE DEF sent, fine, encoded, plain
<1> QED
  BY <1>1, <1>2, <1>3, <1>4

\* A field of a byte or more tells at least two numbers apart.
LEMMA PowAboveOne ==
    ASSUME NEW k \in Nat, k > 0
    PROVE  Pow[k] \in Nat /\ Pow[k] > 1
<1> DEFINE p == Pow[k - 1]
           q == Pow[k]
<1>1. k - 1 \in Nat /\ (k - 1) + 1 = k
  OBVIOUS
<1>2. p \in Nat /\ p > 0 /\ Pow[(k - 1) + 1] = Base * p
  BY <1>1, PowDef, Zenon
<1>3. q = Base * p
  BY <1>1, <1>2
<1>4. Base \in Nat /\ Base > 1
  BY CodecConsts
<1> HIDE DEF p, q
<1>5. q \in Nat /\ q > 1
  BY <1>2, <1>3, <1>4
<1> QED
  BY <1>5 DEF q

\* The remainder of a division by Base is a byte.
LEMMA ModIsByte ==
    ASSUME NEW n \in Nat
    PROVE  n % Base \in Byte
<1>1. Base \in Nat /\ Base > 1
  BY CodecConsts
<1> DEFINE r == n % Base
<1>2. r \in Nat /\ r < Base
  BY <1>1
<1> HIDE DEF r
<1>3. r \in 0 .. Base - 1
  BY <1>1, <1>2
<1> QED
  BY <1>3 DEF r, Byte

\* The client id of the run is one of the program.
LEMMA ClientIDIsID == ClientID \in [1..IDLen -> Byte]
  BY ModIsByte DEF ClientID

\* The frames of the run are frames of the program.
LEMMA FramesAreFrames == Frames \subseteq Frame
<1> SUFFICES ASSUME NEW f \in Frames PROVE f \in Frame
  OBVIOUS
<1> DEFINE target(n) == [i \in 1..n |-> i % Base]
           payload(n) == [i \in 1..n |-> (i + 1) % Base]
           id == [i \in 1..IDLen |-> Base - 1]
           P == Pow[SeqBytes]
<1>1. /\ f.id = id
      /\ f.seq = 1 \/ f.seq = P - 1
      /\ f.flags = Base - 1
      /\ \E n \in 0 .. MaxTargetLen + 1 : f.target = target(n)
      /\ \E n \in 0 .. MaxPayload + 1 : f.payload = payload(n)
      /\ f = [id |-> f.id, seq |-> f.seq, flags |-> f.flags,
              target |-> f.target, payload |-> f.payload]
  BY DEF Frames
<1>2. Base - 1 \in Byte
  BY CodecConsts DEF Byte
<1>3. id \in [1..IDLen -> Byte]
  BY <1>2
<1>4. P \in Nat /\ P > 1
  BY CodecConsts, PowAboveOne
<1> HIDE DEF P, id
<1>5. f.seq \in 0 .. P - 1
  BY <1>1, <1>4
<1>6. f.target \in Seq(Byte)
  <2>1. PICK n \in 0 .. MaxTargetLen + 1 : f.target = target(n)
    BY <1>1
  <2>2. n \in Nat
    BY CodecConsts
  <2>3. target(n) \in [1..n -> Byte]
    BY ModIsByte
  <2> HIDE DEF target
  <2> QED
    BY <2>1, <2>2, <2>3, FunctionIsSeq
<1>7. f.payload \in Seq(Byte)
  <2>1. PICK n \in 0 .. MaxPayload + 1 : f.payload = payload(n)
    BY <1>1
  <2>2. n \in Nat
    BY CodecConsts
  <2>3. payload(n) \in [1..n -> Byte]
    <3>1. \A i \in 1..n : i + 1 \in Nat
      BY <2>2
    <3> QED
      BY <3>1, ModIsByte
  <2> HIDE DEF payload
  <2> QED
    BY <2>1, <2>2, <2>3, FunctionIsSeq
<1> HIDE DEF target, payload
<1> QED
  BY <1>1, <1>2, <1>3, <1>5, <1>6, <1>7 DEF Frame, P

\* The batches of the run are batches of the program.
LEMMA BatchesAreFrames ==
    ASSUME NEW b \in Batches
    PROVE  b \in Seq(Frame)
<1> DEFINE P == Pow[CountBytes]
<1>1. P \in Nat /\ P > 1
  BY CodecConsts, PowAboveOne
<1>2. \/ b = <<>>
      \/ \E f \in Frames : b = <<f>>
      \/ \E f, g \in Frames : b = <<f, g>>
      \/ \E n \in {P - 1, P}, f \in Frames : b = [i \in 1..n |-> f]
  BY DEF Batches
<1> HIDE DEF P
<1>3. CASE b = <<>>
  BY <1>3
<1>4. CASE \E f \in Frames : b = <<f>>
  <2>1. PICK f \in Frames : b = <<f>>
    BY <1>4
  <2>2. f \in Frame
    BY FramesAreFrames
  <2> QED
    BY <2>1, <2>2
<1>5. CASE \E f, g \in Frames : b = <<f, g>>
  <2>1. PICK f \in Frames, g \in Frames : b = <<f, g>>
    BY <1>5
  <2>2. f \in Frame /\ g \in Frame
    BY FramesAreFrames
  <2> QED
    BY <2>1, <2>2
<1>6. CASE \E n \in {P - 1, P}, f \in Frames : b = [i \in 1..n |-> f]
  <2>1. PICK n \in {P - 1, P}, f \in Frames : b = [i \in 1..n |-> f]
    BY <1>6
  <2>2. n \in Nat
    BY <1>1
  <2>3. f \in Frame
    BY FramesAreFrames
  <2>4. b \in [1..n -> Frame]
    BY <2>1, <2>3
  <2> QED
    BY <2>2, <2>4, FunctionIsSeq
<1> QED
  BY <1>2, <1>3, <1>4, <1>5, <1>6

\* BatchRoundTrip of every batch of the run, for all widths and limits of the
\* codec: the limits of EncodeBatch and DecodeBatch agree, and no frame is read
\* into the next one.
THEOREM BatchesArrive == Spec => []BatchRoundTrip
<1> DEFINE I == subject = "batch" => batch \in Seq(Frame)
<1>1. Init => I
  <2> SUFFICES ASSUME Init, subject = "batch" PROVE batch \in Seq(Frame)
    OBVIOUS
  <2>1. batch \in Batches
    BY DEF Init
  <2> QED
    BY <2>1, BatchesAreFrames
<1>2. I /\ [Next]_vars => I'
  <2> SUFFICES ASSUME I, [Next]_vars PROVE I'
    OBVIOUS
  <2>1. subject' = subject /\ batch' = batch
    BY DEF Next, vars
  <2> QED
    BY <2>1
<1>3. I => BatchRoundTrip
  <2> SUFFICES ASSUME I, subject = "batch"
               PROVE  /\ \A i \in 1..Len(batch) : SelfDelimiting(batch[i])
                      /\ \A shrinks \in BOOLEAN : RoundTrips(ClientID, batch, shrinks)
    BY DEF BatchRoundTrip
  <2>1. batch \in Seq(Frame)
    OBVIOUS
  <2>2. ASSUME NEW i \in 1..Len(batch)
        PROVE  SelfDelimiting(batch[i])
    <3>1. batch[i] \in Frame
      BY <2>1
    <3> QED
      BY <3>1, EveryFrameDelimited, Zenon
  <2>3. \A shrinks \in BOOLEAN : RoundTrips(ClientID, batch, shrinks)
    BY <2>1, ClientIDIsID, EveryBatchRoundTrips, Zenon
  <2> QED
    BY <2>2, <2>3
<1> QED
  BY <1>1, <1>2, <1>3, PTL DEF Spec

-----------------------------------------------------------------------------
(* The middle of some values. *)

\* A set of numbers has a least element.
LEMMA LeastOf ==
    ASSUME NEW S \in SUBSET Nat, S # {}
    PROVE  \E x \in S : \A y \in S : x <= y
<1> DEFINE R == OpToRel(<, Nat)
<1>1. IsWellFoundedOn(R, Nat)
  BY NatLessThanWellFounded
<1>2. PICK x \in S : \A y \in S : <<y, x>> \notin R
  <2> HIDE DEF R
  <2> QED
    BY <1>1, WFMin
<1>3. \A y \in S : ~(y < x)
  BY <1>2 DEF OpToRel
<1> QED
  BY <1>3

\* Where a function on a finite set is not greater than v, and where it is
\* smaller.
UpTo(D, f, v)  == {x \in D : f[x] <= v}
Below(D, f, v) == {x \in D : f[x] < v}

\* A function on a finite set has a greatest value: the one that most values
\* are not greater than.
LEMMA GreatestValue ==
    ASSUME NEW D, IsFiniteSet(D), D # {}, NEW f, \A x \in D : f[x] \in Nat
    PROVE  \E x \in D : \A y \in D : f[y] <= f[x]
<1> DEFINE n == Cardinality(D)
           c(x) == Cardinality(UpTo(D, f, f[x]))
           gaps == {k \in Nat : \E x \in D : c(x) + k = n}
<1>1. n \in Nat
  BY FS_CardinalityType
<1>2. ASSUME NEW x \in D
      PROVE  /\ UpTo(D, f, f[x]) \in SUBSET D
             /\ IsFiniteSet(UpTo(D, f, f[x])) /\ c(x) \in Nat /\ c(x) <= n
  <2>1. UpTo(D, f, f[x]) \in SUBSET D
    BY DEF UpTo
  <2>2. IsFiniteSet(UpTo(D, f, f[x])) /\ c(x) <= n
    BY <2>1, FS_Subset
  <2> QED
    BY <2>1, <2>2, FS_CardinalityType
<1> HIDE DEF n, c
<1>3. gaps # {}
  <2>1. PICK x \in D : TRUE
    OBVIOUS
  <2>2. n - c(x) \in Nat /\ c(x) + (n - c(x)) = n
    BY <1>1, <1>2
  <2> QED
    BY <2>2
<1>4. PICK k \in gaps : \A j \in gaps : k <= j
  <2> HIDE DEF gaps
  <2>1. gaps \in SUBSET Nat
    BY DEF gaps
  <2> QED
    BY <1>3, <2>1, LeastOf
<1>5. PICK x \in D : c(x) + k = n
  OBVIOUS
<1>6. ASSUME NEW y \in D, ~(f[y] <= f[x])
      PROVE  FALSE
  <2> DEFINE U == UpTo(D, f, f[x])
             V == UpTo(D, f, f[y])
  <2>1. f[x] < f[y] /\ f[x] \in Nat /\ f[y] \in Nat
    BY <1>6
  <2>2. y \notin U
    BY <1>6 DEF UpTo
  <2>3. U \cup {y} \in SUBSET V
    BY <2>1 DEF UpTo
  <2>4. IsFiniteSet(U) /\ IsFiniteSet(V)
    BY <1>2
  <2>5. Cardinality(U \cup {y}) = Cardinality(U) + 1
    <3> HIDE DEF U
    <3> QED
      BY <2>2, <2>4, FS_AddElement
  <2>6. Cardinality(U \cup {y}) <= Cardinality(V)
    <3> HIDE DEF U, V
    <3> QED
      BY <2>3, <2>4, FS_Subset
  <2>7. c(x) + 1 <= c(y)
    BY <2>5, <2>6 DEF c
  <2>8. n - c(y) \in Nat /\ c(y) + (n - c(y)) = n
    BY <1>1, <1>2
  <2>9. n - c(y) \in gaps
    BY <2>8
  <2>10. k <= n - c(y) /\ k \in Nat /\ c(x) \in Nat /\ c(y) \in Nat
    BY <1>2, <1>4, <2>9
  <2> QED
    BY <1>1, <1>5, <2>7, <2>10
<1> QED
  BY <1>6

\* What Middle chooses.
IsMiddle(D, f, v) ==
    /\ v \in {f[x] : x \in D}
    /\ Cardinality(Below(D, f, v)) <= Cardinality(D) \div 2
    /\ Cardinality(UpTo(D, f, v)) > Cardinality(D) \div 2

\* The two parts of a finite set are finite.
LEMMA PartsFinite ==
    ASSUME NEW D, IsFiniteSet(D), NEW f, NEW v
    PROVE  /\ IsFiniteSet(Below(D, f, v)) /\ IsFiniteSet(UpTo(D, f, v))
           /\ Cardinality(Below(D, f, v)) \in Nat /\ Cardinality(UpTo(D, f, v)) \in Nat
           /\ Cardinality(D) \in Nat /\ Cardinality(D) \div 2 \in Nat
<1>1. Below(D, f, v) \in SUBSET D /\ UpTo(D, f, v) \in SUBSET D
  BY DEF Below, UpTo
<1>2. IsFiniteSet(Below(D, f, v)) /\ IsFiniteSet(UpTo(D, f, v))
  BY <1>1, FS_Subset
<1>3. Cardinality(D) \in Nat
  BY FS_CardinalityType
<1>4. Cardinality(D) \div 2 \in Nat
  BY <1>3
<1> QED
  BY <1>2, <1>3, <1>4, FS_CardinalityType

\* There is a middle: the least value that more than half are not greater than.
LEMMA MiddleExists ==
    ASSUME NEW D, IsFiniteSet(D), D # {}, NEW f, \A x \in D : f[x] \in Nat
    PROVE  \E v : IsMiddle(D, f, v)
<1> DEFINE half == Cardinality(D) \div 2
           V == {f[x] : x \in {y \in D : Cardinality(UpTo(D, f, f[y])) > half}}
<1>1. half \in Nat /\ Cardinality(D) > half
  <2> DEFINE n == Cardinality(D)
  <2>1. n \in Nat /\ n # 0
    BY FS_CardinalityType, FS_EmptySet
  <2> HIDE DEF n
  <2>2. n \div 2 \in Nat /\ n > n \div 2
    BY <2>1
  <2> QED
    BY <2>2 DEF n
<1>2. V # {}
  <2>1. PICK x \in D : \A y \in D : f[y] <= f[x]
    BY GreatestValue
  <2>2. UpTo(D, f, f[x]) = D
    BY <2>1 DEF UpTo
  <2> QED
    BY <1>1, <2>2
<1>3. PICK v \in V : \A w \in V : v <= w
  <2>1. V \in SUBSET Nat
    OBVIOUS
  <2> HIDE DEF V
  <2> QED
    BY <1>2, <2>1, LeastOf
<1>4. v \in {f[x] : x \in D} /\ v \in Nat /\ Cardinality(UpTo(D, f, v)) > half
  BY <1>3
<1>5. Cardinality(Below(D, f, v)) <= half
  <2> DEFINE B == Below(D, f, v)
  <2>1. B \subseteq D /\ IsFiniteSet(B) /\ Cardinality(B) \in Nat
    BY PartsFinite DEF Below
  <2>2. SUFFICES ASSUME Cardinality(B) > half PROVE FALSE
    BY <1>1, <2>1
  <2>3. B # {}
    <3> HIDE DEF B
    <3> QED
      BY <1>1, <2>1, <2>2, FS_EmptySet
  <2>4. PICK y \in B : \A z \in B : f[z] <= f[y]
    <3>1. \A z \in B : f[z] \in Nat
      BY <2>1
    <3> HIDE DEF B
    <3> QED
      BY <2>1, <2>3, <3>1, GreatestValue
  <2>5. f[y] < v /\ y \in D /\ f[y] \in Nat
    BY DEF Below
  <2>6. UpTo(D, f, f[y]) = B
    <3>1. ASSUME NEW z \in D
          PROVE  f[z] <= f[y] <=> z \in B
      BY <1>4, <2>4, <2>5 DEF Below
    <3> QED
      BY <2>1, <3>1 DEF UpTo
  <2>7. f[y] \in V
    BY <2>2, <2>5, <2>6
  <2>8. v <= f[y]
    BY <1>3, <2>7, Zenon
  <2> QED
    BY <1>4, <2>5, <2>8
<1> HIDE DEF V
<1> QED
  BY <1>4, <1>5 DEF IsMiddle

\* There is one middle.
LEMMA MiddleUnique ==
    ASSUME NEW D, IsFiniteSet(D), NEW f, \A x \in D : f[x] \in Nat,
           NEW v, IsMiddle(D, f, v), NEW w, IsMiddle(D, f, w)
    PROVE  v = w
<1>1. ASSUME NEW a \in Nat, NEW b \in Nat, IsMiddle(D, f, a), IsMiddle(D, f, b), a < b
      PROVE  FALSE
  <2>1. UpTo(D, f, a) \in SUBSET Below(D, f, b)
    BY <1>1 DEF UpTo, Below
  <2>2. Cardinality(UpTo(D, f, a)) <= Cardinality(Below(D, f, b))
    BY <2>1, PartsFinite, FS_Subset
  <2>3. /\ Cardinality(Below(D, f, b)) <= Cardinality(D) \div 2
        /\ Cardinality(UpTo(D, f, a)) > Cardinality(D) \div 2
    BY <1>1 DEF IsMiddle
  <2> DEFINE p == Cardinality(Below(D, f, b))
             q == Cardinality(UpTo(D, f, a))
             h == Cardinality(D) \div 2
  <2>4. p \in Nat /\ q \in Nat /\ h \in Nat
    BY PartsFinite
  <2> HIDE DEF p, q, h
  <2>5. q <= p /\ p <= h /\ q > h
    BY <2>2, <2>3 DEF p, q, h
  <2> QED
    BY <2>4, <2>5
<1>2. v \in Nat /\ w \in Nat
  BY DEF IsMiddle
<1>3. ~(v < w) /\ ~(w < v)
  BY <1>1, <1>2
<1> QED
  BY <1>2, <1>3

\* Middle is the middle of a function on a finite set.
LEMMA MiddleIs ==
    ASSUME NEW f, IsFiniteSet(DOMAIN f), DOMAIN f # {}, \A x \in DOMAIN f : f[x] \in Nat
    PROVE  IsMiddle(DOMAIN f, f, Middle(f))
<1> DEFINE D == DOMAIN f
           Q(v) == /\ Cardinality(Below(D, f, v)) <= Cardinality(D) \div 2
                   /\ Cardinality(UpTo(D, f, v)) > Cardinality(D) \div 2
           V == {f[x] : x \in D}
<1>1. Middle(f) = CHOOSE v \in V : Q(v)
  BY DEF Middle, Below, UpTo
<1>2. \E v : v \in V /\ Q(v)
  BY MiddleExists DEF IsMiddle
<1> HIDE DEF Q, V
<1>3. Middle(f) \in V /\ Q(Middle(f))
  BY <1>1, <1>2
<1> QED
  BY <1>3 DEF Q, V, IsMiddle

\* Middle is the element at index n / 2, counted from 0, of the n values in any
\* sorted order (the code sorts a copy and takes sorted[len / 2]).
THEOREM MiddleOfSorted ==
    ASSUME NEW f, NEW n \in Nat \ {0}, NEW p \in Bijection(1..n, DOMAIN f),
           \A x \in DOMAIN f : f[x] \in Nat,
           \A i, j \in 1..n : i <= j => f[p[i]] <= f[p[j]]
    PROVE  Middle(f) = f[p[n \div 2 + 1]]
<1> DEFINE D == DOMAIN f
           h == n \div 2
           m == h + 1
           v == f[p[m]]
<1>1. h \in Nat /\ m \in 1..n
  OBVIOUS
<1>2. /\ p \in [1..n -> D]
      /\ \A i, j \in 1..n : p[i] = p[j] => i = j
      /\ \A x \in D : \E i \in 1..n : p[i] = x
  <2>1. p \in Injection(1..n, D) /\ p \in Surjection(1..n, D)
    BY DEF Bijection
  <2>2. p \in [1..n -> D] /\ \A i, j \in 1..n : p[i] = p[j] => i = j
    BY <2>1 DEF Injection, IsInjective
  <2>3. \A x \in D : \E i \in 1..n : p[i] = x
    BY <2>1, Zenon DEF Surjection
  <2> QED
    BY <2>2, <2>3
<1>3. IsFiniteSet(D) /\ Cardinality(D) = n
  <2>1. ExistsBijection(1..n, D)
    BY DEF ExistsBijection
  <2>2. IsFiniteSet(1..n) /\ Cardinality(1..n) = n
    BY FS_Interval
  <2> QED
    BY <2>1, <2>2, FS_Bijection
<1>4. p[m] \in D /\ v \in Nat /\ D # {}
  BY <1>1, <1>2
<1> HIDE DEF h, D, v, m
<1>5. m = h + 1 /\ h \in Nat /\ m \in 1..n
  BY <1>1 DEF m
<1>6. Cardinality(Below(D, f, v)) <= h
  <2> DEFINE B == Below(D, f, v)
             q == [x \in B |-> CHOOSE i \in 1..n : p[i] = x]
  <2>1. ASSUME NEW x \in B
        PROVE  q[x] \in 1..h /\ p[q[x]] = x
    <3>1. x \in D /\ f[x] < v /\ f[x] \in Nat
      BY DEF Below, D
    <3>2. q[x] \in 1..n /\ p[q[x]] = x
      BY <1>2, <3>1
    <3> HIDE DEF q, B
    <3>3. ~(m <= q[x])
      <4>1. SUFFICES ASSUME m <= q[x] PROVE FALSE
        OBVIOUS
      <4>2. v <= f[p[q[x]]]
        BY <1>5, <3>2, <4>1 DEF v
      <4> QED
        BY <1>4, <3>1, <3>2, <4>2
    <3> QED
      BY <1>5, <3>2, <3>3
  <2>2. q \in Injection(B, 1..h)
    <3>1. q \in [B -> 1..h]
      BY <2>1
    <3>2. \A x, y \in B : q[x] = q[y] => x = y
      <4> HIDE DEF q, B
      <4> QED
        BY <2>1
    <3> HIDE DEF q, B
    <3> QED
      BY <3>1, <3>2 DEF Injection, IsInjective
  <2>3. IsFiniteSet(1..h) /\ Cardinality(1..h) = h
    BY <1>5, FS_Interval
  <2>4. Cardinality(B) <= Cardinality(1..h)
    <3> HIDE DEF q, B
    <3> QED
      BY <2>2, <2>3, FS_Injection
  <2> QED
    BY <2>3, <2>4
<1>7. Cardinality(UpTo(D, f, v)) > h
  <2> DEFINE U == UpTo(D, f, v)
             q == [i \in 1..m |-> p[i]]
  <2>1. q \in Injection(1..m, U)
    <3>1. ASSUME NEW i \in 1..m
          PROVE  p[i] \in U
      <4>1. i \in 1..n /\ i <= m
        BY <1>5
      <4>2. p[i] \in D /\ f[p[i]] <= v
        BY <1>2, <1>5, <4>1 DEF v
      <4> QED
        BY <4>2 DEF UpTo
    <3>2. q \in [1..m -> U]
      BY <3>1
    <3>3. ASSUME NEW i \in 1..m, NEW j \in 1..m, q[i] = q[j]
          PROVE  i = j
      <4>1. i \in 1..n /\ j \in 1..n
        BY <1>5
      <4>2. p[i] = p[j]
        BY <3>3
      <4> QED
        BY <1>2, <4>1, <4>2, Zenon
    <3> HIDE DEF q, U
    <3> QED
      BY <3>2, <3>3 DEF Injection, IsInjective
  <2>2. IsFiniteSet(U) /\ Cardinality(U) \in Nat
    BY <1>3, PartsFinite
  <2>3. IsFiniteSet(1..m) /\ Cardinality(1..m) = m
    <3>1. m \in Nat /\ m >= 1
      BY <1>5
    <3>2. 1 \in Int /\ m \in Int /\ ~(1 > m) /\ m - 1 + 1 = m
      BY <3>1
    <3> QED
      BY <3>2, FS_Interval
  <2>4. Cardinality(1..m) <= Cardinality(U)
    <3> HIDE DEF q, U
    <3> QED
      BY <2>1, <2>2, FS_Injection
  <2> HIDE DEF U
  <2>5. Cardinality(U) > h
    BY <1>5, <2>2, <2>3, <2>4
  <2> QED
    BY <2>5 DEF U
<1>8. IsMiddle(D, f, v)
  <2>1. v \in {f[x] : x \in D}
    BY <1>4 DEF v
  <2>2. Cardinality(D) \div 2 = h
    BY <1>3 DEF h
  <2> QED
    BY <1>6, <1>7, <2>1, <2>2 DEF IsMiddle
<1>9. \A x \in D : f[x] \in Nat
  BY DEF D
<1>10. IsMiddle(D, f, Middle(f))
  BY <1>3, <1>4, <1>9, MiddleIs DEF D
<1>11. Middle(f) = v
  BY <1>3, <1>8, <1>9, <1>10, MiddleUnique
<1> QED
  BY <1>11 DEF v, m, h

-----------------------------------------------------------------------------
(* The start-up probe. *)

\* What a body may be, and what an attempt may come to.
Bodies == {"none", "text", "json"}
Answer == [answered : BOOLEAN, status : Nat, body : Bodies, time : Nat]

\* The latency of a host is a time, and the one of a host that passes is the
\* middle of its samples.
LEMMA LatencyIs ==
    ASSUME NEW tries \in Seq(Answer)
    PROVE  Latency(Samples(tries)) \in Nat
<1> DEFINE s == Samples(tries)
           D == DOMAIN s
<1>1. D \in SUBSET (1..Len(tries)) /\ \A k \in D : s[k] \in Nat
  <2>1. \A a \in Answer : a.time \in Nat
    BY Zenon DEF Answer
  <2>2. DOMAIN tries = 1..Len(tries) /\ \A k \in DOMAIN tries : tries[k] \in Answer
    OBVIOUS
  <2> QED
    BY <2>1, <2>2 DEF Samples
<1>2. IsFiniteSet(D)
  <2>1. IsFiniteSet(1..Len(tries))
    BY FS_Interval
  <2> HIDE DEF D
  <2> QED
    BY <1>1, <2>1, FS_Subset
<1> HIDE DEF s
<1>3. CASE D = {}
  BY <1>3 DEF Latency, Ok, s
<1>4. CASE D # {}
  <2>1. IsMiddle(D, s, Middle(s))
    BY <1>1, <1>2, <1>4, MiddleIs
  <2>2. Middle(s) \in Nat
    BY <1>1, <2>1 DEF IsMiddle
  <2> QED
    BY <1>4, <2>2 DEF Latency, Ok, s
<1> QED
  BY <1>3, <1>4

\* Whatever the number of hosts and of attempts at each, and whatever they come
\* to: the probe leaves a host, drops only hosts that failed or are more than
\* three times as slow as one that is kept, keeps two that are faster than one
\* it drops for its latency, and keeps the fastest (filterFrontedClientsByProbe,
\* selectFrontedClientIndexes).
THEOREM EveryProbeKeepsGoodHosts ==
    \A tries \in Seq(Seq(Answer)) : tries # <<>> => KeepsGoodHosts(tries)
<1> SUFFICES ASSUME NEW tries \in Seq(Seq(Answer)), tries # <<>>
             PROVE  KeepsGoodHosts(tries)
  OBVIOUS
<1> DEFINE n == Len(tries)
           results == [i \in DOMAIN tries |-> Samples(tries[i])]
           kept == filterFrontedClientsByProbe(tries, TRUE)
           good == {i \in 1..n : Ok(Samples(tries[i]))}
           slow(i) == Latency(Samples(tries[i]))
           M == Median(results)
           near == {i \in good : slow(i) <= 3 * M}
<1>1. n \in Nat /\ n >= 1 /\ DOMAIN tries = 1..n
  OBVIOUS
<1>2. \A i \in 1..n : slow(i) \in Nat
  BY LatencyIs
<1>3. good \subseteq 1..n /\ IsFiniteSet(good) /\ Cardinality(good) \in Nat
  <2>1. good \in SUBSET (1..n) /\ IsFiniteSet(1..n)
    BY <1>1, FS_Interval
  <2>2. IsFiniteSet(good)
    <3> HIDE DEF good
    <3> QED
      BY <2>1, FS_Subset
  <2> QED
    BY <2>1, <2>2, FS_CardinalityType
<1>4. /\ DOMAIN results = 1..n /\ Len(results) = n
      /\ Successes(results) = good
      /\ \A i \in 1..n : Latency(results[i]) = slow(i)
  <2>1. results = [i \in 1..n |-> Samples(tries[i])]
    BY <1>1
  <2>2. DOMAIN results = 1..n /\ \A i \in 1..n : results[i] = Samples(tries[i])
    BY <2>1
  <2>3. Len(results) = n
    BY <1>1, <2>1
  <2> HIDE DEF results
  <2> QED
    BY <2>2, <2>3 DEF Successes
<1>5. near = {i \in good : Latency(results[i]) <= Threshold(results)}
  BY <1>3, <1>4 DEF Threshold
<1>6. kept = IF n <= 1 \/ good = {} THEN 1..n
             ELSE IF Cardinality(good) <= 2 \/ M = 0 \/ Cardinality(near) < 2 THEN good
             ELSE near
  <2> HIDE DEF near, good, results
  <2>1. kept = IF n <= 1 THEN 1..n ELSE selectFrontedClientIndexes(results)
    BY <1>1 DEF filterFrontedClientsByProbe, results
  <2>2. selectFrontedClientIndexes(results) =
          IF n <= 1 \/ good = {} THEN 1..n
          ELSE IF Cardinality(good) <= 2 \/ M = 0 \/ Cardinality(near) < 2 THEN good
          ELSE near
    BY <1>4, <1>5, Zenon DEF selectFrontedClientIndexes
  <2> QED
    BY <2>1, <2>2, Zenon
<1>7. ASSUME good # {}
      PROVE  M \in Nat /\ \E x \in good : slow(x) = M
  <2> DEFINE g == [i \in good |-> Latency(results[i])]
  <2>1. DOMAIN g = good /\ \A x \in good : g[x] = slow(x) /\ g[x] \in Nat
    BY <1>2, <1>3, <1>4
  <2>2. M = Middle(g)
    BY <1>4 DEF Median
  <2> HIDE DEF g, good, results, slow
  <2>3. IsMiddle(good, g, Middle(g))
    BY <1>3, <1>7, <2>1, MiddleIs
  <2>4. \E x \in good : g[x] = Middle(g)
    BY <2>3 DEF IsMiddle
  <2> QED
    BY <2>1, <2>2, <2>4
<1>8. KeepsGoodHosts(tries) <=>
        /\ kept # {}
        /\ good = {} => kept = 1..n
        /\ good # {} /\ n > 1 => kept \subseteq good
        /\ \A i \in good \ kept :
               /\ Cardinality({j \in kept : slow(j) < slow(i)}) >= 2
               /\ \E j \in kept : slow(i) > 3 * slow(j)
        /\ \A i \in good : (\A j \in good : slow(i) <= slow(j)) => i \in kept
  BY Zenon DEF KeepsGoodHosts
<1> HIDE DEF good, results, slow, kept, n
<1>9. CASE kept = 1..n /\ (n <= 1 \/ good = {})
  <2>1. 1 \in 1..n /\ good \ kept = {}
    BY <1>1, <1>3, <1>9
  <2>2. ~(good # {} /\ n > 1)
    BY <1>1, <1>9
  <2> QED
    BY <1>3, <1>8, <1>9, <2>1, <2>2, Zenon
<1>10. CASE kept = good /\ good # {}
  BY <1>8, <1>10
<1>11. CASE kept = near /\ good # {} /\ ~(Cardinality(near) < 2)
  <2>1. PICK x \in good : slow(x) = M
    BY <1>7, <1>11
  <2>2. M \in Nat /\ M <= 3 * M
    BY <1>7, <1>11
  <2>3. \A i \in good : slow(i) \in Nat
    BY <1>2, <1>3
  <2>4. x \in near
    BY <2>1, <2>2
  <2>5. near \subseteq good /\ IsFiniteSet(near) /\ Cardinality(near) \in Nat
    <3>1. near \in SUBSET good
      OBVIOUS
    <3> HIDE DEF near
    <3> QED
      BY <1>3, <3>1, FS_Subset, FS_CardinalityType
  <2>6. ASSUME NEW i \in good \ near
        PROVE  /\ Cardinality({j \in near : slow(j) < slow(i)}) >= 2
               /\ slow(i) > 3 * slow(x)
    <3>1. slow(i) > 3 * M
      BY <2>2, <2>3
    <3>2. \A j \in near : slow(j) < slow(i)
      BY <2>2, <2>3, <3>1
    <3>3. {j \in near : slow(j) < slow(i)} = near
      <4> HIDE DEF near
      <4> QED
        BY <3>2
    <3>4. Cardinality(near) >= 2
      BY <1>11, <2>5
    <3> QED
      BY <2>1, <3>1, <3>3, <3>4
  <2>7. ASSUME NEW i \in good, \A j \in good : slow(i) <= slow(j)
        PROVE  i \in near
    <3>1. slow(i) <= M
      BY <2>1, <2>7
    <3> QED
      BY <2>2, <2>3, <3>1
  <2> HIDE DEF near
  <2> QED
    BY <1>8, <1>11, <2>4, <2>5, <2>6, <2>7
<1> HIDE DEF near
<1> QED
  BY <1>6, <1>9, <1>10, <1>11

\* Of three hosts or more that pass, at least two are within the threshold,
\* whatever the latencies: the test of selectFrontedClientIndexes for fewer than
\* two survivors never holds.
THEOREM TwoSurvive ==
    ASSUME NEW results, IsFiniteSet(Successes(results)), Cardinality(Successes(results)) > 2,
           \A i \in Successes(results) : Latency(results[i]) \in Nat
    PROVE  Cardinality({i \in Successes(results) : Latency(results[i]) <= Threshold(results)}) >= 2
<1> DEFINE good == Successes(results)
           g == [i \in good |-> Latency(results[i])]
           M == Median(results)
           U == UpTo(good, g, M)
           near == {i \in good : Latency(results[i]) <= Threshold(results)}
           n == Cardinality(good)
<1>1. n \in Nat /\ n > 2 /\ good # {}
  BY FS_CardinalityType, FS_EmptySet
<1>2. DOMAIN g = good /\ \A i \in good : g[i] = Latency(results[i]) /\ g[i] \in Nat
  OBVIOUS
<1>3. M = Middle(g)
  BY DEF Median
<1> HIDE DEF g, good
<1>4. IsMiddle(good, g, M)
  BY <1>1, <1>2, <1>3, MiddleIs DEF good
<1>5. M \in Nat /\ Cardinality(U) > n \div 2
  BY <1>2, <1>4 DEF IsMiddle
<1>6. U \in SUBSET near
  <2>1. Threshold(results) = 3 * M
    BY DEF Threshold
  <2> HIDE DEF M
  <2>2. ASSUME NEW i \in good, g[i] <= M
        PROVE  Latency(results[i]) <= Threshold(results)
    BY <1>2, <1>5, <2>1, <2>2
  <2> QED
    BY <2>2 DEF UpTo
<1>7. near \in SUBSET good /\ IsFiniteSet(good)
  BY DEF good
<1> HIDE DEF near, U
<1>8. IsFiniteSet(near) /\ Cardinality(near) \in Nat
  BY <1>7, FS_Subset, FS_CardinalityType
<1>9. Cardinality(U) <= Cardinality(near) /\ Cardinality(U) \in Nat
  BY <1>6, <1>8, FS_Subset, FS_CardinalityType
<1> HIDE DEF n
<1>10. n \div 2 \in Nat /\ n \div 2 >= 1
  BY <1>1
<1>11. Cardinality(near) >= 2
  BY <1>5, <1>8, <1>9, <1>10
<1> QED
  BY <1>11 DEF near, good

\* The fields of an answer.
LEMMA AnswerIs ==
    ASSUME NEW a \in BOOLEAN, NEW s \in Nat, NEW b \in Bodies, NEW t \in Nat
    PROVE  [answered |-> a, status |-> s, body |-> b, time |-> t] \in Answer
  BY Zenon DEF Answer

\* The attempts of the run are attempts of the program.
LEMMA AttemptsAreAnswers == Attempts \subseteq Seq(Answer)
<1>0. /\ 0 \in Nat /\ 200 \in Nat /\ 403 \in Nat /\ \A t \in Times : t \in Nat
      /\ "none" \in Bodies /\ "text" \in Bodies /\ "json" \in Bodies
  BY ProbeAssumption DEF Bodies
<1>1. \A b \in Bad : b \in Answer
  <2> DEFINE none == [answered |-> FALSE, status |-> 0, body |-> "none", time |-> 0]
             denied == [answered |-> TRUE, status |-> 403, body |-> "text", time |-> 0]
             json == [answered |-> TRUE, status |-> 200, body |-> "json", time |-> 0]
  <2>1. none \in Answer
    BY <1>0, AnswerIs, Zenon
  <2>2. denied \in Answer
    BY <1>0, AnswerIs, Zenon
  <2>3. json \in Answer
    BY <1>0, AnswerIs, Zenon
  <2>4. Bad = {none, denied, json}
    BY Zenon DEF Bad
  <2> HIDE DEF none, denied, json
  <2> QED
    BY <2>1, <2>2, <2>3, <2>4
<1>2. ASSUME NEW t \in Times
      PROVE  Good(t) \in Answer
  <2>1. [answered |-> TRUE, status |-> 200, body |-> "text", time |-> t] \in Answer
    BY <1>0, AnswerIs, Zenon
  <2> QED
    BY <2>1, Zenon DEF Good
<1>3. ASSUME NEW a \in Attempts
      PROVE  \E b, c \in Answer : a = <<b, c>>
  <2>1. \/ \E b \in Bad : a = <<b, b>>
        \/ \E b \in Bad, t \in Times : a = <<b, Good(t)>>
        \/ \E q \in Times \X Times : a = <<Good(q[1]), Good(q[2])>>
    BY DEF Attempts
  <2>2. CASE \E b \in Bad : a = <<b, b>>
    BY <1>1, <2>2
  <2>3. CASE \E b \in Bad, t \in Times : a = <<b, Good(t)>>
    BY <1>1, <1>2, <2>3
  <2>4. CASE \E q \in Times \X Times : a = <<Good(q[1]), Good(q[2])>>
    <3>1. PICK q \in Times \X Times : a = <<Good(q[1]), Good(q[2])>>
      BY <2>4
    <3>2. q[1] \in Times /\ q[2] \in Times
      OBVIOUS
    <3> QED
      BY <1>2, <3>1, <3>2
  <2> QED
    BY <2>1, <2>2, <2>3, <2>4
<1>4. \A b, c \in Answer : <<b, c>> \in Seq(Answer)
  OBVIOUS
<1> QED
  BY <1>3, <1>4

\* ProbeKeepsGoodHosts for any number of hosts and any times.
THEOREM ProbesKeepGoodHosts == Spec => []ProbeKeepsGoodHosts
<1> DEFINE I == subject = "probe" => attempts \in Seq(Seq(Answer)) /\ attempts # <<>>
<1>1. Init => I
  <2> SUFFICES ASSUME Init, subject = "probe"
               PROVE  attempts \in Seq(Seq(Answer)) /\ attempts # <<>>
    OBVIOUS
  <2>1. PICK n \in 1..ProbedHosts : attempts \in [1..n -> Attempts]
    BY DEF Init
  <2>2. n \in Nat /\ n >= 1
    BY ProbeAssumption
  <2>3. attempts \in [1..n -> Seq(Answer)]
    BY <2>1, AttemptsAreAnswers
  <2>4. attempts \in Seq(Seq(Answer)) /\ Len(attempts) = n
    BY <2>2, <2>3, FunctionIsSeq
  <2> QED
    BY <2>2, <2>4
<1>2. I /\ [Next]_vars => I'
  <2> SUFFICES ASSUME I, [Next]_vars PROVE I'
    OBVIOUS
  <2>1. subject' = subject /\ attempts' = attempts
    BY DEF Next, vars
  <2> QED
    BY <2>1
<1>3. I => ProbeKeepsGoodHosts
  BY EveryProbeKeepsGoodHosts, Zenon DEF ProbeKeepsGoodHosts
<1> QED
  BY <1>1, <1>2, <1>3, PTL DEF Spec

-----------------------------------------------------------------------------
(* The coalescing of kicks. *)

\* Types, and the deadline of the last burst, which has only come nearer.
KickType ==
    /\ coalesceTimer \in Timers \cup {NoTimer}
    /\ coalesceDeadline \in Nat /\ coalesceDeadline <= Burst
    /\ armed \subseteq Timers
    /\ left \in [Timers -> Nat]
    /\ func \in [Timers -> {"none", "lock", "wake"}]
    /\ waiting \in BOOLEAN
    /\ age \in Nat

\* The timer the client knows of will fire before the deadline, or has fired
\* and has not cleared it yet.
TimerComes ==
    coalesceTimer # NoTimer =>
        \/ func[coalesceTimer] = "lock"
        \/ coalesceTimer \in armed /\ left[coalesceTimer] <= coalesceDeadline

\* Unless a wake-up is imminent, a kick that waits is the timer's, and the
\* deadline is within Burst of it.
KickIsTimed ==
    waiting /\ (\A t \in Timers : func[t] # "wake") =>
        coalesceTimer # NoTimer /\ coalesceDeadline + age <= Burst

\* The inductive invariant.
Inv == KickType /\ TimerComes /\ KickIsTimed /\ KickWithinBurst

\* The constants.
LEMMA Consts == Step \in Nat /\ Step > 0 /\ Burst \in Nat /\ Step <= Burst
  BY StepAssumption, BurstAssumption

\* The initial state.
LEMMA InitInv == KickInit => Inv
  <1> SUFFICES ASSUME KickInit PROVE Inv
    OBVIOUS
  <1>0. 0 \in Nat /\ 0 <= Burst
    BY Consts
  <1>1. KickType
    BY <1>0 DEF KickInit, KickType
  <1>2. TimerComes /\ KickIsTimed /\ KickWithinBurst
    BY DEF KickInit, TimerComes, KickIsTimed, KickWithinBurst
  <1> QED
    BY <1>1, <1>2 DEF Inv

\* A first kick: either nobody waits, or a wake-up is imminent.
LEMMA FirstKickInv ==
    ASSUME Inv, NEW t \in Timers, FirstKick(t)
    PROVE  Inv'
  <1>1. KickType'
    BY Consts DEF Inv, KickType, FirstKick, KickWaits
  <1>2. TimerComes'
    BY Consts DEF Inv, KickType, TimerComes, FirstKick
  <1>3. KickIsTimed' /\ KickWithinBurst'
    BY Consts, TimerAssumption DEF Inv, KickType, KickIsTimed, KickWithinBurst, FirstKick, KickWaits
  <1> QED
    BY <1>1, <1>2, <1>3 DEF Inv

\* A further kick puts the timer off, to the deadline at most.
LEMMA FurtherKickInv ==
    ASSUME Inv, FurtherKick
    PROVE  Inv'
  <1>0. NextWait \in Nat /\ NextWait <= coalesceDeadline
    BY Consts DEF NextWait, Inv, KickType
  <1>1. KickType'
    BY <1>0 DEF Inv, KickType, FurtherKick, KickWaits
  <1>2. TimerComes'
    <2>1. CASE NextWait = 0
      BY <2>1 DEF Inv, TimerComes, FurtherKick
    <2>2. CASE NextWait # 0
      <3>1. coalesceTimer \in Timers /\ coalesceTimer' = coalesceTimer
        BY DEF Inv, KickType, FurtherKick
      <3>2. coalesceTimer \in armed' /\ left'[coalesceTimer] = NextWait
        BY <2>2, <3>1 DEF Inv, KickType, FurtherKick
      <3>3. coalesceDeadline' = coalesceDeadline
        BY DEF FurtherKick
      <3> QED
        BY <1>0, <3>1, <3>2, <3>3 DEF TimerComes
    <2> QED
      BY <2>1, <2>2
  <1>3. KickIsTimed' /\ KickWithinBurst'
    BY Consts DEF Inv, KickType, KickIsTimed, KickWithinBurst, FurtherKick, KickWaits
  <1> QED
    BY <1>1, <1>2, <1>3 DEF Inv

\* A timer that fires is about to clear the client's, if it is that one.
LEMMA FireInv ==
    ASSUME Inv, NEW t \in Timers, Fire(t)
    PROVE  Inv'
  <1>1. KickType'
    BY DEF Inv, KickType, Fire
  <1>2. TimerComes'
    BY DEF Inv, KickType, TimerComes, Fire
  <1>3. KickIsTimed' /\ KickWithinBurst'
    BY DEF Inv, KickType, KickIsTimed, KickWithinBurst, Fire
  <1> QED
    BY <1>1, <1>2, <1>3 DEF Inv

\* The client forgets its timer, and a wake-up is imminent.
LEMMA ClearInv ==
    ASSUME Inv, NEW t \in Timers, Clear(t)
    PROVE  Inv'
  <1>1. KickType'
    BY DEF Inv, KickType, Clear
  <1>2. TimerComes'
    BY DEF TimerComes, Clear
  <1>3. func'[t] = "wake"
    BY DEF Inv, KickType, Clear
  <1>4. KickIsTimed' /\ KickWithinBurst'
    BY <1>3 DEF Inv, KickIsTimed, KickWithinBurst, Clear
  <1> QED
    BY <1>1, <1>2, <1>4 DEF Inv

\* Nobody waits after a wake-up.
LEMMA WakeInv ==
    ASSUME Inv, NEW t \in Timers, Wake(t)
    PROVE  Inv'
  <1>1. KickType'
    BY DEF Inv, KickType, Wake
  <1>2. TimerComes'
    BY DEF Inv, KickType, TimerComes, Wake
  <1>3. KickIsTimed' /\ KickWithinBurst'
    BY DEF KickIsTimed, KickWithinBurst, Wake
  <1> QED
    BY <1>1, <1>2, <1>3 DEF Inv

\* Time passes only while the timer of every kick that waits is still to fire,
\* so its deadline has not been reached.
LEMMA KickTickInv ==
    ASSUME Inv, KickTick
    PROVE  Inv'
  <1>0. coalesceTimer # NoTimer =>
          /\ coalesceTimer \in armed /\ left[coalesceTimer] > 0
          /\ left[coalesceTimer] <= coalesceDeadline
    BY DEF Inv, KickType, TimerComes, KickTick
  <1>1. KickType'
    BY Consts DEF Inv, KickType, KickTick
  <1>2. TimerComes'
    BY <1>0 DEF Inv, KickType, TimerComes, KickTick
  <1>3. waiting => coalesceDeadline > 0 /\ coalesceDeadline + age <= Burst
    BY <1>0, Consts DEF Inv, KickType, KickIsTimed, KickTick
  <1>4. KickIsTimed' /\ KickWithinBurst'
    BY <1>0, <1>3, Consts DEF Inv, KickType, KickIsTimed, KickWithinBurst, KickTick
  <1> QED
    BY <1>1, <1>2, <1>4 DEF Inv

\* Every step.
LEMMA NextInv == Inv /\ [KickNext]_kickVars => Inv'
  <1> SUFFICES ASSUME Inv, [KickNext]_kickVars PROVE Inv'
    OBVIOUS
  <1>1. CASE \E t \in Timers : FirstKick(t) \/ Fire(t) \/ Clear(t) \/ Wake(t)
    BY <1>1, FirstKickInv, FireInv, ClearInv, WakeInv
  <1>2. CASE FurtherKick
    BY <1>2, FurtherKickInv
  <1>3. CASE KickTick
    BY <1>3, KickTickInv
  <1>4. CASE UNCHANGED kickVars
    BY <1>4 DEF kickVars, Inv, KickType, TimerComes, KickIsTimed, KickWithinBurst
  <1> QED
    BY <1>1, <1>2, <1>3, <1>4 DEF KickNext

\* No kick waits longer than coalesceMax for its wake-up (kick and
\* fireCoalesceWake), for every step, cap and number of timers.
THEOREM KickBounded == KickSpec => []KickWithinBurst
  <1>1. Inv => KickWithinBurst
    BY DEF Inv
  <1> QED
    BY InitInv, NextInv, <1>1, PTL DEF KickSpec

-----------------------------------------------------------------------------
(* The daily counter. *)

\* The clock and the counter.
QuotaType ==
    /\ date \in 1..Len(DayHours)
    /\ hour \in Nat /\ hour < DayHours[date]
    /\ midnight \in Nat \ {0}
    /\ dailyCount \in Nat /\ dailyResetAt \in Nat /\ today \in Nat

\* The day before lost an hour, which its window still counts on.
AfterShortDay == date > 1 /\ DayHours[date - 1] < Day

\* An endpoint that was never touched has counted nothing, and no window ends
\* later than today's.
WindowBounded ==
    /\ dailyResetAt = 0 => dailyCount = 0 /\ today = 0
    /\ dailyResetAt <= midnight + Day

\* The window is today's, with today's count until it elapses, or it ended by
\* midnight and nothing was received since.
WindowOfToday ==
    \/ dailyResetAt = midnight + Day /\ (hour < Day => dailyCount = today)
    \/ dailyResetAt <= midnight /\ today = 0

\* The inductive invariant.
QuotaInv == QuotaType /\ WindowBounded /\ (AfterShortDay \/ WindowOfToday)

\* The hours of a day.
LEMMA HoursOfDay ==
    ASSUME NEW d \in 1..Len(DayHours)
    PROVE  /\ Day \in Nat /\ Day >= 2 /\ Len(DayHours) \in Nat
           /\ DayHours[d] \in {Day - 1, Day, Day + 1}
  BY DayAssumption, HoursAssumption

\* The initial state.
LEMMA QuotaInitInv == QuotaInit => QuotaInv
<1> SUFFICES ASSUME QuotaInit PROVE QuotaInv
  OBVIOUS
<1>1. 1 \in 1..Len(DayHours)
  BY HoursAssumption
<1> QED
  BY <1>1, HoursOfDay DEF QuotaInit, QuotaInv, QuotaType, WindowBounded, WindowOfToday

\* touchDailyWindow, with k more responses.
LEMMA TouchInv ==
    ASSUME QuotaInv, NEW k \in Nat, dailyCount' = CountNow + k, today' = today + k,
           dailyResetAt' = WindowNow, UNCHANGED clock
    PROVE  QuotaInv'
<1>1. Day \in Nat /\ Day >= 2 /\ date \in 1..Len(DayHours)
  BY HoursOfDay DEF QuotaInv, QuotaType
<1>2. UNCHANGED <<date, hour, midnight>>
  BY DEF clock
<1>3. CountNow \in Nat /\ WindowNow \in Nat \ {0} /\ WindowNow <= midnight + Day
  BY <1>1 DEF QuotaInv, QuotaType, WindowBounded, CountNow, WindowNow, nextQuotaReset
<1>4. QuotaType'
  BY <1>2, <1>3 DEF QuotaInv, QuotaType
<1>5. WindowBounded'
  BY <1>2, <1>3 DEF WindowBounded
<1>6. ASSUME WindowOfToday PROVE WindowOfToday'
  <2>1. WindowNow = midnight + Day
    BY <1>1, <1>6 DEF QuotaInv, QuotaType, WindowOfToday, WindowNow, nextQuotaReset, Elapsed, now
  <2>2. hour < Day => CountNow = today
    BY <1>1, <1>6 DEF QuotaInv, QuotaType, WindowBounded, WindowOfToday, CountNow, Elapsed, now
  <2> QED
    BY <1>2, <2>1, <2>2 DEF WindowOfToday
<1> QED
  BY <1>2, <1>4, <1>5, <1>6 DEF QuotaInv, AfterShortDay

\* The clock: an hour, or a new day.
LEMMA TickInv ==
    ASSUME QuotaInv, Tick
    PROVE  QuotaInv'
<1>1. /\ date \in 1..Len(DayHours) /\ Len(DayHours) \in Nat /\ Day \in Nat /\ Day >= 2
      /\ DayHours[date] \in {Day - 1, Day, Day + 1}
      /\ UNCHANGED <<dailyCount, dailyResetAt>>
  BY HoursOfDay DEF QuotaInv, QuotaType, Tick, endpoint
<1>2. CASE hour + 1 < DayHours[date]
  BY <1>1, <1>2 DEF Tick, QuotaInv, QuotaType, WindowBounded, WindowOfToday, AfterShortDay
<1>3. CASE ~(hour + 1 < DayHours[date])
  <2>1. /\ date < Len(DayHours) /\ date' = date + 1 /\ hour' = 0 /\ today' = 0
        /\ midnight' = midnight + DayHours[date]
    BY <1>3 DEF Tick
  <2>2. date' \in 1..Len(DayHours) /\ 0 < DayHours[date']
    <3>1. date' \in 1..Len(DayHours)
      BY <1>1, <2>1
    <3> QED
      BY <1>1, <3>1, HoursOfDay
  <2>3. QuotaType'
    BY <1>1, <2>1, <2>2 DEF QuotaInv, QuotaType
  <2>4. WindowBounded'
    BY <1>1, <2>1 DEF QuotaInv, QuotaType, WindowBounded
  <2>5. AfterShortDay' \/ WindowOfToday'
    BY <1>1, <2>1 DEF QuotaInv, QuotaType, WindowBounded, WindowOfToday, AfterShortDay
  <2> QED
    BY <2>3, <2>4, <2>5 DEF QuotaInv
<1> QED
  BY <1>2, <1>3

\* Every step of the counter.
LEMMA QuotaNextInv == QuotaInv /\ [QuotaNext]_quotaVars => QuotaInv'
<1> SUFFICES ASSUME QuotaInv, [QuotaNext]_quotaVars PROVE QuotaInv'
  OBVIOUS
<1>1. CASE PollAnswered \/ (\E n \in 0..1 : ScriptStats(n)) \/ ScriptStatsUnreadable
  BY <1>1, TouchInv DEF PollAnswered, ScriptStats, ScriptStatsUnreadable, bumpDailyCount
<1>2. CASE StatsLine
  <2>1. CountNow \in Nat /\ today \in Nat
    BY DEF CountNow, QuotaInv, QuotaType
  <2>2. dailyCount' = CountNow + 0 /\ today' = today + 0
    BY <1>2, <2>1 DEF StatsLine
  <2> QED
    BY <1>2, <2>2, TouchInv DEF StatsLine
<1>3. CASE Tick
  BY <1>3, TickInv
<1>4. CASE UNCHANGED quotaVars
  BY <1>4 DEF quotaVars, clock, endpoint, QuotaInv, QuotaType, WindowBounded, WindowOfToday,
              AfterShortDay
<1> QED
  BY <1>1, <1>2, <1>3, <1>4 DEF QuotaNext

\* The count that endpointStatsLine prints is that of the responses since
\* midnight, on every day but the one after a short one and except in the last
\* hour of a long one, for every succession of days: touchDailyWindow resets at
\* the right time however long the endpoint was idle.
THEOREM CountIsTodays == QuotaSpec => []CountsToday
<1>1. QuotaInv => CountsToday
  <2> SUFFICES ASSUME QuotaInv, ~AfterShortDay PROVE CountsToday
    BY DEF CountsToday, AfterShortDay
  <2>1. Day \in Nat /\ DayHours[date] \in {Day - 1, Day, Day + 1}
    BY HoursOfDay DEF QuotaInv, QuotaType
  <2> QED
    BY <2>1 DEF QuotaInv, QuotaType, WindowBounded, WindowOfToday, CountsToday, CountNow,
                Elapsed, now
<1> QED
  BY <1>1, QuotaInitInv, QuotaNextInv, PTL DEF QuotaSpec

=============================================================================
