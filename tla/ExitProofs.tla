----------------------------- MODULE ExitProofs ------------------------------
(***************************************************************************)
(* The exit's handlers, for any number of clients, sessions and handlers   *)
(* and for every cap and budget.                                           *)
(*                                                                         *)
(* drainAll adds up what it takes and drops sessions from a sequence, so   *)
(* the first part is about sums and sequences: the folds of the library    *)
(* are recursive functions, and what they compute follows by induction     *)
(* over a cardinality or a length.                                         *)
(***************************************************************************)
EXTENDS Exit, FiniteSetTheorems, SequenceTheorems, WellFoundedInduction, TLAPS

(* Sums over finite sets. *)

\* Induction over the natural numbers, for a set.
LEMMA SetInduction ==
    ASSUME NEW S, 0 \in S, \A n \in Nat : n \in S => n + 1 \in S
    PROVE  Nat \subseteq S
<1> DEFINE T == Nat \ S
           R == OpToRel(<, Nat)
<1>1. IsWellFoundedOn(R, Nat)
  BY NatLessThanWellFounded
<1>2. SUFFICES ASSUME T # {} PROVE FALSE
  OBVIOUS
<1>3. PICK x \in T : \A y \in T : <<y, x>> \notin R
  <2> HIDE DEF R
  <2> QED
    BY <1>1, <1>2, WFMin
<1>4. \A y \in T : ~(y < x)
  BY <1>3 DEF OpToRel
<1>5. x # 0 /\ x - 1 \in Nat
  OBVIOUS
<1>6. x - 1 \in S
  BY <1>4, <1>5
<1> QED
  BY <1>5, <1>6

\* The recursion of the fold.
Taken(s) == CHOOSE x \in s : TRUE
IsSum(f, S, g) ==
    g = [s \in SUBSET S |-> IF s = {} THEN 0 ELSE f[Taken(s)] + g[s \ {Taken(s)}]]

\* The sum is the fold.
LEMMA SumDef ==
    ASSUME NEW f, NEW S
    PROVE  SumFunctionOnSet(f, S) = (CHOOSE g : IsSum(f, S, g))[S]
  BY DEF SumFunctionOnSet, FoldFunctionOnSet, MapThenFoldSet, IsSum, Taken

\* A set without the element the fold takes.
LEMMA TakenSmaller ==
    ASSUME NEW S, IsFiniteSet(S), NEW T \in SUBSET S, T # {}
    PROVE  /\ Taken(T) \in T /\ T \ {Taken(T)} \in SUBSET S
           /\ Cardinality(T) \in Nat /\ Cardinality(T) > 0
           /\ Cardinality(T \ {Taken(T)}) = Cardinality(T) - 1
<1>1. Taken(T) \in T
  BY DEF Taken
<1>2. IsFiniteSet(T)
  BY FS_Subset
<1>3. Cardinality(T) \in Nat /\ Cardinality(T) # 0
  BY <1>2, FS_CardinalityType, FS_EmptySet
<1>4. Cardinality(T \ {Taken(T)}) = Cardinality(T) - 1
  BY <1>1, <1>2, FS_RemoveElement
<1> QED
  BY <1>1, <1>3, <1>4

\* The recursion has a solution.
LEMMA FoldExists ==
    ASSUME NEW S, IsFiniteSet(S), NEW f, \A x \in S : f[x] \in Nat
    PROVE  \E g \in [SUBSET S -> Nat] : IsSum(f, S, g)
<1> DEFINE Sub(n) == {s \in SUBSET S : Cardinality(s) <= n}
           Solves(g, n) == \A s \in Sub(n) : g[s] = IF s = {} THEN 0
                                                   ELSE f[Taken(s)] + g[s \ {Taken(s)}]
           N == {n \in Nat : \E g \in [Sub(n) -> Nat] : Solves(g, n)}
<1>0. \A s \in SUBSET S : Cardinality(s) \in Nat /\ (Cardinality(s) = 0 <=> s = {})
  <2> TAKE s \in SUBSET S
  <2>1. IsFiniteSet(s)
    BY FS_Subset
  <2> QED
    BY <2>1, FS_CardinalityType, FS_EmptySet
<1>1. 0 \in N
  <2> DEFINE g == [s \in Sub(0) |-> 0]
  <2>1. \A s \in Sub(0) : s = {}
    BY <1>0
  <2>2. g \in [Sub(0) -> Nat] /\ Solves(g, 0)
    BY <2>1
  <2> QED
    BY <2>2
<1>2. ASSUME NEW n \in Nat, n \in N
      PROVE  n + 1 \in N
  <2>1. PICK g \in [Sub(n) -> Nat] : Solves(g, n)
    BY <1>2
  <2> DEFINE k == [s \in Sub(n + 1) |-> IF s \in Sub(n) THEN g[s]
                                        ELSE f[Taken(s)] + g[s \ {Taken(s)}]]
  <2>2. ASSUME NEW s \in Sub(n + 1), s # {}
        PROVE  s \ {Taken(s)} \in Sub(n) /\ Taken(s) \in S
    <3>1. /\ Taken(s) \in s /\ s \ {Taken(s)} \in SUBSET S
          /\ Cardinality(s) \in Nat
          /\ Cardinality(s \ {Taken(s)}) = Cardinality(s) - 1
      BY <2>2, TakenSmaller
    <3>2. Cardinality(s) <= n + 1
      OBVIOUS
    <3>3. Cardinality(s \ {Taken(s)}) <= n
      BY <3>1, <3>2
    <3> QED
      BY <3>1, <3>3
  <2>3. {} \in Sub(n)
    BY <1>0
  <2>4. \A s \in Sub(n) : s \in Sub(n + 1)
    BY <1>0
  <2> HIDE DEF Sub
  <2>5. k \in [Sub(n + 1) -> Nat]
    <3>1. ASSUME NEW s \in Sub(n + 1)
          PROVE  (IF s \in Sub(n) THEN g[s] ELSE f[Taken(s)] + g[s \ {Taken(s)}]) \in Nat
      <4>1. CASE s \in Sub(n)
        BY <4>1
      <4>2. CASE s \notin Sub(n)
        <5>1. s # {}
          BY <2>3, <4>2
        <5>2. f[Taken(s)] \in Nat /\ g[s \ {Taken(s)}] \in Nat
          BY <2>2, <5>1
        <5> QED
          BY <4>2, <5>2
      <4> QED
        BY <4>1, <4>2
    <3> QED
      BY <3>1
  <2>6. Solves(k, n + 1)
    <3> SUFFICES ASSUME NEW s \in Sub(n + 1)
                 PROVE  k[s] = IF s = {} THEN 0 ELSE f[Taken(s)] + k[s \ {Taken(s)}]
      OBVIOUS
    <3>1. CASE s = {}
      BY <2>1, <2>3, <3>1
    <3>2. CASE s # {}
      <4>1. s \ {Taken(s)} \in Sub(n)
        BY <2>2, <3>2
      <4>2. k[s \ {Taken(s)}] = g[s \ {Taken(s)}]
        BY <2>4, <4>1
      <4>3. s \in Sub(n) => g[s] = f[Taken(s)] + g[s \ {Taken(s)}]
        BY <2>1, <3>2
      <4>4. k[s] = f[Taken(s)] + g[s \ {Taken(s)}]
        BY <4>3
      <4> QED
        BY <3>2, <4>2, <4>4
    <3> QED
      BY <3>1, <3>2
  <2> HIDE DEF k, Solves
  <2>7. \E j \in [Sub(n + 1) -> Nat] : Solves(j, n + 1)
    BY <2>5, <2>6
  <2> QED
    BY <2>7
<1>3. Nat \subseteq N
  <2> HIDE DEF N
  <2> QED
    BY <1>1, <1>2, SetInduction
<1>4. Cardinality(S) \in Nat /\ Sub(Cardinality(S)) = SUBSET S
  BY FS_CardinalityType, FS_Subset
<1>5. PICK g \in [SUBSET S -> Nat] : Solves(g, Cardinality(S))
  BY <1>3, <1>4
<1>6. g = [s \in SUBSET S |-> IF s = {} THEN 0 ELSE f[Taken(s)] + g[s \ {Taken(s)}]]
  BY <1>4, <1>5
<1> QED
  BY <1>6 DEF IsSum

\* And on a smaller set no other.
LEMMA FoldUnique ==
    ASSUME NEW S, IsFiniteSet(S), NEW T \in SUBSET S, NEW f, NEW g, NEW k,
           IsSum(f, S, g), IsSum(f, T, k)
    PROVE  \A u \in SUBSET T : g[u] = k[u]
<1> DEFINE N == {n \in Nat : \A u \in SUBSET T : Cardinality(u) = n => g[u] = k[u]}
<1>0. /\ \A u \in SUBSET S : g[u] = IF u = {} THEN 0 ELSE f[Taken(u)] + g[u \ {Taken(u)}]
      /\ \A u \in SUBSET T : k[u] = IF u = {} THEN 0 ELSE f[Taken(u)] + k[u \ {Taken(u)}]
  <2> DEFINE G(u) == IF u = {} THEN 0 ELSE f[Taken(u)] + g[u \ {Taken(u)}]
             K(u) == IF u = {} THEN 0 ELSE f[Taken(u)] + k[u \ {Taken(u)}]
  <2>1. g = [u \in SUBSET S |-> G(u)] /\ k = [u \in SUBSET T |-> K(u)]
    BY DEF IsSum
  <2> HIDE DEF G, K
  <2>2. (\A u \in SUBSET S : g[u] = G(u)) /\ (\A u \in SUBSET T : k[u] = K(u))
    BY <2>1
  <2> QED
    BY <2>2 DEF G, K
<1>1. \A u \in SUBSET T : Cardinality(u) \in Nat /\ (Cardinality(u) = 0 <=> u = {})
  <2> TAKE u \in SUBSET T
  <2>1. IsFiniteSet(u)
    BY FS_Subset
  <2> QED
    BY <2>1, FS_CardinalityType, FS_EmptySet
<1>2. 0 \in N
  BY <1>0, <1>1
<1>3. ASSUME NEW n \in Nat, n \in N
      PROVE  n + 1 \in N
  <2> SUFFICES ASSUME NEW u \in SUBSET T, Cardinality(u) = n + 1
               PROVE  g[u] = k[u]
    OBVIOUS
  <2>1. u # {}
    BY <1>1
  <2>2. /\ Taken(u) \in u /\ Cardinality(u \ {Taken(u)}) = Cardinality(u) - 1
    BY <2>1, TakenSmaller
  <2>3. Cardinality(u \ {Taken(u)}) = n /\ u \ {Taken(u)} \in SUBSET T
    BY <2>2
  <2>4. g[u \ {Taken(u)}] = k[u \ {Taken(u)}]
    BY <1>3, <2>3
  <2> QED
    BY <1>0, <2>1, <2>4
<1>4. Nat \subseteq N
  <2> HIDE DEF N
  <2> QED
    BY <1>2, <1>3, SetInduction
<1> QED
  BY <1>1, <1>4

\* The sums over the subsets of S.
AreSums(f, S, g) ==
    /\ \A T \in SUBSET S : SumFunctionOnSet(f, T) = g[T]
    /\ g[{}] = 0
    /\ \A T \in SUBSET S : T # {} => g[T] = f[Taken(T)] + g[T \ {Taken(T)}]

\* One function has all the sums over the subsets of S.
LEMMA SumRecursion ==
    ASSUME NEW S, IsFiniteSet(S), NEW f, \A x \in S : f[x] \in Nat
    PROVE  \E g \in [SUBSET S -> Nat] : AreSums(f, S, g)
<1>1. PICK g \in [SUBSET S -> Nat] : IsSum(f, S, g)
  BY FoldExists
<1>2. ASSUME NEW T \in SUBSET S
      PROVE  SumFunctionOnSet(f, T) = g[T]
  <2> DEFINE k == CHOOSE k : IsSum(f, T, k)
  <2>1. IsFiniteSet(T) /\ \A x \in T : f[x] \in Nat
    BY FS_Subset
  <2>2. \E k1 : IsSum(f, T, k1)
    BY <2>1, FoldExists
  <2>3. IsSum(f, T, k)
    BY <2>2
  <2>4. SumFunctionOnSet(f, T) = k[T]
    BY SumDef
  <2> HIDE DEF k
  <2> QED
    BY <1>1, <2>3, <2>4, FoldUnique
<1>3. /\ g[{}] = 0
      /\ \A T \in SUBSET S : T # {} => g[T] = f[Taken(T)] + g[T \ {Taken(T)}]
  <2> DEFINE G(u) == IF u = {} THEN 0 ELSE f[Taken(u)] + g[u \ {Taken(u)}]
  <2>1. g = [u \in SUBSET S |-> G(u)]
    BY <1>1 DEF IsSum
  <2> HIDE DEF G
  <2>2. \A u \in SUBSET S : g[u] = G(u)
    BY <2>1
  <2> QED
    BY <2>2 DEF G
<1> QED
  BY <1>2, <1>3 DEF AreSums

\* Any element may be taken first.
LEMMA SumFacts ==
    ASSUME NEW S, IsFiniteSet(S), NEW f, \A x \in S : f[x] \in Nat
    PROVE  /\ \A T \in SUBSET S : SumFunctionOnSet(f, T) \in Nat
           /\ SumFunctionOnSet(f, {}) = 0
           /\ \A T \in SUBSET S : \A x \in T :
                SumFunctionOnSet(f, T) = f[x] + SumFunctionOnSet(f, T \ {x})
<1>0. PICK g \in [SUBSET S -> Nat] : AreSums(f, S, g)
  BY SumRecursion
<1>1. /\ \A T \in SUBSET S : SumFunctionOnSet(f, T) = g[T]
      /\ g[{}] = 0
      /\ \A T \in SUBSET S : T # {} => g[T] = f[Taken(T)] + g[T \ {Taken(T)}]
  BY <1>0 DEF AreSums
<1> DEFINE N == {n \in Nat : \A T \in SUBSET S : Cardinality(T) = n =>
                               \A x \in T : g[T] = f[x] + g[T \ {x}]}
<1>2. \A u \in SUBSET S : Cardinality(u) \in Nat /\ (Cardinality(u) = 0 <=> u = {})
  <2> TAKE u \in SUBSET S
  <2>1. IsFiniteSet(u)
    BY FS_Subset
  <2> QED
    BY <2>1, FS_CardinalityType, FS_EmptySet
<1>3. 0 \in N
  BY <1>2
<1>4. ASSUME NEW n \in Nat, n \in N
      PROVE  n + 1 \in N
  <2> SUFFICES ASSUME NEW T \in SUBSET S, Cardinality(T) = n + 1, NEW x \in T
               PROVE  g[T] = f[x] + g[T \ {x}]
    OBVIOUS
  <2> DEFINE y == Taken(T)
  <2>1. y \in T /\ g[T] = f[y] + g[T \ {y}]
    BY <1>1, TakenSmaller
  <2> HIDE DEF y
  <2>2. IsFiniteSet(T)
    BY FS_Subset
  <2>3. \A z \in T : T \ {z} \in SUBSET S /\ Cardinality(T \ {z}) = n
    <3> TAKE z \in T
    <3>1. Cardinality(T \ {z}) = Cardinality(T) - 1
      BY <2>2, FS_RemoveElement
    <3> QED
      BY <3>1
  <2>4. CASE x = y
    BY <2>1, <2>4
  <2>5. CASE x # y
    <3>1. x \in T \ {y} /\ y \in T \ {x} /\ (T \ {y}) \ {x} = (T \ {x}) \ {y}
      BY <2>1, <2>5
    <3>2. g[T \ {y}] = f[x] + g[(T \ {y}) \ {x}]
      BY <1>4, <2>1, <2>3, <3>1
    <3>3. g[T \ {x}] = f[y] + g[(T \ {x}) \ {y}]
      BY <1>4, <2>3, <3>1
    <3>4. f[x] \in Nat /\ f[y] \in Nat /\ g[(T \ {x}) \ {y}] \in Nat
      BY <2>1
    <3>5. \A a, b, c \in Nat : a + (b + c) = b + (a + c)
      OBVIOUS
    <3>6. f[y] + (f[x] + g[(T \ {x}) \ {y}]) = f[x] + (f[y] + g[(T \ {x}) \ {y}])
      BY <3>4, <3>5, Zenon
    <3> QED
      BY <2>1, <3>1, <3>2, <3>3, <3>6, Zenon
  <2> QED
    BY <2>4, <2>5
<1>5. Nat \subseteq N
  <2> HIDE DEF N
  <2> QED
    BY <1>3, <1>4, SetInduction
<1>6. \A T \in SUBSET S : \A x \in T : g[T] = f[x] + g[T \ {x}]
  BY <1>2, <1>5
<1>7. {} \in SUBSET S /\ \A T \in SUBSET S : \A x : T \ {x} \in SUBSET S
  OBVIOUS
<1> QED
  BY <1>1, <1>6, <1>7

\* Summands that are zero may be left out.
LEMMA SumZero ==
    ASSUME NEW S, IsFiniteSet(S), NEW f, \A x \in S : f[x] \in Nat,
           NEW U \in SUBSET S, \A x \in S \ U : f[x] = 0
    PROVE  SumFunctionOnSet(f, S) = SumFunctionOnSet(f, U)
<1> DEFINE Sum(T) == SumFunctionOnSet(f, T)
           N == {n \in Nat : \A T \in SUBSET S :
                    U \subseteq T /\ Cardinality(T) = n => Sum(T) = Sum(U)}
<1>1. /\ \A T \in SUBSET S : Sum(T) \in Nat
      /\ \A T \in SUBSET S : \A x \in T : Sum(T) = f[x] + Sum(T \ {x})
  BY SumFacts
<1> HIDE DEF Sum
<1>2. \A u \in SUBSET S : IsFiniteSet(u) /\ Cardinality(u) \in Nat
                            /\ (Cardinality(u) = 0 <=> u = {})
  <2> TAKE u \in SUBSET S
  <2>1. IsFiniteSet(u)
    BY FS_Subset
  <2> QED
    BY <2>1, FS_CardinalityType, FS_EmptySet
<1>3. 0 \in N
  <2> SUFFICES ASSUME NEW T \in SUBSET S, U \subseteq T, Cardinality(T) = 0
               PROVE  Sum(T) = Sum(U)
    OBVIOUS
  <2>1. T = {} /\ U = {}
    BY <1>2
  <2> QED
    BY <2>1
<1>4. ASSUME NEW n \in Nat, n \in N
      PROVE  n + 1 \in N
  <2> SUFFICES ASSUME NEW T \in SUBSET S, U \subseteq T, Cardinality(T) = n + 1
               PROVE  Sum(T) = Sum(U)
    OBVIOUS
  <2>1. CASE T = U
    BY <2>1
  <2>2. CASE T # U
    <3>1. PICK x \in T : x \notin U
      BY <2>2
    <3>2. Cardinality(T \ {x}) = n
      <4>1. Cardinality(T \ {x}) = Cardinality(T) - 1
        BY <1>2, FS_RemoveElement
      <4> QED
        BY <4>1
    <3>3. T \ {x} \in SUBSET S /\ U \subseteq T \ {x}
      BY <3>1
    <3>4. Sum(T \ {x}) = Sum(U)
      BY <1>4, <3>2, <3>3
    <3>5. f[x] = 0 /\ Sum(U) \in Nat /\ Sum(T) = f[x] + Sum(T \ {x})
      BY <1>1, <3>1
    <3> QED
      BY <3>4, <3>5
  <2> QED
    BY <2>1, <2>2
<1>5. Nat \subseteq N
  <2> HIDE DEF N
  <2> QED
    BY <1>3, <1>4, SetInduction
<1>6. Sum(S) = Sum(U)
  BY <1>2, <1>5
<1> QED
  BY <1>6 DEF Sum
-----------------------------------------------------------------------------
(* Sequences. *)

NoDuplicates(s) == \A i, j \in 1..Len(s) : s[i] = s[j] => i = j

\* The recursion of Without.
IsWithout(s, K, F) ==
    F = [i \in 0..Len(s) |-> IF i = 0 THEN <<>> ELSE IF s[i] \in K THEN F[i - 1]
                             ELSE Append(F[i - 1], s[i])]

\* Without is the last value of the recursion.
LEMMA WithoutDef ==
    ASSUME NEW s, NEW K
    PROVE  Without(s, K) = (CHOOSE F : IsWithout(s, K, F))[Len(s)]
  BY DEF Without, IsWithout

\* The recursion has a solution.
LEMMA WithoutExists ==
    ASSUME NEW S, NEW s \in Seq(S), NEW K
    PROVE  \E F \in [0..Len(s) -> Seq(S)] : IsWithout(s, K, F)
<1> DEFINE Step(F, i) == IF i = 0 THEN <<>> ELSE IF s[i] \in K THEN F[i - 1]
                         ELSE Append(F[i - 1], s[i])
           Solves(F, n) == \A i \in 0..n : F[i] = Step(F, i)
           N == {n \in Nat : n <= Len(s) => \E F \in [0..n -> Seq(S)] : Solves(F, n)}
<1>1. 0 \in N
  <2> DEFINE F == [i \in 0..0 |-> <<>>]
  <2>1. F \in [0..0 -> Seq(S)] /\ Solves(F, 0)
    BY EmptySeq
  <2> HIDE DEF F, Solves
  <2>2. \E G \in [0..0 -> Seq(S)] : Solves(G, 0)
    BY <2>1
  <2> QED
    BY <2>2
<1>2. ASSUME NEW n \in Nat, n \in N
      PROVE  n + 1 \in N
  <2> SUFFICES ASSUME n + 1 <= Len(s)
               PROVE  \E G \in [0..(n + 1) -> Seq(S)] : Solves(G, n + 1)
    <3> HIDE DEF Solves
    <3> QED OBVIOUS
  <2>1. PICK F \in [0..n -> Seq(S)] : Solves(F, n)
    <3>1. n <= Len(s)
      OBVIOUS
    <3> HIDE DEF Solves
    <3> QED
      BY <1>2, <3>1
  <2> DEFINE G == [i \in 0..(n + 1) |-> IF i \in 0..n THEN F[i]
                                        ELSE IF s[n + 1] \in K THEN F[n]
                                        ELSE Append(F[n], s[n + 1])]
  <2>2. s[n + 1] \in S /\ F[n] \in Seq(S)
    BY ElementOfSeq
  <2>3. Append(F[n], s[n + 1]) \in Seq(S)
    BY <2>2, AppendProperties
  <2>4. G \in [0..(n + 1) -> Seq(S)]
    BY <2>2, <2>3
  <2>5. \A i \in 0..n : G[i] = F[i]
    OBVIOUS
  <2>6. G[n + 1] = IF s[n + 1] \in K THEN F[n] ELSE Append(F[n], s[n + 1])
    OBVIOUS
  <2> HIDE DEF G
  <2>7. ASSUME NEW i \in 0..(n + 1)
        PROVE  G[i] = Step(G, i)
    <3>1. CASE i = n + 1
      BY <2>5, <2>6, <3>1
    <3>2. CASE i = 0
      BY <2>1, <2>5, <3>2
    <3>3. CASE i \in 1..n
      <4>1. i - 1 \in 0..n /\ i \in 0..n /\ i # 0
        BY <3>3
      <4>2. F[i] = Step(F, i)
        BY <2>1, <4>1
      <4> QED
        BY <2>5, <4>1, <4>2
    <3> QED
      BY <3>1, <3>2, <3>3
  <2>8. Solves(G, n + 1)
    BY <2>7
  <2> HIDE DEF Solves
  <2> QED
    BY <2>4, <2>8
<1>3. Nat \subseteq N
  <2> HIDE DEF N
  <2> QED
    BY <1>1, <1>2, SetInduction
<1>4. Len(s) \in Nat
  OBVIOUS
<1>5. PICK F \in [0..Len(s) -> Seq(S)] : Solves(F, Len(s))
  <2> HIDE DEF Solves
  <2> QED
    BY <1>3, <1>4
<1> HIDE DEF Step
<1>6. F = [i \in 0..Len(s) |-> Step(F, i)]
  BY <1>5
<1> QED
  BY <1>6 DEF IsWithout, Step

\* Without removes the members of K, keeps every other member, and repeats none.
LEMMA WithoutProperties ==
    ASSUME NEW S, NEW s \in Seq(S), NEW K, NoDuplicates(s)
    PROVE  /\ Without(s, K) \in Seq(S)
           /\ NoDuplicates(Without(s, K))
           /\ \A x : x \in Range(Without(s, K)) <=> x \in Range(s) /\ x \notin K
<1> DEFINE F == CHOOSE F : IsWithout(s, K, F)
           Step(i) == IF i = 0 THEN <<>> ELSE IF s[i] \in K THEN F[i - 1]
                      ELSE Append(F[i - 1], s[i])
<1>1. IsWithout(s, K, F) /\ Without(s, K) = F[Len(s)] /\ Len(s) \in Nat
  BY WithoutExists, WithoutDef
<1> HIDE DEF F
<1>2. F = [i \in 0..Len(s) |-> Step(i)]
  BY <1>1 DEF IsWithout
<1> HIDE DEF Step
<1>3. \A i \in 0..Len(s) : F[i] = Step(i)
  BY <1>2
<1> DEFINE Prefix(n) == {s[i] : i \in 1..n} \ K
           Good(n) == /\ F[n] \in Seq(S) /\ NoDuplicates(F[n])
                      /\ \A i \in 1..Len(F[n]) : F[n][i] \in Prefix(n)
                      /\ \A x \in Prefix(n) : \E i \in 1..Len(F[n]) : F[n][i] = x
           N == {n \in Nat : n <= Len(s) => Good(n)}
<1>4. 0 \in N
  <2>1. F[0] = <<>>
    BY <1>1, <1>3 DEF Step
  <2>2. <<>> \in Seq(S) /\ Len(<<>>) = 0
    BY EmptySeq
  <2>3. Prefix(0) = {}
    OBVIOUS
  <2> HIDE DEF Prefix
  <2>4. Good(0)
    BY <2>1, <2>2, <2>3 DEF NoDuplicates
  <2> QED
    BY <2>4
<1>5. ASSUME NEW n \in Nat, n \in N
      PROVE  n + 1 \in N
  <2> SUFFICES ASSUME n + 1 <= Len(s) PROVE Good(n + 1)
    <3> HIDE DEF Good
    <3> QED OBVIOUS
  <2>1. Good(n)
    <3> HIDE DEF Good
    <3> QED BY <1>1, <1>5
  <2>2. n + 1 \in 0..Len(s) /\ n + 1 \in 1..Len(s) /\ (n + 1) - 1 = n /\ n + 1 # 0
    BY <1>1
  <2>3. s[n + 1] \in S
    BY <2>2, ElementOfSeq
  <2>4. F[n + 1] = IF s[n + 1] \in K THEN F[n] ELSE Append(F[n], s[n + 1])
    BY <1>3, <2>2 DEF Step
  <2>5. Prefix(n + 1) = Prefix(n) \cup ({s[n + 1]} \ K)
    <3>1. 1..(n + 1) = (1..n) \cup {n + 1}
      OBVIOUS
    <3> QED
      BY <3>1
  <2>6. CASE s[n + 1] \in K
    <3>1. Prefix(n + 1) = Prefix(n) /\ F[n + 1] = F[n]
      BY <2>4, <2>5, <2>6
    <3> HIDE DEF Prefix
    <3> QED
      BY <2>1, <3>1
  <2>7. CASE s[n + 1] \notin K
    <3> DEFINE e == s[n + 1]
               q == F[n]
    <3>1. s[n + 1] \notin Prefix(n)
      <4> SUFFICES ASSUME NEW i \in 1..n PROVE s[i] # s[n + 1]
        OBVIOUS
      <4>1. i \in 1..Len(s) /\ i # n + 1
        BY <2>2
      <4> QED
        BY <2>2, <4>1 DEF NoDuplicates
    <3>2. Prefix(n + 1) = Prefix(n) \cup {e} /\ F[n + 1] = Append(q, e) /\ e \in S
      BY <2>3, <2>4, <2>5, <2>7
    <3> HIDE DEF Prefix, e
    <3>3. /\ q \in Seq(S) /\ Len(q) \in Nat /\ NoDuplicates(q)
          /\ \A i \in 1..Len(q) : q[i] \in Prefix(n)
          /\ \A x \in Prefix(n) : \E i \in 1..Len(q) : q[i] = x
      BY <2>1
    <3>4. e \notin Prefix(n)
      BY <3>1 DEF e
    <3> HIDE DEF q
    <3>5. /\ Append(q, e) \in Seq(S) /\ Len(Append(q, e)) = Len(q) + 1
          /\ \A i \in 1..Len(q) : Append(q, e)[i] = q[i]
          /\ Append(q, e)[Len(q) + 1] = e
      BY <3>2, <3>3, AppendProperties
    <3>6. \A i \in 1..(Len(q) + 1) : i \in 1..Len(q) \/ i = Len(q) + 1
      BY <3>3
    <3>7. NoDuplicates(Append(q, e))
      <4> SUFFICES ASSUME NEW i \in 1..(Len(q) + 1), NEW j \in 1..(Len(q) + 1),
                          Append(q, e)[i] = Append(q, e)[j]
                   PROVE  i = j
        BY <3>5 DEF NoDuplicates
      <4>1. CASE i \in 1..Len(q) /\ j \in 1..Len(q)
        BY <3>3, <3>5, <4>1 DEF NoDuplicates
      <4>2. CASE i \in 1..Len(q) /\ j = Len(q) + 1
        BY <3>3, <3>4, <3>5, <4>2
      <4>3. CASE i = Len(q) + 1 /\ j \in 1..Len(q)
        BY <3>3, <3>4, <3>5, <4>3
      <4>4. CASE i = Len(q) + 1 /\ j = Len(q) + 1
        BY <4>4
      <4> QED
        BY <3>6, <4>1, <4>2, <4>3, <4>4
    <3>8. \A i \in 1..(Len(q) + 1) : Append(q, e)[i] \in Prefix(n) \cup {e}
      BY <3>3, <3>5, <3>6
    <3>9. \A x \in Prefix(n) \cup {e} : \E i \in 1..(Len(q) + 1) : Append(q, e)[i] = x
      <4> TAKE x \in Prefix(n) \cup {e}
      <4>1. CASE x = e
        <5>1. Len(q) + 1 \in 1..(Len(q) + 1)
          BY <3>3
        <5> QED
          BY <3>5, <4>1, <5>1
      <4>2. CASE x \in Prefix(n)
        <5>1. PICK i \in 1..Len(q) : q[i] = x
          BY <3>3, <4>2
        <5>2. i \in 1..(Len(q) + 1)
          BY <3>3
        <5> QED
          BY <3>5, <5>1, <5>2
      <4> QED
        BY <4>1, <4>2
    <3> QED
      BY <3>2, <3>5, <3>7, <3>8, <3>9
  <2> QED
    BY <2>6, <2>7
<1>6. Nat \subseteq N
  <2> HIDE DEF N
  <2> QED
    BY <1>4, <1>5, SetInduction
<1>7. Good(Len(s))
  <2> HIDE DEF Good
  <2> QED
    BY <1>1, <1>6
<1>8. Prefix(Len(s)) = Range(s) \ K
  BY <1>1 DEF Range
<1> HIDE DEF Prefix
<1>9. Range(F[Len(s)]) = Prefix(Len(s))
  <2>1. DOMAIN F[Len(s)] = 1..Len(F[Len(s)])
    BY <1>7
  <2> QED
    BY <1>7, <2>1 DEF Range
<1> QED
  BY <1>1, <1>7, <1>8, <1>9

-----------------------------------------------------------------------------
(* Types, but for the wake channels. *)

SessType ==
    /\ table \in [Sessions -> {"none", "in", "out"}]
    /\ data \in [Sessions -> 0..MaxData]
    /\ closeReq \in [Sessions -> BOOLEAN]
    /\ finSent \in [Sessions -> BOOLEAN]
    /\ age \in Seq(Sessions) /\ NoDuplicates(age)
    /\ pump \in [Sessions -> {"run", "ready", "kick"}]
    /\ txReady \subseteq Sessions
    /\ firstReply \subseteq Sessions
    /\ ctrl \in [Clients -> 0..MaxCtrl]

HandlerType ==
    /\ pc \in [Handlers -> HandlerStates]
    /\ client \in [Handlers -> Clients \cup {NoClient}]
    /\ late \in [Handlers -> BOOLEAN]
    /\ from \in [Handlers -> SUBSET Sessions]
    /\ out \in [Handlers -> Nat]
    /\ bytes \in [Handlers -> Nat]
    /\ \A h \in Handlers : pc[h] # "off" => client[h] \in Clients

\* A session gets a queue timestamp.
LEMMA QueuedProperties ==
    ASSUME SessType, NEW s \in Sessions
    PROVE  /\ Queued(s) \in Seq(Sessions) /\ NoDuplicates(Queued(s))
           /\ \A x : x \in Range(Queued(s)) <=> x \in Range(age) \/ x = s
<1>1. age \in Seq(Sessions) /\ Len(age) \in Nat /\ NoDuplicates(age)
  BY DEF SessType
<1>2. \A t \in Seq(Sessions) : Range(t) = {t[i] : i \in 1..Len(t)}
  BY DEF Range
<1>3. CASE s \in Range(age)
  BY <1>1, <1>3 DEF Queued
<1>4. CASE s \notin Range(age)
  <2>1. /\ Queued(s) \in Seq(Sessions) /\ Len(Queued(s)) = Len(age) + 1
        /\ \A i \in 1..Len(age) : Queued(s)[i] = age[i]
        /\ Queued(s)[Len(age) + 1] = s
    BY <1>1, <1>4, AppendProperties DEF Queued
  <2>2. \A i \in 1..(Len(age) + 1) : i \in 1..Len(age) \/ i = Len(age) + 1
    BY <1>1
  <2>3. \A i \in 1..Len(age) : age[i] # s /\ i \in 1..(Len(age) + 1)
    BY <1>1, <1>2, <1>4
  <2>4. NoDuplicates(Queued(s))
    BY <1>1, <2>1, <2>2, <2>3 DEF NoDuplicates
  <2>5. Len(age) + 1 \in 1..(Len(age) + 1)
    BY <1>1
  <2>6. \A x : x \in Range(Queued(s)) <=> x \in Range(age) \/ x = s
    BY <1>1, <1>2, <2>1, <2>2, <2>3, <2>5
  <2> QED
    BY <2>1, <2>4, <2>6
<1> QED
  BY <1>3, <1>4

-----------------------------------------------------------------------------
(* What drainAll takes. *)

\* The caps are numbers.
LEMMA CapTypes ==
    /\ PerSession \in Nat /\ PerSession > 0 /\ Budget \in Nat /\ Budget > 0
    /\ FrameCap \in Nat /\ MaxData \in Nat /\ MaxCtrl \in Nat /\ CoalesceMin \in Nat
  BY CapAssumption, BoundAssumption DEF FrameCap

\* What a session has to send: its payload frames, and the FIN when it is due.
LEMMA FramesType ==
    ASSUME SessType, NEW s \in Sessions
    PROVE  /\ data[s] \in Nat /\ Frames(s) \in Nat
           /\ FinDue(s) => Frames(s) = data[s] + 1
           /\ ~FinDue(s) => Frames(s) = data[s]
<1>1. data[s] \in Nat
  BY CapTypes DEF SessType
<1> QED
  BY <1>1 DEF Frames

\* Frames and payload of each session, and who may give any.
LEMMA DrainFacts ==
    ASSUME SessType, NEW c, NEW d \in Drains, NEW budget, IsDrain(d, c, budget),
           NEW s \in Sessions
    PROVE  /\ d[s] \in Nat /\ d[s] <= PerSession /\ d[s] <= Frames(s)
           /\ d[s] > 0 => s \in Visited(d, c, budget)
           /\ Payload(d)[s] = MinOf(d[s], data[s])
           /\ Payload(d)[s] \in Nat /\ Payload(d)[s] <= d[s] /\ Payload(d)[s] <= data[s]
<1>1. PerSession \in Nat /\ FrameCap \in Nat
  BY CapTypes
<1>2. \A x \in Sessions : d[x] \in Nat /\ d[x] <= PerSession
  BY <1>1 DEF Drains
<1>3. data[s] \in Nat /\ Frames(s) \in Nat
  BY FramesType
<1>4. Room(d, c, s) \in Int
  <2>1. Before(c, s) \in SUBSET Sessions
    BY DEF Before, Drainable, InTable
  <2>2. SumFunctionOnSet(d, Before(c, s)) \in Nat
    BY <1>2, <2>1, FiniteAssumption, SumFacts
  <2> QED
    BY <1>1, <2>2 DEF Room
<1>5. d[s] = IF s \in Visited(d, c, budget)
             THEN MinOf(MinOf(Frames(s), PerSession), Room(d, c, s)) ELSE 0
  BY DEF IsDrain
<1>6. d[s] <= Frames(s)
  BY <1>1, <1>3, <1>4, <1>5 DEF MinOf
<1>7. d[s] > 0 => s \in Visited(d, c, budget)
  BY <1>5
<1>8. Payload(d)[s] = MinOf(d[s], data[s])
  BY DEF Payload
<1> QED
  BY <1>2, <1>3, <1>6, <1>7, <1>8 DEF MinOf

\* A session after a drain.
LEMMA DrainedSession ==
    ASSUME SessType, NEW h, NEW d \in Drains, NEW budget, DrainAll(h, d, budget),
           UNCHANGED closeReq, NEW s \in Sessions
    PROVE  /\ data'[s] \in 0..MaxData /\ finSent'[s] \in BOOLEAN
           /\ finSent'[s] => finSent[s] \/ (closeReq[s] /\ data'[s] = 0)
           /\ data[s] = 0 => data'[s] = 0
           /\ HasPendingTx(s)' => HasPendingTx(s) /\ s \notin Emptied(d, client[h], budget)
<1>1. /\ IsDrain(d, client[h], budget)
      /\ data' = [x \in Sessions |-> data[x] - Payload(d)[x]]
      /\ finSent' = [x \in Sessions |-> finSent[x] \/ d[x] > data[x]]
  BY DEF DrainAll
<1>2. /\ d[s] \in Nat /\ d[s] <= Frames(s)
      /\ Payload(d)[s] = MinOf(d[s], data[s])
  BY <1>1, DrainFacts
<1>3. /\ data[s] \in Nat /\ Frames(s) \in Nat /\ data[s] <= MaxData /\ MaxData \in Nat
      /\ FinDue(s) => Frames(s) = data[s] + 1
      /\ ~FinDue(s) => Frames(s) = data[s]
  BY FramesType, CapTypes DEF SessType
<1>4. /\ d[s] <= data[s] => Payload(d)[s] = d[s]
      /\ d[s] > data[s] => Payload(d)[s] = data[s]
  BY <1>2, <1>3 DEF MinOf
<1>5. data'[s] = data[s] - Payload(d)[s]
  BY <1>1
<1>6. finSent'[s] \in BOOLEAN /\ (finSent'[s] <=> finSent[s] \/ d[s] > data[s])
  BY <1>1
<1>7. data'[s] \in 0..MaxData /\ (data[s] = 0 => data'[s] = 0)
  BY <1>2, <1>3, <1>4, <1>5
<1>8. d[s] > data[s] => FinDue(s) /\ data'[s] = 0
  BY <1>2, <1>3, <1>4, <1>5
<1>9. finSent'[s] => finSent[s] \/ (closeReq[s] /\ data'[s] = 0)
  BY <1>6, <1>8 DEF FinDue
<1>10. /\ HasPendingTx(s)' <=> data'[s] > 0 \/ (closeReq[s] /\ ~finSent'[s])
       /\ HasPendingTx(s) <=> data[s] > 0 \/ (closeReq[s] /\ ~finSent[s])
       /\ FinDue(s) <=> closeReq[s] /\ ~finSent[s]
  BY DEF HasPendingTx, FinDue
<1>11. HasPendingTx(s)' => HasPendingTx(s)
  <2>1. data'[s] > 0 => data[s] > 0
    BY <1>3, <1>7
  <2> QED
    BY <1>6, <1>10, <2>1
<1>12. ASSUME s \in Emptied(d, client[h], budget)
       PROVE  ~HasPendingTx(s)'
  <2>1. d[s] = Frames(s)
    BY <1>12 DEF Emptied
  <2>2. CASE FinDue(s)
    <3>1. d[s] > data[s]
      BY <1>3, <2>1, <2>2
    <3>2. ~(data'[s] > 0) /\ finSent'[s]
      BY <1>6, <1>8, <3>1
    <3> QED
      BY <1>10, <3>2
  <2>3. CASE ~FinDue(s)
    <3>1. ~(data'[s] > 0)
      BY <1>2, <1>3, <1>4, <1>5, <2>1, <2>3
    <3> QED
      BY <1>6, <1>10, <2>3, <3>1
  <2> QED
    BY <2>2, <2>3
<1> QED
  BY <1>6, <1>7, <1>9, <1>11, <1>12

-----------------------------------------------------------------------------
(* Sessions. *)

\* A FIN is the last frame, what waits has a timestamp, and nothing waits in a
\* session that is not open yet.
SessInv ==
    /\ \A s \in Sessions : finSent[s] => closeReq[s] /\ data[s] = 0
    /\ \A s \in Sessions : HasPendingTx(s) => s \in Range(age)
    /\ \A s \in Sessions : table[s] = "none" => data[s] = 0 /\ ~closeReq[s]
    /\ NoStrandedSession

\* The drains of a poll, by what they do to the sessions.
Drain(h, d, budget) ==
    DrainAll(h, d, budget) /\ UNCHANGED <<table, closeReq, pump>>

\* A drain keeps the types of the sessions.
LEMMA DrainSessType ==
    ASSUME SessType, NEW h, client[h] \in Clients, NEW d \in Drains, NEW budget,
           Drain(h, d, budget)
    PROVE  SessType'
<1>1. /\ DrainAll(h, d, budget) /\ UNCHANGED <<table, closeReq, pump>>
      /\ data' = [x \in Sessions |-> data[x] - Payload(d)[x]]
      /\ finSent' = [x \in Sessions |-> finSent[x] \/ d[x] > data[x]]
      /\ age' = Without(age, Emptied(d, client[h], budget))
      /\ txReady' \subseteq txReady /\ firstReply' \subseteq firstReply
      /\ ctrl' = [ctrl EXCEPT ![client[h]] = 0]
  BY DEF Drain, DrainAll
<1>2. \A s \in Sessions : data'[s] \in 0..MaxData /\ finSent'[s] \in BOOLEAN
  BY <1>1, DrainedSession
<1>3. data' \in [Sessions -> 0..MaxData] /\ finSent' \in [Sessions -> BOOLEAN]
  BY <1>1, <1>2
<1>4. age' \in Seq(Sessions) /\ NoDuplicates(age')
  BY <1>1, WithoutProperties DEF SessType
<1>5. ctrl' \in [Clients -> 0..MaxCtrl]
  BY <1>1, CapTypes DEF SessType
<1> QED
  BY <1>1, <1>3, <1>4, <1>5 DEF SessType

\* A drain strands nothing: what it leaves behind stays in txReady.
LEMMA DrainSessInv ==
    ASSUME SessType, SessInv, NEW h, NEW d \in Drains, NEW budget, Drain(h, d, budget)
    PROVE  SessInv'
<1> DEFINE E == Emptied(d, client[h], budget)
<1>1. /\ DrainAll(h, d, budget) /\ UNCHANGED <<table, closeReq, pump>>
      /\ age' = Without(age, E)
      /\ txReady' = {s \in txReady : s \in InTable} \ E
  BY DEF Drain, DrainAll
<1> HIDE DEF E
<1>2. \A s \in Sessions :
        /\ finSent'[s] => finSent[s] \/ (closeReq[s] /\ data'[s] = 0)
        /\ data[s] = 0 => data'[s] = 0
        /\ HasPendingTx(s)' => HasPendingTx(s) /\ s \notin E
  BY <1>1, DrainedSession DEF E
<1>3. \A s \in Sessions : finSent'[s] => closeReq'[s] /\ data'[s] = 0
  BY <1>1, <1>2 DEF SessInv
<1>4. \A x : x \in Range(age') <=> x \in Range(age) /\ x \notin E
  BY <1>1, WithoutProperties DEF SessType
<1>5. \A s \in Sessions : HasPendingTx(s)' => s \in Range(age')
  BY <1>2, <1>4 DEF SessInv
<1>6. \A s \in Sessions : table'[s] = "none" => data'[s] = 0 /\ ~closeReq'[s]
  BY <1>1, <1>2 DEF SessInv
<1>7. InTable' = InTable
  BY <1>1 DEF InTable
<1>8. \A s \in InTable' : HasPendingTx(s)' => s \in txReady' \/ pump'[s] = "ready"
  <2> SUFFICES ASSUME NEW s \in InTable, HasPendingTx(s)'
               PROVE  s \in txReady' \/ pump'[s] = "ready"
    BY <1>7
  <2>1. s \in Sessions
    BY DEF InTable
  <2>2. HasPendingTx(s) /\ s \notin E
    BY <1>2, <2>1
  <2>3. s \in txReady \/ pump[s] = "ready"
    BY <2>2 DEF SessInv, NoStrandedSession
  <2> QED
    BY <1>1, <2>2, <2>3
<1> QED
  BY <1>3, <1>5, <1>6, <1>8 DEF SessInv, NoStrandedSession

\* A step that leaves the buffers alone.
LEMMA SessKept ==
    ASSUME SessType, SessInv, UNCHANGED sess, UNCHANGED firstReply,
           pump' \in [Sessions -> {"run", "ready", "kick"}],
           ctrl' \in [Clients -> 0..MaxCtrl],
           txReady' \subseteq Sessions, txReady \subseteq txReady',
           \A s \in Sessions : pump[s] = "ready" => pump'[s] = "ready" \/ s \in txReady'
    PROVE  SessType' /\ SessInv'
<1>1. SessType'
  BY DEF SessType, sess
<1>2. /\ InTable' = InTable
      /\ \A s \in Sessions : HasPendingTx(s)' <=> HasPendingTx(s)
  BY DEF sess, InTable, HasPendingTx, FinDue
<1>3. NoStrandedSession'
  BY <1>2 DEF SessInv, NoStrandedSession, InTable
<1> QED
  BY <1>1, <1>2, <1>3 DEF SessInv, sess

\* The pump queues something: the callback is still to come.
LEMMA SessQueued ==
    ASSUME SessType, SessInv, NEW s \in Sessions, UpstreamRead(s) \/ UpstreamEnd(s)
    PROVE  SessType' /\ SessInv'
<1>1. /\ UNCHANGED <<table, finSent, txReady, firstReply, ctrl>>
      /\ age' = Queued(s) /\ pump' = [pump EXCEPT ![s] = "ready"]
      /\ ~closeReq[s] /\ table[s] # "none"
  BY DEF UpstreamRead, UpstreamEnd, server, InTable
<1>2. data' \in [Sessions -> 0..MaxData] /\ closeReq' \in [Sessions -> BOOLEAN]
  <2>1. CASE UpstreamRead(s)
    <3>1. data[s] \in 0..MaxData /\ data[s] < MaxData /\ MaxData \in Nat
      BY <2>1, CapTypes DEF UpstreamRead, SessType
    <3>2. data[s] + 1 \in 0..MaxData
      BY <3>1
    <3> QED
      BY <2>1, <3>2 DEF UpstreamRead, SessType
  <2>2. CASE UpstreamEnd(s)
    BY <2>2 DEF UpstreamEnd, SessType
  <2> QED
    BY <2>1, <2>2
<1>3. /\ age' \in Seq(Sessions) /\ NoDuplicates(age')
      /\ \A x : x \in Range(age') <=> x \in Range(age) \/ x = s
  BY <1>1, QueuedProperties
<1>4. SessType'
  BY <1>1, <1>2, <1>3 DEF SessType
<1>5. \A x \in Sessions \ {s} : data'[x] = data[x] /\ closeReq'[x] = closeReq[x]
                                /\ pump'[x] = pump[x]
  BY <1>1 DEF UpstreamRead, UpstreamEnd, SessType
<1>6. ~finSent[s] /\ pump'[s] = "ready"
  BY <1>1 DEF SessInv, SessType
<1>7. \A x \in Sessions \ {s} : HasPendingTx(x)' <=> HasPendingTx(x)
  BY <1>1, <1>5 DEF HasPendingTx, FinDue
<1>8. \A x \in Sessions : finSent'[x] => closeReq'[x] /\ data'[x] = 0
  BY <1>1, <1>5, <1>6 DEF SessInv
<1>9. \A x \in Sessions : HasPendingTx(x)' => x \in Range(age')
  BY <1>3, <1>7 DEF SessInv
<1>10. \A x \in Sessions : table'[x] = "none" => data'[x] = 0 /\ ~closeReq'[x]
  BY <1>1, <1>5 DEF SessInv
<1>11. NoStrandedSession'
  <2> SUFFICES ASSUME NEW x \in InTable', HasPendingTx(x)'
               PROVE  x \in txReady' \/ pump'[x] = "ready"
    BY DEF NoStrandedSession
  <2>1. x \in Sessions /\ x \in InTable
    BY <1>1 DEF InTable
  <2> QED
    BY <1>1, <1>5, <1>6, <1>7, <2>1 DEF SessInv, NoStrandedSession
<1> QED
  BY <1>4, <1>8, <1>9, <1>10, <1>11 DEF SessInv

\* Sessions are opened, or leave the table.
LEMMA SessTable ==
    ASSUME SessType, SessInv, UNCHANGED <<data, closeReq, finSent, age, pump, ctrl>>,
           table' \in [Sessions -> {"none", "in", "out"}], firstReply' \subseteq Sessions,
           \A s \in Sessions : table'[s] = "none" => table[s] = "none",
           txReady' \subseteq txReady,
           \A s \in Sessions : table'[s] = "in" /\ table[s] # "none"
                                 => table[s] = "in" /\ (s \in txReady => s \in txReady')
    PROVE  SessType' /\ SessInv'
<1>1. SessType'
  BY DEF SessType
<1>2. \A s \in Sessions : HasPendingTx(s)' <=> HasPendingTx(s)
  BY DEF HasPendingTx, FinDue
<1>3. NoStrandedSession'
  <2> SUFFICES ASSUME NEW s \in Sessions, table'[s] = "in", HasPendingTx(s)'
               PROVE  s \in txReady' \/ pump'[s] = "ready"
    BY DEF NoStrandedSession, InTable
  <2>1. table[s] # "none"
    <3>1. HasPendingTx(s) /\ data[s] \in Nat
      BY <1>2, FramesType
    <3> QED
      BY <3>1 DEF SessInv, HasPendingTx, FinDue
  <2>2. s \in InTable
    BY <2>1 DEF InTable
  <2> QED
    BY <1>2, <2>1, <2>2 DEF SessInv, NoStrandedSession
<1> QED
  BY <1>1, <1>2, <1>3 DEF SessInv

\* The sessions at the start.
LEMMA SessInit == Init => SessType /\ SessInv
<1> SUFFICES ASSUME Init PROVE SessType /\ SessInv
  OBVIOUS
<1>1. /\ table = [s \in Sessions |-> "none"] /\ data = [s \in Sessions |-> 0]
      /\ closeReq = [s \in Sessions |-> FALSE] /\ finSent = [s \in Sessions |-> FALSE]
      /\ age = <<>> /\ pump = [s \in Sessions |-> "run"] /\ txReady = {}
      /\ firstReply = {} /\ ctrl = [c \in Clients |-> 0]
  BY DEF Init
<1>2. age \in Seq(Sessions) /\ NoDuplicates(age)
  BY <1>1, EmptySeq DEF NoDuplicates
<1>3. SessType
  BY <1>1, <1>2, CapTypes DEF SessType
<1>4. InTable = {} /\ \A s \in Sessions : ~HasPendingTx(s)
  BY <1>1 DEF InTable, HasPendingTx, FinDue
<1> QED
  BY <1>1, <1>3, <1>4 DEF SessInv, NoStrandedSession

\* Every step keeps the sessions' invariant.
LEMMA SessStep ==
    ASSUME SessType, SessInv, HandlerType, [Next]_vars
    PROVE  SessType' /\ SessInv'
<1>1. CASE UNCHANGED vars
  BY <1>1, SessKept DEF SessType, vars, sess, server
<1>2. ASSUME NEW s \in Sessions, UpstreamRead(s) \/ UpstreamEnd(s)
      PROVE  SessType' /\ SessInv'
  BY <1>2, SessQueued
<1>3. ASSUME NEW s \in Sessions, OnTx(s)
      PROVE  SessType' /\ SessInv'
  <2>1. /\ UNCHANGED sess /\ UNCHANGED <<firstReply, ctrl>>
        /\ pump[s] \in {"ready", "kick"} /\ pump[s] = "ready" => s \in txReady'
        /\ \E p \in {"kick", "run"} : pump' = [pump EXCEPT ![s] = p]
        /\ txReady \subseteq txReady' /\ txReady' \subseteq txReady \cup {s}
    BY <1>3 DEF OnTx, OnTxReady, OnTxKick
  <2>2. /\ pump' \in [Sessions -> {"run", "ready", "kick"}]
        /\ \A x \in Sessions : pump[x] = "ready" => pump'[x] = "ready" \/ x \in txReady'
    BY <2>1 DEF SessType
  <2> QED
    BY <2>1, <2>2, SessKept DEF SessType
<1>4. ASSUME NEW c \in Clients, NEW h \in Handlers, Request(h, c)
      PROVE  SessType' /\ SessInv'
  BY <1>4, SessKept DEF Request, SessType, server
<1>5. ASSUME NEW h \in Handlers, NEW s \in Sessions, OpenSession(h, s)
      PROVE  SessType' /\ SessInv'
  <2>1. /\ UNCHANGED <<data, closeReq, finSent, age, pump, ctrl, txReady>>
        /\ table[s] = "none" /\ table' = [table EXCEPT ![s] = "in"]
        /\ firstReply' = firstReply \cup {s}
    BY <1>5 DEF OpenSession
  <2>2. /\ table' \in [Sessions -> {"none", "in", "out"}] /\ firstReply' \subseteq Sessions
        /\ \A x \in Sessions : table'[x] = table[x] \/ (table'[x] = "in" /\ table[x] = "none")
    BY <2>1 DEF SessType
  <2> QED
    BY <2>1, <2>2, SessTable
<1>6. ASSUME NEW h \in Handlers, QueueRST(h)
      PROVE  SessType' /\ SessInv'
  <2>1. /\ ctrl[client[h]] < MaxCtrl /\ ctrl' = [ctrl EXCEPT ![client[h]] = @ + 1]
        /\ UNCHANGED <<sess, pump, txReady, firstReply>> /\ client[h] \in Clients
    BY <1>6 DEF QueueRST, HandlerType
  <2>2. ctrl[client[h]] \in 0..MaxCtrl /\ MaxCtrl \in Nat
    BY <2>1, CapTypes DEF SessType
  <2>3. ctrl[client[h]] + 1 \in 0..MaxCtrl
    BY <2>1, <2>2
  <2>4. ctrl' \in [Clients -> 0..MaxCtrl]
    BY <2>1, <2>3 DEF SessType
  <2> QED
    BY <2>1, <2>4, SessKept DEF SessType
<1>7. ASSUME NEW h \in Handlers,
             \/ QueueRSTKick(h) \/ Capture(h) \/ CoalesceEnd(h) \/ Wake(h) \/ Deadline(h)
             \/ ReplyEmpty(h) \/ Cancel(h)
      PROVE  SessType' /\ SessInv'
  <2>1. UNCHANGED <<sess, pump, txReady, firstReply, ctrl>>
    BY <1>7 DEF QueueRSTKick, Capture, CoalesceEnd, Wake, Deadline, ReplyEmpty, Cancel,
                server
  <2> QED
    BY <2>1, SessKept DEF SessType
<1>8. ASSUME NEW h \in Handlers, PollDrain(h) \/ CoalesceDrain(h)
      PROVE  SessType' /\ SessInv'
  <2>1. client[h] \in Clients
    BY <1>8 DEF PollDrain, CoalesceDrain, HandlerType
  <2>2. \E d \in Drains, budget \in {Budget, Budget - bytes[h]} : Drain(h, d, budget)
    BY <1>8 DEF PollDrain, CoalesceDrain, Drain
  <2> QED
    BY <2>1, <2>2, DrainSessType, DrainSessInv
<1>9. ASSUME NEW h \in Handlers, Reply(h)
      PROVE  SessType' /\ SessInv'
  <2>1. PICK done \in SUBSET InTable :
          /\ table' = [s \in Sessions |-> IF s \in done THEN "out" ELSE table[s]]
          /\ txReady' = txReady \ done /\ firstReply' = firstReply \ done
          /\ UNCHANGED <<data, closeReq, finSent, age, pump, ctrl>>
    BY <1>9 DEF Reply
  <2>2. table' \in [Sessions -> {"none", "in", "out"}] /\ firstReply' \subseteq Sessions
    BY <2>1 DEF SessType
  <2>3. \A s \in Sessions : table'[s] \in {"none", "in"} => s \notin done
                                                            /\ table'[s] = table[s]
    BY <2>1
  <2> QED
    BY <2>1, <2>2, <2>3, SessTable
<1>10. ASSUME NEW s \in Sessions, GcIdleSession(s)
       PROVE  SessType' /\ SessInv'
  <2>1. /\ table' = [table EXCEPT ![s] = "out"]
        /\ txReady' = txReady \ {s} /\ firstReply' = firstReply \ {s}
        /\ UNCHANGED <<data, closeReq, finSent, age, pump, ctrl>>
    BY <1>10 DEF GcIdleSession
  <2>2. table' \in [Sessions -> {"none", "in", "out"}] /\ firstReply' \subseteq Sessions
    BY <2>1 DEF SessType
  <2>3. \A x \in Sessions : table'[x] \in {"none", "in"} => x # s /\ table'[x] = table[x]
    BY <2>1 DEF SessType
  <2> QED
    BY <2>1, <2>2, <2>3, SessTable
<1> QED
  BY <1>1, <1>2, <1>3, <1>4, <1>5, <1>6, <1>7, <1>8, <1>9, <1>10
     DEF Next, Poll, HandlerStep

-----------------------------------------------------------------------------
(* The byte budget. *)

\* The last index with a property.
LEMMA LastIndex ==
    ASSUME NEW n \in Nat, NEW J \in SUBSET (1..n), J # {}
    PROVE  \E m \in J : \A i \in J : i <= m
<1> DEFINE T == {k \in Nat : \E i \in J : k = n - i}
           R == OpToRel(<, Nat)
<1>1. T # {}
  <2>1. PICK i \in J : TRUE
    OBVIOUS
  <2>2. n - i \in Nat
    OBVIOUS
  <2> QED
    BY <2>2
<1>2. IsWellFoundedOn(R, Nat)
  BY NatLessThanWellFounded
<1>3. PICK x \in T : \A y \in T : <<y, x>> \notin R
  <2>1. T \subseteq Nat
    OBVIOUS
  <2> HIDE DEF R, T
  <2> QED
    BY <1>1, <1>2, <2>1, WFMin
<1>4. \A y \in T : ~(y < x)
  BY <1>3 DEF OpToRel
<1>5. PICK m \in J : x = n - m
  OBVIOUS
<1>6. ASSUME NEW i \in J
      PROVE  i <= m
  <2>1. n - i \in T
    OBVIOUS
  <2>2. ~(n - i < n - m)
    BY <1>4, <1>5, <2>1
  <2> QED
    BY <2>2
<1> QED
  BY <1>6

\* A drain takes less than what is left of the budget and one more session.
LEMMA DrainBytes ==
    ASSUME SessType, SessInv, NEW c, NEW d \in Drains, NEW budget \in Nat, budget > 0,
           IsDrain(d, c, budget)
    PROVE  /\ SumFunction(d) \in Nat /\ SumFunction(Payload(d)) \in Nat
           /\ SumFunction(Payload(d)) < budget + PerSession
           /\ SumFunction(d) = 0 => /\ \A s \in Sessions : d[s] = 0
                                    /\ SumFunction(Payload(d)) = 0
<1> DEFINE P == Payload(d)
<1>1. \A s \in Sessions :
        /\ d[s] \in Nat /\ d[s] <= PerSession
        /\ d[s] > 0 => s \in Visited(d, c, budget)
        /\ P[s] \in Nat /\ P[s] <= d[s] /\ P[s] <= data[s]
  BY DrainFacts
<1>2. DOMAIN d = Sessions /\ DOMAIN P = Sessions
  BY DEF Drains, Payload
<1>3. SumFunction(d) = SumFunctionOnSet(d, Sessions)
      /\ SumFunction(P) = SumFunctionOnSet(P, Sessions)
  BY <1>2 DEF SumFunction
<1> HIDE DEF P
<1>4. /\ \A T \in SUBSET Sessions : SumFunctionOnSet(d, T) \in Nat
      /\ \A T \in SUBSET Sessions : \A x \in T :
           SumFunctionOnSet(d, T) = d[x] + SumFunctionOnSet(d, T \ {x})
  BY <1>1, FiniteAssumption, SumFacts
<1>5. /\ \A T \in SUBSET Sessions : SumFunctionOnSet(P, T) \in Nat
      /\ SumFunctionOnSet(P, {}) = 0
      /\ \A T \in SUBSET Sessions : \A x \in T :
           SumFunctionOnSet(P, T) = P[x] + SumFunctionOnSet(P, T \ {x})
  BY <1>1, FiniteAssumption, SumFacts
<1>6. \A U \in SUBSET Sessions :
        (\A x \in Sessions \ U : P[x] = 0)
            => SumFunctionOnSet(P, Sessions) = SumFunctionOnSet(P, U)
  BY <1>1, FiniteAssumption, SumZero
<1>7. (\A s \in Sessions : P[s] = 0) => SumFunction(P) = 0
  BY <1>3, <1>5, <1>6
<1>8. ASSUME SumFunction(d) = 0
      PROVE  (\A s \in Sessions : d[s] = 0) /\ SumFunction(P) = 0
  <2>1. ASSUME NEW s \in Sessions
        PROVE  d[s] = 0
    <3>1. /\ SumFunctionOnSet(d, Sessions) = d[s] + SumFunctionOnSet(d, Sessions \ {s})
          /\ SumFunctionOnSet(d, Sessions \ {s}) \in Nat /\ d[s] \in Nat
      BY <1>1, <1>4
    <3>2. \A a, b \in Nat : a + b = 0 => a = 0
      OBVIOUS
    <3> QED
      BY <1>3, <1>8, <3>1, <3>2, Zenon
  <2>2. \A s \in Sessions : P[s] = 0
    BY <1>1, <2>1
  <2> QED
    BY <1>7, <2>1, <2>2
<1>9. SumFunction(P) < budget + PerSession
  <2>1. CASE \A s \in Sessions : P[s] = 0
    BY <1>7, <2>1, CapTypes
  <2>2. CASE \E s \in Sessions : P[s] # 0
    <3> DEFINE J == {i \in 1..Len(age) : P[age[i]] # 0}
    <3>1. age \in Seq(Sessions) /\ Len(age) \in Nat /\ NoDuplicates(age)
      BY DEF SessType
    <3>2. \A i \in 1..Len(age) : age[i] \in Sessions
      BY <3>1, ElementOfSeq
    <3>3. Range(age) = {age[i] : i \in 1..Len(age)}
      BY <3>1 DEF Range
    <3>4. ASSUME NEW s \in Sessions, P[s] # 0
          PROVE  s \in Drainable(c) /\ s \in Visited(d, c, budget)
                 /\ \E i \in J : age[i] = s
      <4>1. d[s] > 0 /\ data[s] > 0
        <5>1. data[s] \in Nat
          BY FramesType
        <5> QED
          BY <1>1, <3>4, <5>1
      <4>2. s \in Visited(d, c, budget)
        BY <1>1, <4>1
      <4>3. s \in Range(age)
        BY <4>1 DEF SessInv, HasPendingTx
      <4> QED
        BY <3>3, <3>4, <4>2, <4>3 DEF Visited
    <3>5. J # {} /\ J \in SUBSET (1..Len(age))
      BY <2>2, <3>4
    <3>6. PICK m \in J : \A i \in J : i <= m
      <4> HIDE DEF J
      <4> QED
        BY <3>1, <3>5, LastIndex
    <3> DEFINE z == age[m]
               B == Before(c, z)
    <3>7. z \in Sessions /\ P[z] # 0 /\ z \in Range(age)
      BY <3>2, <3>3
    <3>8. B \in SUBSET Sessions
      BY DEF Before, Drainable, InTable
    <3>9. SumFunctionOnSet(P, B) < budget
      BY <3>4, <3>7 DEF Visited, InBudget, P
    <3>10. z \notin B
      BY <3>1, <3>7 DEF Before, Older, NoDuplicates
    <3>11. ASSUME NEW r \in Sessions, r # z, P[r] # 0
           PROVE  r \in B
      <4>1. PICK i \in J : age[i] = r
        BY <3>4, <3>11
      <4>2. i < m
        <5>1. i <= m /\ i # m
          BY <3>6, <3>11, <4>1
        <5> QED
          BY <3>1, <5>1
      <4>3. Older(r, z)
        BY <3>7, <4>1, <4>2 DEF Older
      <4> QED
        BY <3>4, <3>11, <4>3 DEF Before
    <3> HIDE DEF z, B, J
    <3>12. SumFunctionOnSet(P, Sessions) = SumFunctionOnSet(P, B \cup {z})
      <4>1. B \cup {z} \in SUBSET Sessions
        BY <3>7, <3>8
      <4>2. \A x \in Sessions \ (B \cup {z}) : P[x] = 0
        BY <3>11
      <4> QED
        BY <1>6, <4>1, <4>2
    <3>13. SumFunctionOnSet(P, B \cup {z}) = P[z] + SumFunctionOnSet(P, B)
      <4>1. (B \cup {z}) \ {z} = B /\ B \cup {z} \in SUBSET Sessions /\ z \in B \cup {z}
        BY <3>7, <3>8, <3>10
      <4>2. SumFunctionOnSet(P, B \cup {z})
              = P[z] + SumFunctionOnSet(P, (B \cup {z}) \ {z})
        BY <1>5, <4>1
      <4> QED
        BY <4>1, <4>2
    <3>14. P[z] \in Nat /\ P[z] <= PerSession
      <4>1. P[z] \in Nat /\ P[z] <= d[z] /\ d[z] \in Nat /\ d[z] <= PerSession
        BY <1>1, <3>7
      <4> QED
        BY <4>1, CapTypes
    <3>15. SumFunctionOnSet(P, B) \in Nat
      BY <1>5, <3>8
    <3> QED
      BY <1>3, <3>9, <3>12, <3>13, <3>14, <3>15, CapTypes
  <2> QED
    BY <2>1, <2>2
<1>10. SumFunction(d) \in Nat /\ SumFunction(P) \in Nat
  BY <1>3, <1>4, <1>5
<1> QED
  BY <1>8, <1>9, <1>10 DEF P

-----------------------------------------------------------------------------
(* Handlers. *)

\* A handler has frames only while it fills or writes its response.
HandlerInv ==
    /\ \A h \in Handlers : pc[h] \notin {"coalesce", "reply"}
                             => from[h] = {} /\ out[h] = 0 /\ bytes[h] = 0
    /\ ClientIsolation
    /\ RstFlushedAtOnce
    /\ ResponseBytesBounded

\* A handler on its way to its next drain.
Flushing == {"ctrlKick", "capture", "drain"}

\* A drain of handler h, in terms of the handlers.
LEMMA DrainHandler ==
    ASSUME SessType, SessInv, HandlerType, HandlerInv, NEW h \in Handlers,
           client[h] \in Clients, NEW d \in Drains, NEW budget \in Nat, budget > 0,
           Drain(h, d, budget), bytes[h] + budget = Budget
    PROVE  /\ from' \in [Handlers -> SUBSET Sessions] /\ out' \in [Handlers -> Nat]
           /\ bytes' \in [Handlers -> Nat]
           /\ \A k \in Handlers \ {h} :
                from'[k] = from[k] /\ out'[k] = out[k] /\ bytes'[k] = bytes[k]
           /\ \A s \in from'[h] : Owner[s] = client[h]
           /\ bytes'[h] < Budget + PerSession
           /\ from[h] = {} /\ out[h] = 0 /\ bytes[h] = 0 /\ out'[h] = 0
                => from'[h] = {} /\ bytes'[h] = 0
           /\ \A c \in Clients : ctrl'[c] > 0 => c # client[h] /\ ctrl[c] > 0
<1> DEFINE c == client[h]
           given == {s \in Sessions : d[s] > 0}
<1>1. /\ IsDrain(d, c, budget)
      /\ from' = [from EXCEPT ![h] = @ \cup given]
      /\ out' = [out EXCEPT ![h] = @ + ctrl[c] + SumFunction(d)]
      /\ bytes' = [bytes EXCEPT ![h] = @ + SumFunction(Payload(d))]
      /\ ctrl' = [ctrl EXCEPT ![c] = 0]
  BY DEF Drain, DrainAll
<1>2. /\ SumFunction(d) \in Nat /\ SumFunction(Payload(d)) \in Nat
      /\ SumFunction(Payload(d)) < budget + PerSession
      /\ SumFunction(d) = 0 => /\ \A s \in Sessions : d[s] = 0
                               /\ SumFunction(Payload(d)) = 0
  BY <1>1, DrainBytes
<1>3. PICK n \in Nat, m \in Nat : n = SumFunction(d) /\ m = SumFunction(Payload(d))
  BY <1>2, Zenon
<1>4. /\ out[h] \in Nat /\ bytes[h] \in Nat /\ ctrl[c] \in Nat /\ PerSession \in Nat
      /\ Budget \in Nat
  BY CapTypes DEF HandlerType, SessType
<1>5. out[h] + ctrl[c] + n \in Nat /\ bytes[h] + m \in Nat /\ bytes[h] + m < Budget + PerSession
  BY <1>2, <1>3, <1>4
<1>6. /\ from' \in [Handlers -> SUBSET Sessions] /\ from'[h] = from[h] \cup given
      /\ \A k \in Handlers \ {h} : from'[k] = from[k]
  BY <1>1 DEF HandlerType
<1>7. /\ out' \in [Handlers -> Nat] /\ out'[h] = out[h] + ctrl[c] + n
      /\ \A k \in Handlers \ {h} : out'[k] = out[k]
  BY <1>1, <1>3, <1>5 DEF HandlerType
<1>8. /\ bytes' \in [Handlers -> Nat] /\ bytes'[h] = bytes[h] + m
      /\ \A k \in Handlers \ {h} : bytes'[k] = bytes[k]
  BY <1>1, <1>3, <1>5 DEF HandlerType
<1>9. \A s \in from'[h] : Owner[s] = c
  <2>1. \A s \in given : s \in Visited(d, c, budget)
    BY <1>1, DrainFacts
  <2>2. \A s \in given : Owner[s] = c
    BY <2>1 DEF Visited, Drainable
  <2> QED
    BY <1>6, <2>2 DEF HandlerInv, ClientIsolation
<1>10. ASSUME from[h] = {}, out[h] = 0, bytes[h] = 0, out'[h] = 0
       PROVE  from'[h] = {} /\ bytes'[h] = 0
  <2>1. n = 0
    BY <1>4, <1>7, <1>10
  <2>2. given = {} /\ m = 0
    BY <1>2, <1>3, <2>1
  <2> QED
    BY <1>6, <1>8, <1>10, <2>2
<1>11. \A k \in Clients : ctrl'[k] > 0 => k # c /\ ctrl[k] > 0
  BY <1>1 DEF SessType
<1> QED
  BY <1>5, <1>6, <1>7, <1>8, <1>9, <1>10, <1>11

\* A handler goes on without touching its response.
LEMMA HandlerMoved ==
    ASSUME HandlerType, HandlerInv, NEW h \in Handlers, NEW p \in HandlerStates \ {"off"},
           pc' = [pc EXCEPT ![h] = p], UNCHANGED <<from, out, bytes>>,
           late' \in [Handlers -> BOOLEAN],
           client' = client \/ (pc[h] = "off" /\ \E c \in Clients :
                                                   client' = [client EXCEPT ![h] = c]),
           pc[h] = "off" => client' # client \/ client[h] \in Clients,
           pc[h] \in {"coalesce", "reply"} => p \in {"coalesce", "reply"},
           pc[h] \in Flushing => p \in Flushing,
           \A c \in Clients : ctrl'[c] > 0 => ctrl[c] > 0 \/ (client'[h] = c /\ p \in Flushing)
    PROVE  HandlerType' /\ HandlerInv'
<1>1. /\ pc' \in [Handlers -> HandlerStates] /\ pc'[h] = p
      /\ \A k \in Handlers \ {h} : pc'[k] = pc[k]
  BY DEF HandlerType
<1>2. /\ client' \in [Handlers -> Clients \cup {NoClient}]
      /\ client'[h] \in Clients
      /\ \A k \in Handlers \ {h} : client'[k] = client[k]
      /\ pc[h] # "off" => client'[h] = client[h]
  BY DEF HandlerType
<1>3. HandlerType'
  BY <1>1, <1>2 DEF HandlerType
<1>4. \A k \in Handlers : pc'[k] \notin {"coalesce", "reply"}
                            => from'[k] = {} /\ out'[k] = 0 /\ bytes'[k] = 0
  BY <1>1 DEF HandlerInv
<1>5. ClientIsolation'
  <2> SUFFICES ASSUME NEW k \in Handlers, NEW s \in from[k]
               PROVE  Owner[s] = client'[k]
    BY DEF ClientIsolation
  <2>1. pc[k] # "off"
    BY DEF HandlerInv
  <2>2. client'[k] = client[k]
    BY <1>2, <2>1
  <2> QED
    BY <2>2 DEF HandlerInv, ClientIsolation
<1>6. RstFlushedAtOnce'
  <2> SUFFICES ASSUME NEW c \in Clients, ctrl'[c] > 0
               PROVE  \E k \in Handlers : client'[k] = c /\ pc'[k] \in Flushing
    BY DEF RstFlushedAtOnce, Flushing
  <2>1. CASE ctrl[c] > 0
    <3>1. PICK k \in Handlers : client[k] = c /\ pc[k] \in Flushing
      BY <2>1 DEF HandlerInv, RstFlushedAtOnce, Flushing
    <3>2. pc[k] # "off"
      BY <3>1 DEF Flushing
    <3>3. client'[k] = client[k] /\ pc'[k] \in Flushing
      BY <1>1, <1>2, <3>1, <3>2
    <3> QED
      BY <3>1, <3>3
  <2>2. CASE client'[h] = c /\ p \in Flushing
    BY <1>1, <2>2
  <2> QED
    BY <2>1, <2>2
<1>7. ResponseBytesBounded'
  BY DEF HandlerInv, ResponseBytesBounded
<1> QED
  BY <1>3, <1>4, <1>5, <1>6, <1>7 DEF HandlerInv

\* A handler returns.
LEMMA HandlerReturned ==
    ASSUME HandlerType, HandlerInv, NEW h \in Handlers, pc[h] \notin Flushing, Returned(h),
           UNCHANGED ctrl
    PROVE  HandlerType' /\ HandlerInv'
<1>1. /\ pc' \in [Handlers -> HandlerStates] /\ pc'[h] = "off"
      /\ client' \in [Handlers -> Clients \cup {NoClient}]
      /\ late' \in [Handlers -> BOOLEAN]
      /\ from' \in [Handlers -> SUBSET Sessions] /\ from'[h] = {}
      /\ out' \in [Handlers -> Nat] /\ out'[h] = 0
      /\ bytes' \in [Handlers -> Nat] /\ bytes'[h] = 0
      /\ \A k \in Handlers \ {h} : /\ pc'[k] = pc[k] /\ client'[k] = client[k]
                                   /\ from'[k] = from[k] /\ out'[k] = out[k]
                                   /\ bytes'[k] = bytes[k]
  BY DEF Returned, HandlerType, HandlerStates
<1>2. HandlerType'
  BY <1>1 DEF HandlerType
<1>3. \A k \in Handlers : pc'[k] \notin {"coalesce", "reply"}
                            => from'[k] = {} /\ out'[k] = 0 /\ bytes'[k] = 0
  BY <1>1 DEF HandlerInv
<1>4. ClientIsolation'
  BY <1>1 DEF HandlerInv, ClientIsolation
<1>5. RstFlushedAtOnce'
  <2> SUFFICES ASSUME NEW c \in Clients, ctrl[c] > 0
               PROVE  \E k \in Handlers : client'[k] = c /\ pc'[k] \in Flushing
    BY DEF RstFlushedAtOnce, Flushing
  <2>1. PICK k \in Handlers : client[k] = c /\ pc[k] \in Flushing
    BY DEF HandlerInv, RstFlushedAtOnce, Flushing
  <2> QED
    BY <1>1, <2>1
<1>6. ResponseBytesBounded'
  BY <1>1, CapTypes DEF HandlerInv, ResponseBytesBounded
<1> QED
  BY <1>2, <1>3, <1>4, <1>5, <1>6 DEF HandlerInv

\* A handler drains, and goes on with what it has.
LEMMA HandlerDrained ==
    ASSUME SessType, SessInv, HandlerType, HandlerInv, NEW h \in Handlers,
           client[h] \in Clients, NEW d \in Drains, NEW budget \in Nat, budget > 0,
           Drain(h, d, budget), bytes[h] + budget = Budget,
           UNCHANGED <<client, late>>, NEW p \in HandlerStates \ {"off"},
           pc' = [pc EXCEPT ![h] = p],
           p \notin {"coalesce", "reply"}
             => from[h] = {} /\ out[h] = 0 /\ bytes[h] = 0 /\ out'[h] = 0
    PROVE  HandlerType' /\ HandlerInv'
<1>1. /\ pc' \in [Handlers -> HandlerStates] /\ pc'[h] = p
      /\ \A k \in Handlers \ {h} : pc'[k] = pc[k]
  BY DEF HandlerType
<1>2. /\ from' \in [Handlers -> SUBSET Sessions] /\ out' \in [Handlers -> Nat]
      /\ bytes' \in [Handlers -> Nat]
      /\ \A k \in Handlers \ {h} :
           from'[k] = from[k] /\ out'[k] = out[k] /\ bytes'[k] = bytes[k]
      /\ \A s \in from'[h] : Owner[s] = client[h]
      /\ bytes'[h] < Budget + PerSession
      /\ from[h] = {} /\ out[h] = 0 /\ bytes[h] = 0 /\ out'[h] = 0
           => from'[h] = {} /\ bytes'[h] = 0
      /\ \A c \in Clients : ctrl'[c] > 0 => c # client[h] /\ ctrl[c] > 0
  BY DrainHandler
<1>3. HandlerType'
  BY <1>1, <1>2 DEF HandlerType
<1>4. \A k \in Handlers : pc'[k] \notin {"coalesce", "reply"}
                            => from'[k] = {} /\ out'[k] = 0 /\ bytes'[k] = 0
  BY <1>1, <1>2 DEF HandlerInv
<1>5. ClientIsolation'
  BY <1>2 DEF HandlerInv, ClientIsolation
<1>6. RstFlushedAtOnce'
  <2> SUFFICES ASSUME NEW c \in Clients, ctrl'[c] > 0
               PROVE  \E k \in Handlers : client'[k] = c /\ pc'[k] \in Flushing
    BY DEF RstFlushedAtOnce, Flushing
  <2>1. c # client[h] /\ ctrl[c] > 0
    BY <1>2
  <2>2. PICK k \in Handlers : client[k] = c /\ pc[k] \in Flushing
    BY <2>1 DEF HandlerInv, RstFlushedAtOnce, Flushing
  <2> QED
    BY <1>1, <2>1, <2>2
<1>7. ResponseBytesBounded'
  BY <1>2 DEF HandlerInv, ResponseBytesBounded
<1> QED
  BY <1>3, <1>4, <1>5, <1>6, <1>7 DEF HandlerInv

\* The handlers at the start.
LEMMA HandlerInit == Init => HandlerType /\ HandlerInv
<1> SUFFICES ASSUME Init PROVE HandlerType /\ HandlerInv
  OBVIOUS
<1>1. /\ pc = [h \in Handlers |-> "off"] /\ client = [h \in Handlers |-> NoClient]
      /\ late = [h \in Handlers |-> FALSE] /\ from = [h \in Handlers |-> {}]
      /\ out = [h \in Handlers |-> 0] /\ bytes = [h \in Handlers |-> 0]
      /\ ctrl = [c \in Clients |-> 0]
  BY DEF Init
<1>2. HandlerType
  BY <1>1 DEF HandlerType, HandlerStates
<1>3. ClientIsolation /\ RstFlushedAtOnce
  BY <1>1 DEF ClientIsolation, RstFlushedAtOnce
<1>4. ResponseBytesBounded
  BY <1>1, CapTypes DEF ResponseBytesBounded
<1> QED
  BY <1>1, <1>2, <1>3, <1>4 DEF HandlerInv

\* A step that touches no handler and no control frame.
LEMMA HandlerUntouched ==
    ASSUME HandlerType, HandlerInv, UNCHANGED <<handlers, ctrl>>
    PROVE  HandlerType' /\ HandlerInv'
<1>1. UNCHANGED <<pc, client, late, from, out, bytes, ctrl>>
  BY DEF handlers
<1> QED
  BY <1>1 DEF HandlerType, HandlerInv, ClientIsolation, RstFlushedAtOnce,
              ResponseBytesBounded

\* Every step keeps the handlers' invariant.
LEMMA HandlersStep ==
    ASSUME SessType, SessInv, HandlerType, HandlerInv, [Next]_vars
    PROVE  HandlerType' /\ HandlerInv'
<1>1. CASE UNCHANGED vars
  BY <1>1, HandlerUntouched DEF vars, server
<1>2. ASSUME NEW s \in Sessions,
             UpstreamRead(s) \/ UpstreamEnd(s) \/ OnTx(s) \/ GcIdleSession(s)
      PROVE  HandlerType' /\ HandlerInv'
  BY <1>2, HandlerUntouched DEF UpstreamRead, UpstreamEnd, OnTx, OnTxReady, OnTxKick,
                                GcIdleSession, server
<1>3. ASSUME NEW c \in Clients, NEW h \in Handlers, Request(h, c)
      PROVE  HandlerType' /\ HandlerInv'
  <2>1. /\ pc[h] = "off" /\ pc' = [pc EXCEPT ![h] = "route"]
        /\ client' = [client EXCEPT ![h] = c]
        /\ UNCHANGED <<from, out, bytes, late, ctrl>>
    BY <1>3 DEF Request, server
  <2>2. pc[h] \notin Flushing /\ client'[h] = c
    BY <2>1 DEF Flushing, HandlerType
  <2>3. client' # client \/ client[h] \in Clients
    BY <2>2
  <2>4. late' \in [Handlers -> BOOLEAN] /\ "route" \in HandlerStates \ {"off"}
    BY <2>1 DEF HandlerType, HandlerStates
  <2> QED
    BY <2>1, <2>2, <2>3, <2>4, HandlerMoved
<1>4. ASSUME NEW h \in Handlers, NEW s \in Sessions, OpenSession(h, s)
      PROVE  HandlerType' /\ HandlerInv'
  BY <1>4, HandlerMoved DEF OpenSession, HandlerType, HandlerStates, Flushing
<1>5. ASSUME NEW h \in Handlers, QueueRST(h)
      PROVE  HandlerType' /\ HandlerInv'
  <2>1. /\ pc[h] = "route" /\ pc' = [pc EXCEPT ![h] = "ctrlKick"]
        /\ ctrl' = [ctrl EXCEPT ![client[h]] = @ + 1]
        /\ UNCHANGED <<from, out, bytes, late, client>>
    BY <1>5 DEF QueueRST
  <2>2. \A c \in Clients : ctrl'[c] > 0 => ctrl[c] > 0 \/ client'[h] = c
    BY <2>1 DEF SessType
  <2>3. /\ late' \in [Handlers -> BOOLEAN] /\ "ctrlKick" \in HandlerStates \ {"off"}
        /\ "ctrlKick" \in Flushing
    BY <2>1 DEF HandlerType, HandlerStates, Flushing
  <2> QED
    BY <2>1, <2>2, <2>3, HandlerMoved
<1>6. ASSUME NEW h \in Handlers, QueueRSTKick(h)
      PROVE  HandlerType' /\ HandlerInv'
  BY <1>6, HandlerMoved DEF QueueRSTKick, HandlerType, HandlerStates, Flushing
<1>7. ASSUME NEW h \in Handlers, Capture(h)
      PROVE  HandlerType' /\ HandlerInv'
  BY <1>7, HandlerMoved DEF Capture, HandlerType, HandlerStates, Flushing
<1>8. ASSUME NEW h \in Handlers, CoalesceEnd(h)
      PROVE  HandlerType' /\ HandlerInv'
  BY <1>8, HandlerMoved DEF CoalesceEnd, HandlerType, HandlerStates, Flushing, server
<1>9. ASSUME NEW h \in Handlers, Wake(h)
      PROVE  HandlerType' /\ HandlerInv'
  BY <1>9, HandlerMoved DEF Wake, HandlerType, HandlerStates, Flushing
<1>10. ASSUME NEW h \in Handlers, Deadline(h)
       PROVE  HandlerType' /\ HandlerInv'
  <2>1. late' \in [Handlers -> BOOLEAN]
    BY <1>10 DEF Deadline, HandlerType
  <2> QED
    BY <1>10, <2>1, HandlerMoved DEF Deadline, HandlerType, HandlerStates, Flushing, server
<1>11. ASSUME NEW h \in Handlers, ReplyEmpty(h) \/ Cancel(h) \/ Reply(h)
       PROVE  HandlerType' /\ HandlerInv'
  BY <1>11, HandlerReturned DEF ReplyEmpty, Cancel, Reply, Flushing
<1>12. ASSUME NEW h \in Handlers, PollDrain(h)
       PROVE  HandlerType' /\ HandlerInv'
  <2>1. PICK d \in Drains :
          /\ Drain(h, d, Budget)
          /\ \E p \in {"empty", "wait", "coalesce", "reply"} :
               /\ pc' = [pc EXCEPT ![h] = p]
               /\ p \notin {"coalesce", "reply"} => out'[h] = 0
          /\ UNCHANGED <<client, late>>
    BY <1>12 DEF PollDrain, Drain
  <2>2. pc[h] = "drain" /\ client[h] \in Clients /\ bytes[h] = 0 /\ out[h] = 0 /\ from[h] = {}
    BY <1>12 DEF PollDrain, HandlerType, HandlerInv
  <2>3. Budget \in Nat /\ Budget > 0 /\ bytes[h] + Budget = Budget
    BY <2>2, CapTypes
  <2>4. \A p \in {"empty", "wait", "coalesce", "reply"} : p \in HandlerStates \ {"off"}
    BY DEF HandlerStates
  <2> QED
    BY <2>1, <2>2, <2>3, <2>4, HandlerDrained
<1>13. ASSUME NEW h \in Handlers, CoalesceDrain(h)
       PROVE  HandlerType' /\ HandlerInv'
  <2>1. PICK d \in Drains :
          Drain(h, d, Budget - bytes[h]) /\ UNCHANGED <<client, late, pc>>
    BY <1>13 DEF CoalesceDrain, Drain
  <2>2. pc[h] = "coalesce" /\ client[h] \in Clients /\ bytes[h] < Budget /\ bytes[h] \in Nat
    BY <1>13 DEF CoalesceDrain, HandlerType
  <2>3. /\ Budget - bytes[h] \in Nat /\ Budget - bytes[h] > 0
        /\ bytes[h] + (Budget - bytes[h]) = Budget
    BY <2>2, CapTypes
  <2>4. pc' = [pc EXCEPT ![h] = "coalesce"] /\ "coalesce" \in HandlerStates \ {"off"}
    BY <2>1, <2>2 DEF HandlerType, HandlerStates
  <2> QED
    BY <2>1, <2>2, <2>3, <2>4, HandlerDrained
<1> QED
  BY <1>1, <1>2, <1>3, <1>4, <1>5, <1>6, <1>7, <1>8, <1>9, <1>10, <1>11, <1>12, <1>13
     DEF Next, Poll, HandlerStep

-----------------------------------------------------------------------------
(* The wake channels. *)

ChanType ==
    /\ activity \in [Clients -> Nat]
    /\ chan \in [Handlers -> Nat]
    /\ token \subseteq Nat

\* The range of a function on a finite set is no larger than the set.
LEMMA RangeSize ==
    ASSUME NEW S, IsFiniteSet(S), NEW f \in [S -> Nat]
    PROVE  /\ IsFiniteSet(Range(f)) /\ Cardinality(Range(f)) <= Cardinality(S)
           /\ Range(f) \subseteq Nat
<1>1. Range(f) = {f[x] : x \in S}
  BY DEF Range
<1>2. f \in Surjection(S, Range(f))
  BY <1>1 DEF Surjection
<1> QED
  BY <1>1, <1>2, FS_Surjection

\* A client without a channel leaves one free: the channels in use, 0 among
\* them, are at most as many as the clients and handlers.
LEMMA FreshChanExists ==
    ASSUME ChanType, NEW c \in Clients, activity[c] = 0
    PROVE  FreshChan \in Nat
<1> DEFINE N    == Cardinality(Clients) + Cardinality(Handlers)
           Used == Range(activity) \cup Range(chan)
<1>1. /\ Cardinality(Clients) \in Nat /\ Cardinality(Handlers) \in Nat
      /\ IsFiniteSet(Clients) /\ IsFiniteSet(Handlers)
  BY FiniteAssumption, FS_CardinalityType
<1>2. /\ IsFiniteSet(Range(activity)) /\ Cardinality(Range(activity)) <= Cardinality(Clients)
      /\ IsFiniteSet(Range(chan)) /\ Cardinality(Range(chan)) <= Cardinality(Handlers)
  BY <1>1, RangeSize DEF ChanType
<1>3. IsFiniteSet(Used) /\ Cardinality(Used) \in Nat /\ Cardinality(Used) <= N
  <2>1. /\ IsFiniteSet(Used)
        /\ Cardinality(Used) = Cardinality(Range(activity)) + Cardinality(Range(chan))
                               - Cardinality(Range(activity) \cap Range(chan))
    BY <1>2, FS_Union
  <2>2. /\ Cardinality(Range(activity)) \in Nat /\ Cardinality(Range(chan)) \in Nat
        /\ Cardinality(Used) \in Nat
    BY <1>2, <2>1, FS_CardinalityType
  <2>3. Cardinality(Range(activity) \cap Range(chan)) \in Nat
    BY <1>2, FS_Intersection, FS_CardinalityType
  <2> QED
    BY <1>1, <1>2, <2>1, <2>2, <2>3
<1>4. \E n \in 1..N : n \notin Used
  <2> SUFFICES ASSUME 1..N \subseteq Used PROVE FALSE
    OBVIOUS
  <2>1. 0 \in Used
    BY DEF ChanType, Range
  <2>2. 0..N \subseteq Used
    BY <1>1, <2>1
  <2>3. Cardinality(0..N) = N + 1
    BY <1>1, FS_Interval
  <2>4. Cardinality(0..N) <= Cardinality(Used)
    BY <1>3, <2>2, FS_Subset
  <2> QED
    BY <1>1, <1>3, <2>3, <2>4
<1>5. FreshChan \in 1..N
  BY <1>4 DEF FreshChan
<1> QED
  BY <1>1, <1>5

\* activityFor returns a channel.
LEMMA ActivityForType ==
    ASSUME ChanType, NEW c \in Clients
    PROVE  /\ ActivityFor(c) \in Nat
           /\ [activity EXCEPT ![c] = ActivityFor(c)] \in [Clients -> Nat]
<1>1. ActivityFor(c) \in Nat
  BY FreshChanExists DEF ActivityFor, ChanType
<1> QED
  BY <1>1 DEF ChanType

\* Every step keeps the types of the channels.
LEMMA ChanStep ==
    ASSUME SessType, HandlerType, ChanType, [Next]_vars
    PROVE  ChanType'
<1>1. CASE UNCHANGED <<activity, chan, token>>
  BY <1>1 DEF ChanType
<1>2. CASE UNCHANGED vars
  BY <1>1, <1>2 DEF vars, server, handlers
<1>3. ASSUME NEW s \in Sessions,
             UpstreamRead(s) \/ UpstreamEnd(s) \/ OnTxReady(s) \/ GcIdleSession(s)
      PROVE  ChanType'
  BY <1>1, <1>3 DEF UpstreamRead, UpstreamEnd, OnTxReady, GcIdleSession, server, handlers
<1>4. ASSUME NEW s \in Sessions, OnTxKick(s)
      PROVE  ChanType'
  <2>1. Owner[s] \in Clients
    BY OwnerAssumption
  <2> QED
    BY <1>4, <2>1, ActivityForType DEF OnTxKick, Kick, ChanType, handlers
<1>5. ASSUME NEW h \in Handlers, NEW c \in Clients, Request(h, c)
      PROVE  ChanType'
  BY <1>1, <1>5 DEF Request, server
<1>6. ASSUME NEW h \in Handlers,
             \/ \E s \in Sessions : OpenSession(h, s)
             \/ QueueRST(h) \/ PollDrain(h) \/ CoalesceEnd(h) \/ Deadline(h)
      PROVE  ChanType'
  BY <1>1, <1>6 DEF OpenSession, QueueRST, PollDrain, CoalesceEnd, Deadline, server
<1>7. ASSUME NEW h \in Handlers, QueueRSTKick(h)
      PROVE  ChanType'
  <2>1. client[h] \in Clients
    BY <1>7 DEF QueueRSTKick, HandlerType
  <2> QED
    BY <1>7, <2>1, ActivityForType DEF QueueRSTKick, Kick, ChanType
<1>8. ASSUME NEW h \in Handlers, Capture(h)
      PROVE  ChanType'
  <2>1. client[h] \in Clients
    BY <1>8 DEF Capture, HandlerType
  <2> QED
    BY <1>8, <2>1, ActivityForType DEF Capture, ChanType
<1>9. ASSUME NEW h \in Handlers, CoalesceDrain(h) \/ Wake(h)
      PROVE  ChanType'
  <2>1. UNCHANGED <<activity, chan>> /\ token' \subseteq token
    BY <1>9 DEF CoalesceDrain, Wake
  <2> QED
    BY <2>1 DEF ChanType
<1>10. ASSUME NEW h \in Handlers, ReplyEmpty(h) \/ Cancel(h) \/ Reply(h)
       PROVE  ChanType'
  <2>1. /\ chan' = [chan EXCEPT ![h] = 0] /\ token' \subseteq token
        /\ \A c \in Clients : activity'[c] \in {activity[c], 0}
        /\ activity' = activity \/ DOMAIN activity' = Clients
    BY <1>10 DEF ReplyEmpty, Cancel, Reply, Returned
  <2>2. activity' \in [Clients -> Nat]
    <3>1. CASE UNCHANGED activity
      BY <3>1 DEF ChanType
    <3>2. CASE \E gone : activity' = [c \in Clients |-> IF c \in ActiveOwners(gone)
                                                       THEN activity[c] ELSE 0]
      BY <3>2 DEF ChanType
    <3> QED
      BY <1>10, <3>1, <3>2 DEF ReplyEmpty, Cancel, Reply
  <2> QED
    BY <2>1, <2>2 DEF ChanType
<1> QED
  BY <1>2, <1>3, <1>4, <1>5, <1>6, <1>7, <1>8, <1>9, <1>10 DEF Next, Poll, HandlerStep, OnTx

-----------------------------------------------------------------------------
(* The theorems. *)

\* The inductive invariant.
Inv == SessType /\ SessInv /\ HandlerType /\ HandlerInv /\ ChanType

\* Every step keeps the invariant.
LEMMA InvStep == Inv /\ [Next]_vars => Inv'
  BY SessStep, HandlersStep, ChanStep DEF Inv

\* The invariant holds in every reachable state.
LEMMA Invariance == Spec => []Inv
<1>1. Init => Inv
  <2>1. Init => ChanType
    BY DEF Init, ChanType
  <2> QED
    BY <2>1, SessInit, HandlerInit DEF Inv
<1> QED
  BY <1>1, InvStep, PTL DEF Spec

\* Every variable keeps its type: the fresh wake channel of activityFor exists,
\* a drain never takes more than is queued, and RSTs stay within their bound.
THEOREM ExitTypeOK == Spec => []TypeOK
<1>1. Inv => TypeOK
  BY DEF Inv, SessType, HandlerType, ChanType, TypeOK
<1> QED
  BY <1>1, Invariance, PTL

\* drainAll strands no session: whatever has something to send is in txReady, or
\* its pump is about to put it there, for any caps, budget and number of
\* sessions, handlers and clients.
THEOREM NothingStranded == Spec => []NoStrandedSession
<1>1. Inv => NoStrandedSession
  BY DEF Inv, SessInv
<1> QED
  BY <1>1, Invariance, PTL

\* The owner filter of drainAll isolates clients over every drain of a response.
THEOREM ResponsesIsolated == Spec => []ClientIsolation
<1>1. Inv => ClientIsolation
  BY DEF Inv, HandlerInv
<1> QED
  BY <1>1, Invariance, PTL

\* A queued RST is never left to a later poll: whenever one waits, the request
\* that queued it, or another of the client, has not had its first drain.
THEOREM RstsFlushed == Spec => []RstFlushedAtOnce
<1>1. Inv => RstFlushedAtOnce
  BY DEF Inv, HandlerInv
<1> QED
  BY <1>1, Invariance, PTL

\* The byte budget bounds a response over all its drains, but for the last
\* session drained.
THEOREM ResponsesBounded == Spec => []ResponseBytesBounded
<1>1. Inv => ResponseBytesBounded
  BY DEF Inv, HandlerInv
<1> QED
  BY <1>1, Invariance, PTL

\* gcDoneSessions takes no session out of the table that has frames or a FIN to
\* send.
THEOREM CollectedIsDrained == Spec => CollectedHasNothingPending
<1>1. Inv /\ [Next]_vars
        => [\A s \in Sessions : (s \in InTable /\ table'[s] = "out" /\ handlers' # handlers)
                                  => ~HasPendingTx(s)]_vars
  <2> SUFFICES ASSUME Inv, Next, NEW s \in Sessions, s \in InTable, table'[s] = "out",
                      handlers' # handlers
               PROVE  ~HasPendingTx(s)
    OBVIOUS
  <2>1. table[s] = "in" /\ table' # table /\ table \in [Sessions -> {"none", "in", "out"}]
    BY DEF InTable, Inv, SessType
  <2>2. finSent[s] => ~HasPendingTx(s)
    BY DEF Inv, SessInv, SessType, HasPendingTx, FinDue
  <2>3. ASSUME NEW h \in Handlers, Reply(h)
        PROVE  ~HasPendingTx(s)
    <3>1. PICK done \in SUBSET {x \in InTable : MayBeDone(x)} :
            table' = [x \in Sessions |-> IF x \in done THEN "out" ELSE table[x]]
      BY <2>3 DEF Reply
    <3>2. s \in done
      BY <2>1, <3>1
    <3> QED
      BY <2>2, <3>1, <3>2 DEF MayBeDone
  <2>4. ASSUME NEW h \in Handlers, NEW x \in Sessions, OpenSession(h, x)
        PROVE  FALSE
    BY <2>1, <2>4 DEF OpenSession
  <2>5. ASSUME NEW x \in Sessions, GcIdleSession(x)
        PROVE  FALSE
    BY <2>5 DEF GcIdleSession
  <2>6. ASSUME NEW x \in Sessions, UpstreamRead(x) \/ UpstreamEnd(x) \/ OnTx(x)
        PROVE  FALSE
    BY <2>6 DEF UpstreamRead, UpstreamEnd, OnTx, OnTxReady, OnTxKick, handlers
  <2>7. ASSUME NEW h \in Handlers, NEW c \in Clients, Request(h, c)
        PROVE  FALSE
    BY <2>1, <2>7 DEF Request, sess
  <2>8. ASSUME NEW h \in Handlers,
               \/ QueueRST(h) \/ QueueRSTKick(h) \/ Capture(h) \/ PollDrain(h)
               \/ CoalesceDrain(h) \/ CoalesceEnd(h) \/ Wake(h) \/ Deadline(h)
               \/ ReplyEmpty(h) \/ Cancel(h)
        PROVE  FALSE
    BY <2>1, <2>8 DEF QueueRST, QueueRSTKick, Capture, PollDrain, CoalesceDrain, CoalesceEnd,
                      Wake, Deadline, ReplyEmpty, Cancel, sess
  <2> QED
    BY <2>3, <2>4, <2>5, <2>6, <2>7, <2>8 DEF Next, Poll, HandlerStep
<1> QED
  BY <1>1, Invariance, PTL DEF Spec, CollectedHasNothingPending

=============================================================================
