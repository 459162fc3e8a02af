--------------------------- MODULE EndpointsProofs ---------------------------
(***************************************************************************)
(* Proofs about Endpoints, for every number of endpoints, every set of     *)
(* workers, every ramp that does not fall and all floors.                  *)
(***************************************************************************)
EXTENDS Endpoints, TLAPS

\* The time to live of a failure count is a natural number and does not fall as
\* the count grows.
LEMMA TTLMonotone ==
    ASSUME NEW m \in Nat, NEW n \in Nat, m <= n
    PROVE  /\ endpointBlacklistTTL(m) \in Nat
           /\ endpointBlacklistTTL(n) \in Nat
           /\ endpointBlacklistTTL(m) <= endpointBlacklistTTL(n)
<1>1. Len(Ramp) \in Nat \ {0} /\ \A k \in 1..Len(Ramp) : Ramp[k] \in Nat
  BY RampAssumption
<1>2. ASSUME NEW k \in Nat \ {0} PROVE MinOf(k, Len(Ramp)) \in 1..Len(Ramp)
  BY <1>1 DEF MinOf
<1>3. MinOf(m, Len(Ramp)) <= MinOf(n, Len(Ramp))
  BY <1>1 DEF MinOf
<1>4. CASE m = 0
  <2>1. CASE n = 0
    BY <1>4, <2>1 DEF endpointBlacklistTTL
  <2>2. CASE n # 0
    BY <1>1, <1>2, <1>4, <2>2 DEF endpointBlacklistTTL
  <2> QED
    BY <2>1, <2>2
<1>5. CASE m # 0
  <2>1. n # 0
    BY <1>5
  <2>2. /\ MinOf(m, Len(Ramp)) \in 1..Len(Ramp)
        /\ MinOf(n, Len(Ramp)) \in 1..Len(Ramp)
    BY <1>2, <1>5, <2>1
  <2>3. Ramp[MinOf(m, Len(Ramp))] <= Ramp[MinOf(n, Len(Ramp))]
    BY <1>3, <2>2, RampAssumption
  <2> QED
    BY <1>1, <1>5, <2>1, <2>2, <2>3 DEF endpointBlacklistTTL
<1> QED
  BY <1>4, <1>5

\* The count a failure leaves: a natural within the ramp, and no smaller than
\* the one before.
LEMMA CountGrows ==
    ASSUME NEW c \in 0..Len(Ramp), NEW f \in Floors
    PROVE  /\ MinOf(MaxOf(c, f) + 1, Len(Ramp)) \in 0..Len(Ramp)
           /\ c <= MinOf(MaxOf(c, f) + 1, Len(Ramp))
<1>1. f \in Nat
  BY FloorAssumption DEF Floors, StatusFloors, ErrorPageFloors
<1>2. Len(Ramp) \in Nat \ {0}
  BY RampAssumption
<1> QED
  BY <1>1, <1>2 DEF MinOf, MaxOf

-----------------------------------------------------------------------------
\* A pick moves the cursor to an endpoint and starts at most the last attempt.
LEMMA PickTypes ==
    ASSUME TypeOK, NEW w \in Workers, pickRelayEndpoint(w)
    PROVE  TypeOK'
<1>1. PICK i \in Endpoints : /\ nextEndpoint' = Following(i)
                             /\ at' = [at EXCEPT ![w] = i]
  BY DEF pickRelayEndpoint
<1>2. nextEndpoint' \in Endpoints
  BY <1>1, EndpointAssumption DEF Endpoints, Following
<1>3. i # NoEndpoint
  BY EndpointAssumption DEF Endpoints, NoEndpoint
<1>4. attempt[w] \in 0..maxAttempts /\ attempt[w] < maxAttempts /\ maxAttempts \in Nat
  BY DEF TypeOK, pickRelayEndpoint, maxAttempts
<1>5. /\ attempt' = [attempt EXCEPT ![w] = attempt[w] + 1]
      /\ UNCHANGED <<left, failCount>>
  BY DEF pickRelayEndpoint
<1>6. attempt' \in [Workers -> 0..maxAttempts] /\ attempt'[w] > 0
  BY <1>4, <1>5 DEF TypeOK
<1>7. at' \in [Workers -> Endpoints \cup {NoEndpoint}]
  BY <1>1 DEF TypeOK
<1>8. \A v \in Workers : at'[v] # NoEndpoint => attempt'[v] > 0
  BY <1>1, <1>5, <1>6 DEF TypeOK
<1>9. \A v \in Workers : at'[v] = NoEndpoint => attempt'[v] < maxAttempts
  BY <1>1, <1>3, <1>5 DEF TypeOK
<1> QED
  BY <1>2, <1>5, <1>6, <1>7, <1>8, <1>9 DEF TypeOK, maxAttempts

\* The end of an attempt leaves its worker between attempts or between polls.
LEMMA EndTypes ==
    ASSUME TypeOK, NEW w \in Workers, AttemptEnds(w)
    PROVE  TypeOK'
<1>1. maxAttempts \in Nat \ {0}
  BY DEF maxAttempts
<1>2. at[w] \in Endpoints
  BY DEF TypeOK, AttemptEnds, PollSucceeds, AttemptFails
<1>3. /\ left' \in [Endpoints -> Nat]
      /\ failCount' \in [Endpoints -> 0..Len(Ramp)]
  <2>1. CASE PollSucceeds(w)
    BY <2>1, RampAssumption DEF PollSucceeds, markEndpointSuccess, TypeOK
  <2>2. ASSUME NEW f \in Floors, AttemptFails(w, f)
        PROVE  /\ left' \in [Endpoints -> Nat]
               /\ failCount' \in [Endpoints -> 0..Len(Ramp)]
    <3> DEFINE count == MinOf(MaxOf(failCount[at[w]], f) + 1, Len(Ramp))
    <3>1. failCount[at[w]] \in 0..Len(Ramp)
      BY <1>2 DEF TypeOK
    <3>2. count \in 0..Len(Ramp)
      BY <3>1, CountGrows
    <3>3. endpointBlacklistTTL(count) \in Nat
      BY <3>2, TTLMonotone, RampAssumption
    <3> QED
      BY <2>2, <3>2, <3>3 DEF AttemptFails, markEndpointFailureWith, TypeOK
  <2> QED
    BY <2>1, <2>2 DEF AttemptEnds
<1>4. /\ at' = [at EXCEPT ![w] = NoEndpoint]
      /\ nextEndpoint' = nextEndpoint
      /\ \/ attempt' = [attempt EXCEPT ![w] = 0]
         \/ attempt' = [attempt EXCEPT ![w] =
                            IF attempt[w] < maxAttempts THEN attempt[w] ELSE 0]
  BY DEF AttemptEnds, PollSucceeds, AttemptFails
<1>5. attempt' \in [Workers -> 0..maxAttempts] /\ attempt'[w] < maxAttempts
  BY <1>1, <1>4 DEF TypeOK
<1>6. at' \in [Workers -> Endpoints \cup {NoEndpoint}]
  BY <1>4 DEF TypeOK
<1>7. \A v \in Workers : v # w => at'[v] = at[v] /\ attempt'[v] = attempt[v]
  BY <1>4 DEF TypeOK
<1>8. /\ \A v \in Workers : at'[v] # NoEndpoint => attempt'[v] > 0
      /\ \A v \in Workers : at'[v] = NoEndpoint => attempt'[v] < maxAttempts
  BY <1>4, <1>5, <1>7 DEF TypeOK
<1> QED
  BY <1>3, <1>4, <1>5, <1>6, <1>8 DEF TypeOK, maxAttempts

\* Type correctness of the endpoint table, its cursor and the attempts.
THEOREM TypeCorrect == Spec => []TypeOK
<1>1. Init => TypeOK
  BY EndpointAssumption, RampAssumption
  DEF Init, TypeOK, Endpoints, NoEndpoint, maxAttempts
<1>2. TypeOK /\ [Next]_vars => TypeOK'
  <2> SUFFICES ASSUME TypeOK, [Next]_vars PROVE TypeOK'
    OBVIOUS
  <2>1. CASE Tick
    BY <2>1 DEF Tick, TypeOK, maxAttempts
  <2>2. CASE UNCHANGED vars
    BY <2>2 DEF vars, TypeOK, maxAttempts
  <2> QED
    BY <2>1, <2>2, PickTypes, EndTypes DEF Next
<1> QED
  BY <1>1, <1>2, PTL DEF Spec

-----------------------------------------------------------------------------
\* No endpoint is kept out longer than its failure count calls for, for every
\* ramp and any order of the results.
THEOREM BackoffBounded == Spec => []BlacklistWithinBackoff
<1>1. Init => BlacklistWithinBackoff
  BY DEF Init, BlacklistWithinBackoff, endpointBlacklistTTL
<1>2. TypeOK /\ BlacklistWithinBackoff /\ [Next]_vars => BlacklistWithinBackoff'
  <2> SUFFICES ASSUME TypeOK, BlacklistWithinBackoff, [Next]_vars
               PROVE  BlacklistWithinBackoff'
    OBVIOUS
  <2>0. \A c \in 0..Len(Ramp) : endpointBlacklistTTL(c) \in Nat
    BY TTLMonotone, RampAssumption
  <2>1. ASSUME NEW w \in Workers, pickRelayEndpoint(w) PROVE BlacklistWithinBackoff'
    BY <2>1 DEF pickRelayEndpoint, BlacklistWithinBackoff, endpointBlacklistTTL
  <2>2. ASSUME NEW w \in Workers, PollSucceeds(w) PROVE BlacklistWithinBackoff'
    BY <2>2 DEF PollSucceeds, markEndpointSuccess, BlacklistWithinBackoff,
                endpointBlacklistTTL, TypeOK
  <2>3. ASSUME NEW w \in Workers, NEW f \in Floors, AttemptFails(w, f)
        PROVE  BlacklistWithinBackoff'
    <3> DEFINE count == MinOf(MaxOf(failCount[at[w]], f) + 1, Len(Ramp))
    <3>1. at[w] \in Endpoints
      BY <2>3 DEF AttemptFails, TypeOK
    <3>2. count \in 0..Len(Ramp)
      BY <3>1, CountGrows DEF TypeOK
    <3>3. /\ left' = [left EXCEPT ![at[w]] = endpointBlacklistTTL(count)]
          /\ failCount' = [failCount EXCEPT ![at[w]] = count]
      BY <2>3 DEF AttemptFails, markEndpointFailureWith
    <3> HIDE DEF count
    <3>4. ASSUME NEW i \in Endpoints PROVE left'[i] <= endpointBlacklistTTL(failCount'[i])
      <4>1. CASE i = at[w]
        BY <2>0, <3>2, <3>3, <4>1 DEF TypeOK
      <4>2. CASE i # at[w]
        BY <3>3, <4>2 DEF TypeOK, BlacklistWithinBackoff
      <4> QED
        BY <4>1, <4>2
    <3> QED
      BY <3>4 DEF BlacklistWithinBackoff, endpointBlacklistTTL
  <2>4. CASE Tick
    <3>1. ASSUME NEW i \in Endpoints PROVE left'[i] <= endpointBlacklistTTL(failCount'[i])
      <4>1. /\ left[i] \in Nat /\ failCount[i] \in 0..Len(Ramp)
            /\ left[i] <= endpointBlacklistTTL(failCount[i])
        BY DEF TypeOK, BlacklistWithinBackoff
      <4>2. left'[i] = IF left[i] > 0 THEN left[i] - 1 ELSE 0
        BY <2>4 DEF Tick
      <4>3. failCount'[i] = failCount[i]
        BY <2>4 DEF Tick
      <4>4. endpointBlacklistTTL(failCount[i]) \in Nat
        BY <2>0, <4>1
      <4> HIDE DEF endpointBlacklistTTL
      <4> QED
        BY <4>1, <4>2, <4>3, <4>4
    <3> QED
      BY <3>1 DEF BlacklistWithinBackoff, endpointBlacklistTTL
  <2>5. CASE UNCHANGED vars
    BY <2>5 DEF vars, BlacklistWithinBackoff, endpointBlacklistTTL
  <2> QED
    BY <2>1, <2>2, <2>3, <2>4, <2>5 DEF Next, AttemptEnds
<1> QED
  BY <1>1, <1>2, TypeCorrect, PTL DEF Spec

\* Whatever floor a failure is marked with, it never shortens a blacklist nor
\* lowers a count: the new time to live is that of a larger count, and the old
\* blacklist was within that of the smaller one.
THEOREM FailuresOnlyAdd == Spec => FailureNeverShortens
<1>1. ASSUME TypeOK, BlacklistWithinBackoff, NEW w \in Workers, NEW f \in Floors,
             AttemptFails(w, f)
      PROVE  left'[at[w]] >= left[at[w]] /\ failCount'[at[w]] >= failCount[at[w]]
  <2> DEFINE old == failCount[at[w]]
  <2> DEFINE count == MinOf(MaxOf(old, f) + 1, Len(Ramp))
  <2>1. at[w] \in Endpoints
    BY <1>1 DEF AttemptFails, TypeOK
  <2>2. old \in 0..Len(Ramp) /\ left[at[w]] \in Nat
    BY <1>1, <2>1 DEF TypeOK
  <2>3. count \in 0..Len(Ramp) /\ old <= count
    BY <2>2, CountGrows
  <2>4. /\ left'[at[w]] = endpointBlacklistTTL(count)
        /\ failCount'[at[w]] = count
    BY <1>1, <2>1 DEF AttemptFails, markEndpointFailureWith, TypeOK
  <2>5. left[at[w]] <= endpointBlacklistTTL(old)
    BY <1>1, <2>1 DEF BlacklistWithinBackoff
  <2> HIDE DEF old, count
  <2>6. old \in Nat /\ count \in Nat
    BY <2>2, <2>3, RampAssumption
  <2>7. /\ endpointBlacklistTTL(old) \in Nat /\ endpointBlacklistTTL(count) \in Nat
        /\ endpointBlacklistTTL(old) <= endpointBlacklistTTL(count)
    BY <2>3, <2>6, TTLMonotone
  <2>8. left'[at[w]] >= left[at[w]]
    BY <2>2, <2>4, <2>5, <2>7
  <2>9. failCount'[at[w]] >= failCount[at[w]]
    BY <2>3, <2>4, <2>6 DEF old
  <2> QED
    BY <2>8, <2>9
<1> DEFINE Adds == \A w \in Workers, f \in Floors :
                      AttemptFails(w, f) => /\ left'[at[w]] >= left[at[w]]
                                            /\ failCount'[at[w]] >= failCount[at[w]]
<1>2. TypeOK /\ BlacklistWithinBackoff /\ [Next]_vars => [Adds]_vars
  BY <1>1
<1> HIDE DEF Adds
<1>3. Spec => [][Adds]_vars
  BY <1>2, TypeCorrect, BackoffBounded, PTL DEF Spec
<1> QED
  BY <1>3 DEF FailureNeverShortens, Adds

\* An attempt never goes to an endpoint whose blacklist has longer to run than
\* another's, for every number of endpoints and every position of the cursor.
THEOREM PicksWaitLeast == Spec => PickWaitsLeast
<1> DEFINE Least == \A w \in Workers :
                       (at[w] = NoEndpoint /\ at'[w] # NoEndpoint)
                          => \A j \in Endpoints : left[at'[w]] <= left[j]
<1>1. TypeOK /\ [Next]_vars => [Least]_vars
  <2> SUFFICES ASSUME TypeOK, Next, NEW w \in Workers,
                      at[w] = NoEndpoint, at'[w] # NoEndpoint, NEW j \in Endpoints
               PROVE  left[at'[w]] <= left[j]
    OBVIOUS
  <2>1. pickRelayEndpoint(w)
    BY DEF Next, pickRelayEndpoint, AttemptEnds, PollSucceeds, AttemptFails, Tick, TypeOK
  <2>2. PICK i \in Endpoints : (FirstFree(i) \/ Soonest(i)) /\ at' = [at EXCEPT ![w] = i]
    BY <2>1 DEF pickRelayEndpoint
  <2>3. at'[w] = i /\ left[i] \in Nat /\ left[j] \in Nat
    BY <2>2 DEF TypeOK
  <2>4. CASE FirstFree(i)
    BY <2>3, <2>4 DEF FirstFree, Free
  <2>5. CASE Soonest(i)
    BY <2>3, <2>5 DEF Soonest
  <2> QED
    BY <2>2, <2>4, <2>5
<1> HIDE DEF Least
<1>2. Spec => [][Least]_vars
  BY <1>1, TypeCorrect, PTL DEF Spec
<1> QED
  BY <1>2 DEF PickWaitsLeast, Least

=============================================================================
