------------------------------ MODULE Endpoints ------------------------------
(***************************************************************************)
(* The choice of a relay deployment for each attempt of a poll, and the    *)
(* blacklist it goes by (internal/carrier/client.go, pickRelayEndpoint and *)
(* the markEndpoint functions).  Each action is one critical section of    *)
(* endpointMu; between its pick and its result a worker is waiting for the *)
(* POST, and the results of several workers come in any order.             *)
(*                                                                         *)
(* Time is what is left of each blacklist: blacklistedTill is after now    *)
(* exactly when some time is left, and two blacklists that are both        *)
(* running compare as what is left of them.                                *)
(***************************************************************************)
EXTENDS Integers, Sequences

CONSTANTS
    N,          \* number of endpoints; New refuses an empty list
    Workers,    \* poll workers
    Ramp,       \* TTL after 1, 2, ... consecutive failures; the last one stays
    RateFloor,  \* floor of the failure count for HTTP 429 (3 in the code)
    HardFloor   \* floor for HTTP 403, quota and auth errors (5 in the code)

ASSUME EndpointAssumption == N \in Nat \ {0}
ASSUME RampAssumption ==
    /\ Ramp \in Seq(Nat \ {0})
    /\ Ramp # <<>>
    /\ \A i, j \in 1..Len(Ramp) : i <= j => Ramp[i] <= Ramp[j]
ASSUME FloorAssumption == RateFloor \in Nat /\ HardFloor \in Nat

VARIABLES
    left,          \* time left of each endpoint's blacklist, 0 if it is not listed
    failCount,     \* failures since the last success; Len(Ramp) stands for more
    nextEndpoint,  \* where the next pick starts
    attempt,       \* per worker: attempts of the current poll, 0 outside of one
    at             \* per worker: the endpoint of the POST in flight, or NoEndpoint

vars == <<left, failCount, nextEndpoint, attempt, at>>

Endpoints == 0 .. N - 1

NoEndpoint == -1

maxAttempts == IF N > 1 THEN 2 ELSE 1

Init ==
    /\ left = [i \in Endpoints |-> 0]
    /\ failCount = [i \in Endpoints |-> 0]
    /\ nextEndpoint = 0
    /\ attempt = [w \in Workers |-> 0]
    /\ at = [w \in Workers |-> NoEndpoint]

-----------------------------------------------------------------------------
MinOf(m, n) == IF m <= n THEN m ELSE n
MaxOf(m, n) == IF m <= n THEN n ELSE m

endpointBlacklistTTL(n) == IF n <= 0 THEN 0 ELSE Ramp[MinOf(n, Len(Ramp))]

\* Endpoints that are not blacklisted now.
Free == {i \in Endpoints : left[i] = 0}

\* How many endpoints the loop of pickRelayEndpoint looks at before i.
Before(i) == IF i >= nextEndpoint THEN i - nextEndpoint ELSE i + N - nextEndpoint

\* The loop stops at the first endpoint from nextEndpoint on that is free.
FirstFree(i) == i \in Free /\ \A j \in Free : Before(i) <= Before(j)

\* With none free, the one whose blacklist ends soonest, the lowest of equals.
Soonest(i) ==
    /\ Free = {}
    /\ \A j \in Endpoints : /\ left[i] <= left[j]
                            /\ left[i] = left[j] => i <= j

\* Mutant: the rotation stays at the endpoint it has picked.
FollowingStays(i) == i

\* Where the pick after one of i starts.
Following(i) == IF i = N - 1 THEN 0 ELSE i + 1

\* Worker w starts an attempt: the first of a poll, or its failover.
pickRelayEndpoint(w) ==
    /\ at[w] = NoEndpoint
    /\ \E i \in Endpoints :
        /\ FirstFree(i) \/ Soonest(i)
        /\ nextEndpoint' = Following(i)
        /\ at' = [at EXCEPT ![w] = i]
    /\ attempt' = [attempt EXCEPT ![w] = @ + 1]
    /\ UNCHANGED <<left, failCount>>

\* Mutant: the failure count is reset, the blacklist is not.
SuccessKeepsBlacklist(i) ==
    /\ failCount' = [failCount EXCEPT ![i] = 0]
    /\ UNCHANGED left

markEndpointSuccess(i) ==
    /\ failCount' = [failCount EXCEPT ![i] = 0]
    /\ left' = [left EXCEPT ![i] = 0]

\* Mutant: a floor replaces a failure count that is above it.
FloorPullsDown(i, minFailCount) ==
    LET count == MinOf((IF minFailCount > 0 THEN minFailCount ELSE failCount[i]) + 1, Len(Ramp))
    IN  /\ failCount' = [failCount EXCEPT ![i] = count]
        /\ left' = [left EXCEPT ![i] = endpointBlacklistTTL(count)]

markEndpointFailureWith(i, minFailCount) ==
    LET count == MinOf(MaxOf(failCount[i], minFailCount) + 1, Len(Ramp))
    IN  /\ failCount' = [failCount EXCEPT ![i] = count]
        /\ left' = [left EXCEPT ![i] = endpointBlacklistTTL(count)]

\* The answer is a batch, or empty: the poll is over.
PollSucceeds(w) ==
    /\ at[w] # NoEndpoint
    /\ markEndpointSuccess(at[w])
    /\ at' = [at EXCEPT ![w] = NoEndpoint]
    /\ attempt' = [attempt EXCEPT ![w] = 0]
    /\ UNCHANGED nextEndpoint

\* The floors failures are marked with: 429, 403, and none for any other status,
\* a transport error, or a body that cannot be read or decoded or is too large.
StatusFloors == {0, RateFloor, HardFloor}

\* An error page instead of a batch: hard when it speaks of quota, authorisation,
\* the deployment or a policy, soft otherwise.
ErrorPageFloors == {0, HardFloor}

Floors == StatusFloors \cup ErrorPageFloors

\* The attempt fails; the poll goes on to its failover, or is over.
AttemptFails(w, minFailCount) ==
    /\ at[w] # NoEndpoint
    /\ markEndpointFailureWith(at[w], minFailCount)
    /\ at' = [at EXCEPT ![w] = NoEndpoint]
    /\ attempt' = [attempt EXCEPT ![w] = IF @ < maxAttempts THEN @ ELSE 0]
    /\ UNCHANGED nextEndpoint

\* Time passes.
Tick ==
    /\ Free # Endpoints
    /\ left' = [i \in Endpoints |-> IF left[i] > 0 THEN left[i] - 1 ELSE 0]
    /\ UNCHANGED <<failCount, nextEndpoint, attempt, at>>

AttemptEnds(w) ==
    \/ PollSucceeds(w)
    \/ \E f \in Floors : AttemptFails(w, f)

Next ==
    \/ \E w \in Workers : pickRelayEndpoint(w) \/ AttemptEnds(w)
    \/ Tick

Spec == Init /\ [][Next]_vars

(***************************************************************************)
(* Fairness: some worker keeps polling (runWorker never gives up, though a *)
(* given worker may be refused an idle slot for ever), a POST ends because *)
(* the HTTP client has a timeout, and time passes.                         *)
(***************************************************************************)
FairSpec ==
    /\ Spec
    /\ WF_vars(\E w \in Workers : pickRelayEndpoint(w))
    /\ \A w \in Workers : WF_vars(AttemptEnds(w))
    /\ WF_vars(Tick)

-----------------------------------------------------------------------------
\* Types; an attempt in flight is the first or the failover of a poll.
TypeOK ==
    /\ left \in [Endpoints -> Nat]
    /\ failCount \in [Endpoints -> 0..Len(Ramp)]
    /\ nextEndpoint \in Endpoints
    /\ attempt \in [Workers -> 0..maxAttempts]
    /\ at \in [Workers -> Endpoints \cup {NoEndpoint}]
    /\ \A w \in Workers : at[w] # NoEndpoint => attempt[w] > 0
    /\ \A w \in Workers : at[w] = NoEndpoint => attempt[w] < maxAttempts

\* An endpoint is never kept out for longer than its failure count calls for:
\* whatever order the results of concurrent polls come in, one that has
\* recovered is back in rotation at once.
BlacklistWithinBackoff ==
    \A i \in Endpoints : left[i] <= endpointBlacklistTTL(failCount[i])

\* An attempt goes to an endpoint with the least time left on its blacklist: a
\* listed one is never asked while another is free, nor a far one for a near one.
PickWaitsLeast ==
    [][\A w \in Workers :
        (at[w] = NoEndpoint /\ at'[w] # NoEndpoint)
            => \A j \in Endpoints : left[at'[w]] <= left[j]]_vars

\* Another failure never brings an endpoint back sooner.  A late result of a
\* milder kind (a timeout after a 403) meets an endpoint that is further up the
\* ramp, and the floor must not pull it down.
FailureNeverShortens ==
    [][\A w \in Workers, f \in Floors :
        AttemptFails(w, f) => /\ left'[at[w]] >= left[at[w]]
                              /\ failCount'[at[w]] >= failCount[at[w]]]_vars

\* No deployment is abandoned: however often it has failed, and whatever the
\* others do, every endpoint is asked again and again.
EveryEndpointTried ==
    \A i \in Endpoints : []<>(\E w \in Workers : at[w] = i)

=============================================================================
