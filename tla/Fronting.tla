------------------------------ MODULE Fronting ------------------------------
(***************************************************************************)
(* The start-up probe of the fronting hosts (internal/carrier/fronting.go):*)
(* which of the configured SNI hosts the client goes on with.  Hosts are   *)
(* numbered from 1, and the ones that are kept keep their order; a result  *)
(* is the time to the answer of each of its valid samples.                 *)
(***************************************************************************)
EXTENDS Naturals, Sequences, FiniteSets

\* validateFrontedProbeResponse: the status is 200 and the body is the plain
\* text of a forwarder that has not been redeployed since doGet returns JSON.
Valid(answer) == answer.status = 200 /\ answer.body = "text"

\* The samples of one host: the times of its attempts that were answered and
\* are valid.
Samples(attempts) ==
    [k \in {j \in DOMAIN attempts : attempts[j].answered /\ Valid(attempts[j])}
        |-> attempts[k].time]

Ok(samples) == DOMAIN samples # {}

\* The element at index n / 2, counted from 0, of the n values of f when they
\* are sorted: at most n / 2 are smaller, and more than n / 2 are not greater.
Middle(f) ==
    LET half == Cardinality(DOMAIN f) \div 2
    IN  CHOOSE v \in {f[x] : x \in DOMAIN f} :
            /\ Cardinality({x \in DOMAIN f : f[x] < v}) <= half
            /\ Cardinality({x \in DOMAIN f : f[x] <= v}) > half

Latency(samples) == IF Ok(samples) THEN Middle(samples) ELSE 0

\* The hosts that pass.
Successes(results) == {i \in DOMAIN results : Ok(results[i])}

\* The middle of the latencies of the hosts that pass.
Median(results) == Middle([i \in Successes(results) |-> Latency(results[i])])

\* Mutant: the threshold is the median itself.
ThresholdMedian(results) == Median(results)

Threshold(results) == 3 * Median(results)

selectFrontedClientIndexes(results) ==
    LET good == Successes(results)
        kept == {i \in good : Latency(results[i]) <= Threshold(results)}
    IN  IF Len(results) <= 1 \/ good = {} THEN DOMAIN results
        ELSE IF Cardinality(good) <= 2 \/ Median(results) = 0 \/ Cardinality(kept) < 2 THEN good
        ELSE kept

\* The hosts that NewFrontedClients returns clients for; without hosts in the
\* configuration there is one, and one is not probed.
filterFrontedClientsByProbe(attempts, probes) ==
    IF Len(attempts) <= 1 \/ ~probes THEN DOMAIN attempts
    ELSE selectFrontedClientIndexes([i \in DOMAIN attempts |-> Samples(attempts[i])])

=============================================================================
