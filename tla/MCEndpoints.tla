----------------------------- MODULE MCEndpoints -----------------------------
(***************************************************************************)
(* Instance of Endpoints for model checking.                               *)
(***************************************************************************)
EXTENDS Endpoints

\* The ramp of endpointBlacklistTTL, in seconds.
CodeRamp ==
    [n \in 1..8 |-> IF n <= 5 THEN 3 * 2^(n - 1)
                    ELSE CASE n = 6 -> 300 [] n = 7 -> 1800 [] n = 8 -> 3600]

\* The ramp of the code is one the specification and its theorems are about.
ASSUME CodeRampAssumption ==
    \A i, j \in DOMAIN CodeRamp : i <= j => 0 < CodeRamp[i] /\ CodeRamp[i] <= CodeRamp[j]

\* A ramp of the same kind, short enough to be walked through tick by tick.
SmallRamp == <<1, 2, 4>>

=============================================================================
