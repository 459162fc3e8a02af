----------------------------- MODULE MCUpstream -----------------------------
(* Upstream with two routers, for TLC. *)
EXTENDS Upstream, TLC

CONSTANTS r1, r2

RouterSymmetry == Permutations(Routers)
=============================================================================
