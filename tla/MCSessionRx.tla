----------------------------- MODULE MCSessionRx -----------------------------
(***************************************************************************)
(* Model-checking instance of SessionRx.  The workers are interchangeable. *)
(***************************************************************************)
EXTENDS SessionRx, TLC

WorkerSymmetry == Permutations(Workers)

=============================================================================
