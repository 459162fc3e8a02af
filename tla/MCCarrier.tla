------------------------------ MODULE MCCarrier ------------------------------
(***************************************************************************)
(* Instances of Carrier for model checking.                                *)
(***************************************************************************)
EXTENDS Carrier, TLC

\* Workers run the same loop and are told apart by nothing else.
WorkerSymmetry == Permutations(Workers)

=============================================================================
