------------------------------- MODULE MCExit -------------------------------
(***************************************************************************)
(* Instances of Exit for model checking.                                   *)
(***************************************************************************)
EXTENDS Exit, TLC

CONSTANTS a, b, c1, c2

\* One session, and two sessions, of client c1.
OneOwner == a :> c1
SameOwner == (a :> c1) @@ (b :> c1)

\* Handlers run the same code and are told apart by nothing else.
HandlerSymmetry == Permutations(Handlers)

=============================================================================
