---------------------------- MODULE MCRevocation ----------------------------
(* Model-checking instance of Revocation. *)
EXTENDS Revocation, TLC

\* The request slots are interchangeable.
Symmetry == Permutations(Requests)
=============================================================================
