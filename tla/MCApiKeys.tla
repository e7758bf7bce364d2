------------------------------ MODULE MCApiKeys ------------------------------
(* Model-checking instance of ApiKeys. *)
EXTENDS ApiKeys, TLC

Symmetry == Permutations(Requests)
=============================================================================
