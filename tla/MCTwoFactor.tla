----------------------------- MODULE MCTwoFactor -----------------------------
(* Model-checking instance of TwoFactor. *)
EXTENDS TwoFactor, TLC

Symmetry == Permutations(Requests) \cup Permutations(Challenges)
=============================================================================
