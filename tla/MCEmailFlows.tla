---------------------------- MODULE MCEmailFlows ----------------------------
(* Model-checking instance of EmailFlows. *)
EXTENDS EmailFlows, TLC

Symmetry == Permutations(Requests) \cup Permutations(Emails)
=============================================================================
