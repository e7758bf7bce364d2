--------------------------- MODULE MCOrganizations ---------------------------
(* Model-checking instance of Organizations. *)
EXTENDS Organizations, TLC

Symmetry == Permutations(Requests) \cup Permutations(Users)
=============================================================================
