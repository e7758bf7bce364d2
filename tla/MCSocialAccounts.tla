-------------------------- MODULE MCSocialAccounts --------------------------
(* Model-checking instance of SocialAccounts. *)
EXTENDS SocialAccounts, TLC

Symmetry == Permutations(Requests) \cup Permutations(Emails)
=============================================================================
