----------------------------- MODULE MCPasswords -----------------------------
(* Model-checking instance of Passwords. *)
EXTENDS Passwords, TLC

Symmetry == Permutations(Requests)
=============================================================================
