--------------------------- MODULE MCOneTimeTokens ---------------------------
(* Model-checking instance of OneTimeTokens. *)
EXTENDS OneTimeTokens
=============================================================================
