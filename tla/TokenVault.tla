----------------------------- MODULE TokenVault -----------------------------
(***************************************************************************)
(* What the one-time token service of token.go promises the flows built on *)
(* it (password reset, magic link, OAuth state, pending two-factor         *)
(* challenge...), without saying how the verification table delivers it.   *)
(* A deposit is one stored value.  It can be withdrawn once, by one        *)
(* caller, or be discarded (replaced, expired, lost with a failed call);   *)
(* nothing brings it back after either.                                    *)
(***************************************************************************)
EXTENDS Naturals

CONSTANT Deposits      \* identities of the values that may ever be stored

VARIABLES
  outstanding,         \* deposits that can still be withdrawn
  spent,               \* deposits that existed and no longer do
  uses                 \* how many callers each deposit was handed to

vaultVars == <<outstanding, spent, uses>>

VaultInit ==
  /\ outstanding = {}
  /\ spent = {}
  /\ uses = [d \in Deposits |-> 0]

Deposit(d) ==
  /\ d \notin outstanding \cup spent
  /\ outstanding' = outstanding \cup {d}
  /\ UNCHANGED <<spent, uses>>

Withdraw(d) ==
  /\ d \in outstanding
  /\ outstanding' = outstanding \ {d}
  /\ spent' = spent \cup {d}
  /\ uses' = [uses EXCEPT ![d] = @ + 1]

Discard(S) ==
  /\ S # {}
  /\ outstanding' = outstanding \ S
  /\ spent' = spent \cup S
  /\ UNCHANGED uses

VaultNext ==
  \/ \E d \in Deposits : Deposit(d) \/ Withdraw(d)
  \/ \E S \in SUBSET outstanding : Discard(S)

VaultSpec == VaultInit /\ [][VaultNext]_vaultVars
=============================================================================
