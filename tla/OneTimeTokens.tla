---------------------------- MODULE OneTimeTokens ----------------------------
(***************************************************************************)
(* The one-time token service: token.go over the verification table of     *)
(* store.go.  Requests run concurrently; every database call is one atomic *)
(* step and anything may happen between two calls of the same request,     *)
(* the crash of the request included.                                      *)
(*                                                                         *)
(* A row stands for the value it stores: its id tells apart the values     *)
(* stored under one token.  The random token of StoreToken is fresh.       *)
(***************************************************************************)
EXTENDS Naturals, FiniteSets

CONSTANTS
  Requests,     \* concurrently running requests
  Tokens,       \* token strings (an identifier is the digest of one)
  TTL,          \* lifetime of a stored value, in clock ticks
  MaxTime,      \* bound on the clock
  MaxRows       \* bound on the number of rows ever created

ASSUME TokensAssumption ==
  /\ TTL \in Nat \ {0}
  /\ MaxTime \in Nat
  /\ MaxRows \in Nat

VARIABLES
  rows,         \* the verification table
  nextId,       \* ids below nextId have been given to a row
  minted,       \* tokens generated so far
  pc,           \* which database call a request makes next
  arg,          \* the locals of each request
  uses,         \* history: callers each row's value was returned to
  now           \* the clock

vars == <<rows, nextId, minted, pc, arg, uses, now>>

RowId == 0 .. MaxRows - 1
Row == [id : RowId, token : Tokens, createdAt : Nat, expiresAt : Nat]

\* A request's locals: the row LookupToken returned, or the token of the call
\* in progress and the instant at which that call started.
Idle == [kind |-> "none"]
StoreArg == [kind : {"store"}, token : Tokens, since : Nat]
ClaimArg == [kind : {"claim"}, id : RowId]
SweepArg == [kind : {"sweep"}, token : Tokens, at : Nat]

TypeOK ==
  /\ rows \subseteq Row
  /\ nextId \in 0 .. MaxRows
  /\ minted \subseteq Tokens
  /\ pc \in [Requests -> {"idle", "create", "claim", "sweep"}]
  /\ arg \in [Requests -> {Idle} \cup StoreArg \cup ClaimArg \cup SweepArg]
  /\ \A r \in Requests :
       /\ pc[r] = "create" => arg[r] \in StoreArg
       /\ pc[r] = "claim" => arg[r] \in ClaimArg
       /\ pc[r] = "sweep" => arg[r] \in SweepArg
  /\ uses \in [RowId -> Nat]
  /\ now \in 0 .. MaxTime

Init ==
  /\ rows = {}
  /\ nextId = 0
  /\ minted = {}
  /\ pc = [r \in Requests |-> "idle"]
  /\ arg = [r \in Requests |-> Idle]
  /\ uses = [i \in RowId |-> 0]
  /\ now = 0

-----------------------------------------------------------------------------
(* The verification table *)

Live(row) == row.expiresAt > now

\* Stored after `row' as far as the createdAt column tells.
Newer(row, other) == row.createdAt >= other.createdAt

\* A CreateVerification that read the clock at `stamp'.
NewRow(t, stamp) ==
  [id |-> nextId, token |-> t, createdAt |-> stamp, expiresAt |-> stamp + TTL]

\* base.Create of a verification: rows are never merged, ids never reused.
CreateVerification(t, stamp) ==
  /\ nextId < MaxRows
  /\ rows' = rows \cup {NewRow(t, stamp)}
  /\ nextId' = nextId + 1

\* What FindVerification may return: the newest live row of the token.  Rows
\* of one createdAt come back in whatever order the adapter has them.
FindVerification(t) ==
  {row \in rows : /\ row.token = t
                  /\ Live(row)
                  /\ \A other \in rows :
                        other.token = t /\ Live(other) => Newer(row, other)}

Return(r) ==
  /\ pc' = [pc EXCEPT ![r] = "idle"]
  /\ arg' = [arg EXCEPT ![r] = Idle]

-----------------------------------------------------------------------------
(* Storing *)

StoreToken(r, t) ==
  /\ pc[r] = "idle"
  /\ t \notin minted
  /\ minted' = minted \cup {t}
  /\ CreateVerification(t, now)
  /\ UNCHANGED <<pc, arg, uses, now>>

\* StoreTokenValue, first call: remove the previous records of the token.
StoreTokenValue(r, t) ==
  /\ pc[r] = "idle"
  /\ minted' = minted \cup {t}
  /\ rows' = {row \in rows : row.token # t}
  /\ pc' = [pc EXCEPT ![r] = "create"]
  /\ arg' = [arg EXCEPT ![r] = [kind |-> "store", token |-> t, since |-> now]]
  /\ UNCHANGED <<nextId, uses, now>>

\* StoreTokenValue, second call.  The clock is read between the two.
StoreTokenValueCreate(r) ==
  /\ pc[r] = "create"
  /\ \E stamp \in arg[r].since .. now : CreateVerification(arg[r].token, stamp)
  /\ Return(r)
  /\ UNCHANGED <<minted, uses, now>>

-----------------------------------------------------------------------------
(* Consuming *)

\* ConsumeToken, first call, when LookupToken finds a row.
ConsumeTokenLookup(r, t) ==
  /\ pc[r] = "idle"
  /\ \E row \in FindVerification(t) :
       arg' = [arg EXCEPT ![r] = [kind |-> "claim", id |-> row.id]]
  /\ pc' = [pc EXCEPT ![r] = "claim"]
  /\ UNCHANGED <<rows, nextId, minted, uses, now>>

\* Mutant: ConsumeToken goes on to its claim with the nil row of a miss.
LookupTokenMissFallsThrough(r, t) ==
  /\ pc[r] = "idle"
  /\ FindVerification(t) = {}
  /\ pc' = [pc EXCEPT ![r] = "claim"]
  /\ UNCHANGED <<rows, nextId, minted, arg, uses, now>>

\* LookupToken when no live row is left: the expired ones are deleted next.
LookupTokenMiss(r, t) ==
  /\ pc[r] = "idle"
  /\ FindVerification(t) = {}
  /\ pc' = [pc EXCEPT ![r] = "sweep"]
  /\ arg' = [arg EXCEPT ![r] = [kind |-> "sweep", token |-> t, at |-> now]]
  /\ UNCHANGED <<rows, nextId, minted, uses, now>>

LookupTokenSweep(r) ==
  /\ pc[r] = "sweep"
  /\ rows' = {row \in rows : ~(row.token = arg[r].token /\ row.expiresAt <= arg[r].at)}
  /\ Return(r)
  /\ UNCHANGED <<nextId, minted, uses, now>>

\* Mutant: the value is handed out whatever the delete's count says.
ConsumeTokenClaimUncounted(r) ==
  /\ pc[r] = "claim"
  /\ rows' = {row \in rows : row.id # arg[r].id}
  /\ uses' = [uses EXCEPT ![arg[r].id] = @ + 1]
  /\ Return(r)
  /\ UNCHANGED <<nextId, minted, now>>

\* ConsumeToken, second call: the delete is the claim, and only the caller
\* whose delete removed the row is handed the value.
ConsumeTokenClaim(r) ==
  LET claimed == Cardinality({row \in rows : row.id = arg[r].id}) IN
  /\ pc[r] = "claim"
  /\ rows' = {row \in rows : row.id # arg[r].id}
  /\ uses' = IF claimed = 1 THEN [uses EXCEPT ![arg[r].id] = @ + 1] ELSE uses
  /\ Return(r)
  /\ UNCHANGED <<nextId, minted, now>>

-----------------------------------------------------------------------------
(* Failures, housekeeping, time *)

\* A database call fails without effect, the request is cancelled or its
\* process dies, or the caller only wanted LookupToken: the rest is not done.
Abandon(r) ==
  /\ pc[r] # "idle"
  /\ Return(r)
  /\ UNCHANGED <<rows, nextId, minted, uses, now>>

\* The claiming delete is applied but its answer is lost: ConsumeToken
\* returns the error and no value.
ClaimAnswerLost(r) ==
  /\ pc[r] = "claim"
  /\ rows' = {row \in rows : row.id # arg[r].id}
  /\ Return(r)
  /\ UNCHANGED <<nextId, minted, uses, now>>

\* Mutant: the sweep compares with the creation time.
CleanupExpiredNever ==
  /\ \E row \in rows : row.expiresAt <= now
  /\ rows' = {row \in rows : row.createdAt <= now}
  /\ UNCHANGED <<nextId, minted, pc, arg, uses, now>>

\* The verification half of CleanupExpired, run by StartCleanup's ticker.
CleanupExpired ==
  /\ \E row \in rows : row.expiresAt <= now
  /\ rows' = {row \in rows : ~(row.expiresAt <= now)}
  /\ UNCHANGED <<nextId, minted, pc, arg, uses, now>>

Tick ==
  /\ now < MaxTime
  /\ now' = now + 1
  /\ UNCHANGED <<rows, nextId, minted, pc, arg, uses>>

RequestStep(r) ==
  \/ \E t \in Tokens : \/ StoreToken(r, t)
                       \/ StoreTokenValue(r, t)
                       \/ ConsumeTokenLookup(r, t)
                       \/ LookupTokenMiss(r, t)
  \/ StoreTokenValueCreate(r)
  \/ LookupTokenSweep(r)
  \/ ConsumeTokenClaim(r)
  \/ Abandon(r)
  \/ ClaimAnswerLost(r)

Next ==
  \/ \E r \in Requests : RequestStep(r)
  \/ CleanupExpired
  \/ Tick

\* The ticker of StartCleanup keeps firing; nothing else is promised to run.
Spec == Init /\ [][Next]_vars /\ WF_vars(CleanupExpired)

-----------------------------------------------------------------------------
(* Properties *)

\* The delete is the claim (ConsumeToken): however the lookups and claims of
\* concurrent requests interleave, however stores replace the value under
\* them, and whatever answers are lost, each stored value is returned to at
\* most one caller.
SingleUse == \A i \in RowId : uses[i] <= 1

\* A row never comes back once it was deleted, and each is claimed once: the
\* table implements the vault, with the ids it has used as its deposits.
Vault == INSTANCE TokenVault WITH
  Deposits <- RowId,
  outstanding <- {row.id : row \in rows},
  spent <- {i \in RowId : i < nextId /\ \A row \in rows : row.id # i},
  uses <- uses

ImplementsVault == Vault!VaultSpec

\* StartCleanup collects what nobody redeems: a row that has expired is
\* eventually gone, although rows are stored and redeemed all the while.
ExpiredCollected ==
  \A i \in RowId :
    (\E row \in rows : row.id = i /\ row.expiresAt <= now)
      ~> (\A row \in rows : row.id # i)
=============================================================================
