----------------------------- MODULE StoreProofs -----------------------------
(***************************************************************************)
(* Proofs about what is stored.                                            *)
(*                                                                         *)
(* OneTimeTokens, for every set of requests and tokens, every lifetime and *)
(* every number of rows.  SingleUse is not inductive: a claim may hand a   *)
(* value out a second time if the row is still in the table after the      *)
(* first.  The strengthening says that a value handed out has left the     *)
(* table (Inv_Spent) and cannot re-enter it, because ids below nextId are  *)
(* never given again (Inv_Ids).                                            *)
(*                                                                         *)
(* Storage, for every set of callers, ids, keys and queries and any number *)
(* of rows and operations: FiltersAgree, IndexAgrees, UniqueKept and       *)
(* ClaimedOnce.                                                            *)
(*                                                                         *)
(* Migrations, for every set of boots and verifiers, every schema, every   *)
(* database that a migration leaves behind and any number of crashes, lock *)
(* timeouts and duplicates: ReadyMeansComplete and BootsDoNotCollide.      *)
(***************************************************************************)
EXTENDS OneTimeTokens, Storage, Migrations, FiniteSetTheorems, SequenceTheorems,
        WellFoundedInduction, TLAPS

-----------------------------------------------------------------------------
(* OneTimeTokens *)

\* Ids identify rows, and every row's id was drawn below nextId.
Inv_Ids ==
  /\ \A row \in rows : row.id < nextId
  /\ \A a, b \in rows : a.id = b.id => a = b

\* A value that was handed out was handed out once and has left the table.
Inv_Spent ==
  \A i \in RowId :
    /\ uses[i] \in {0, 1}
    /\ uses[i] = 1 => i < nextId /\ \A row \in rows : row.id # i

\* A request only ever claims a row that was in the table.
Inv_Claims ==
  \A r \in Requests : pc[r] = "claim" => arg[r].id < nextId

IInv == TypeOK /\ Inv_Ids /\ Inv_Spent /\ Inv_Claims

-----------------------------------------------------------------------------
\* The table is well formed in the initial state.
LEMMA InitTypeOK == Init => TypeOK
  BY TokensAssumption DEF Init, TypeOK, Idle, RowId

\* Every step of every request keeps rows, locals and counters well formed.
LEMMA NextTypeOK == TypeOK /\ [Next]_vars => TypeOK'
<1> SUFFICES ASSUME TypeOK, [Next]_vars PROVE TypeOK'
  OBVIOUS
<1> USE TokensAssumption
<1>1. ASSUME NEW r \in Requests, NEW t \in Tokens, StoreToken(r, t) PROVE TypeOK'
  BY <1>1 DEF StoreToken, CreateVerification, NewRow, TypeOK, Row, RowId
<1>2. ASSUME NEW r \in Requests, NEW t \in Tokens, StoreTokenValue(r, t) PROVE TypeOK'
  <2>1. [kind |-> "store", token |-> t, since |-> now] \in StoreArg
    BY DEF StoreArg, TypeOK
  <2> QED
    BY <1>2, <2>1 DEF StoreTokenValue, TypeOK
<1>3. ASSUME NEW r \in Requests, NEW t \in Tokens, ConsumeTokenLookup(r, t) PROVE TypeOK'
  <2>1. PICK row \in FindVerification(t) :
          arg' = [arg EXCEPT ![r] = [kind |-> "claim", id |-> row.id]]
    BY <1>3 DEF ConsumeTokenLookup
  <2>2. [kind |-> "claim", id |-> row.id] \in ClaimArg
    BY <2>1 DEF ClaimArg, FindVerification, TypeOK, Row
  <2> QED
    BY <1>3, <2>1, <2>2 DEF ConsumeTokenLookup, TypeOK
<1>4. ASSUME NEW r \in Requests, NEW t \in Tokens, LookupTokenMiss(r, t) PROVE TypeOK'
  <2>1. [kind |-> "sweep", token |-> t, at |-> now] \in SweepArg
    BY DEF SweepArg, TypeOK
  <2> QED
    BY <1>4, <2>1 DEF LookupTokenMiss, TypeOK
<1>5. ASSUME NEW r \in Requests, StoreTokenValueCreate(r) PROVE TypeOK'
  <2>1. arg[r] \in StoreArg
    BY <1>5 DEF StoreTokenValueCreate, TypeOK
  <2>2. PICK stamp \in arg[r].since .. now : CreateVerification(arg[r].token, stamp)
    BY <1>5 DEF StoreTokenValueCreate
  <2>3. NewRow(arg[r].token, stamp) \in Row
    BY <2>1, <2>2 DEF NewRow, CreateVerification, StoreArg, Row, RowId, TypeOK
  <2>4. /\ rows' \subseteq Row
        /\ nextId' \in 0 .. MaxRows
    BY <2>2, <2>3 DEF CreateVerification, TypeOK
  <2> QED
    BY <1>5, <2>4 DEF StoreTokenValueCreate, Return, TypeOK
<1>6. ASSUME NEW r \in Requests, LookupTokenSweep(r) PROVE TypeOK'
  BY <1>6 DEF LookupTokenSweep, Return, TypeOK
<1>7. ASSUME NEW r \in Requests, ConsumeTokenClaim(r) PROVE TypeOK'
  <2>1. arg[r].id \in RowId
    BY <1>7 DEF ConsumeTokenClaim, TypeOK, ClaimArg
  <2>2. uses' \in [RowId -> Nat]
    BY <1>7, <2>1 DEF ConsumeTokenClaim, TypeOK
  <2> QED
    BY <1>7, <2>2 DEF ConsumeTokenClaim, Return, TypeOK
<1>8. ASSUME NEW r \in Requests, Abandon(r) \/ ClaimAnswerLost(r) PROVE TypeOK'
  BY <1>8 DEF Abandon, ClaimAnswerLost, Return, TypeOK
<1>9. CASE CleanupExpired
  BY <1>9 DEF CleanupExpired, TypeOK
<1>10. CASE Tick
  BY <1>10 DEF Tick, TypeOK
<1>11. CASE UNCHANGED vars
  BY <1>11 DEF vars, TypeOK
<1> QED
  BY <1>1, <1>2, <1>3, <1>4, <1>5, <1>6, <1>7, <1>8, <1>9, <1>10, <1>11
  DEF Next, RequestStep

\* The table, the requests' locals and the counters always have their types.
THEOREM TypeCorrect == Spec => []TypeOK
  BY InitTypeOK, NextTypeOK, PTL DEF Spec

-----------------------------------------------------------------------------
\* A counted delete that reports one row did find the row in the table.
LEMMA CountedDelete ==
  ASSUME NEW i, Cardinality({row \in rows : row.id = i}) = 1
  PROVE  \E row \in rows : row.id = i
<1>1. {row \in rows : row.id = i} # {}
  BY FS_EmptySet
<1> QED
  BY <1>1

\* Steps that only remove rows, and count no use, keep ids and uses apart.
LEMMA RemovalKeepsInv ==
  ASSUME IInv, TypeOK', rows' \subseteq rows, nextId' = nextId, uses' = uses,
         Inv_Claims'
  PROVE  IInv'
  BY DEF IInv, Inv_Ids, Inv_Spent

\* CreateVerification draws an id that no row has and no caller was given.
LEMMA CreateKeepsInv ==
  ASSUME IInv, TypeOK', NEW t, NEW stamp, CreateVerification(t, stamp),
         uses' = uses, Inv_Claims'
  PROVE  IInv'
<1> USE DEF IInv, CreateVerification, NewRow
<1>1. nextId' = nextId + 1 /\ nextId \in Nat
  BY DEF TypeOK
<1>2. \A row \in rows : row.id \in Nat
  BY DEF TypeOK, Row, RowId
<1>3. Inv_Ids'
  BY <1>1, <1>2 DEF Inv_Ids
<1>4. Inv_Spent'
  BY <1>1, <1>2 DEF Inv_Spent, RowId
<1> QED
  BY <1>3, <1>4

\* The inductive step: the strengthened invariant survives every action.
LEMMA NextIInv == IInv /\ [Next]_vars => IInv'
<1> SUFFICES ASSUME IInv, [Next]_vars PROVE IInv'
  OBVIOUS
<1>0. TypeOK'
  BY NextTypeOK DEF IInv
<1>1. ASSUME NEW r \in Requests, NEW t \in Tokens, StoreToken(r, t) PROVE IInv'
  <2>1. Inv_Claims'
    BY <1>1 DEF StoreToken, CreateVerification, IInv, Inv_Claims, TypeOK, ClaimArg, RowId
  <2> QED
    BY <1>0, <1>1, <2>1, CreateKeepsInv DEF StoreToken
<1>2. ASSUME NEW r \in Requests, NEW t \in Tokens, StoreTokenValue(r, t) PROVE IInv'
  <2>1. Inv_Claims'
    BY <1>2 DEF StoreTokenValue, IInv, Inv_Claims, TypeOK
  <2> QED
    BY <1>0, <1>2, <2>1, RemovalKeepsInv DEF StoreTokenValue
<1>3. ASSUME NEW r \in Requests, NEW t \in Tokens, ConsumeTokenLookup(r, t) PROVE IInv'
  <2>1. Inv_Claims'
    BY <1>3 DEF ConsumeTokenLookup, FindVerification, IInv, Inv_Claims, Inv_Ids, TypeOK
  <2> QED
    BY <1>0, <1>3, <2>1, RemovalKeepsInv DEF ConsumeTokenLookup
<1>4. ASSUME NEW r \in Requests, NEW t \in Tokens, LookupTokenMiss(r, t) PROVE IInv'
  <2>1. Inv_Claims'
    BY <1>4 DEF LookupTokenMiss, IInv, Inv_Claims, TypeOK
  <2> QED
    BY <1>0, <1>4, <2>1, RemovalKeepsInv DEF LookupTokenMiss
<1>5. ASSUME NEW r \in Requests, StoreTokenValueCreate(r) PROVE IInv'
  <2>1. PICK stamp \in arg[r].since .. now : CreateVerification(arg[r].token, stamp)
    BY <1>5 DEF StoreTokenValueCreate
  <2>2. Inv_Claims'
    BY <1>5, <2>1
    DEF StoreTokenValueCreate, CreateVerification, Return, IInv, Inv_Claims, TypeOK,
        ClaimArg, RowId
  <2> QED
    BY <1>0, <1>5, <2>1, <2>2, CreateKeepsInv DEF StoreTokenValueCreate
<1>6. ASSUME NEW r \in Requests, LookupTokenSweep(r) PROVE IInv'
  <2>1. Inv_Claims'
    BY <1>6 DEF LookupTokenSweep, Return, IInv, Inv_Claims, TypeOK
  <2> QED
    BY <1>0, <1>6, <2>1, RemovalKeepsInv DEF LookupTokenSweep
<1>7. ASSUME NEW r \in Requests, ConsumeTokenClaim(r) PROVE IInv'
  <2> DEFINE i == arg[r].id
             claimed == Cardinality({row \in rows : row.id = i})
  <2>1. i \in RowId /\ i < nextId
    BY <1>7 DEF ConsumeTokenClaim, IInv, Inv_Claims, TypeOK, ClaimArg
  <2>2. rows' = {row \in rows : row.id # i} /\ nextId' = nextId
    BY <1>7 DEF ConsumeTokenClaim
  <2>3. Inv_Ids'
    BY <2>2 DEF IInv, Inv_Ids
  <2>4. Inv_Claims'
    BY <1>7 DEF ConsumeTokenClaim, Return, IInv, Inv_Claims, TypeOK
  <2>5. Inv_Spent'
    <3>1. CASE claimed = 1
      <4>1. PICK row \in rows : row.id = i
        BY <3>1, CountedDelete
      <4>2. uses[i] = 0
        BY <2>1, <4>1 DEF IInv, Inv_Spent
      <4>3. uses' = [uses EXCEPT ![i] = 1]
        BY <1>7, <2>1, <3>1, <4>2 DEF ConsumeTokenClaim, IInv, TypeOK
      <4> QED
        BY <2>1, <2>2, <4>3 DEF IInv, Inv_Spent, TypeOK
    <3>2. CASE claimed # 1
      <4>1. uses' = uses
        BY <1>7, <3>2 DEF ConsumeTokenClaim
      <4> QED
        BY <2>2, <4>1 DEF IInv, Inv_Spent
    <3> QED
      BY <3>1, <3>2
  <2> QED
    BY <1>0, <2>3, <2>4, <2>5 DEF IInv
<1>8. ASSUME NEW r \in Requests, Abandon(r) \/ ClaimAnswerLost(r) PROVE IInv'
  <2>1. Inv_Claims'
    BY <1>8 DEF Abandon, ClaimAnswerLost, Return, IInv, Inv_Claims, TypeOK
  <2> QED
    BY <1>0, <1>8, <2>1, RemovalKeepsInv DEF Abandon, ClaimAnswerLost
<1>9. CASE CleanupExpired \/ Tick \/ UNCHANGED vars
  <2>1. Inv_Claims'
    BY <1>9 DEF CleanupExpired, Tick, vars, IInv, Inv_Claims
  <2> QED
    BY <1>0, <1>9, <2>1, RemovalKeepsInv DEF CleanupExpired, Tick, vars
<1> QED
  BY <1>1, <1>2, <1>3, <1>4, <1>5, <1>6, <1>7, <1>8, <1>9 DEF Next, RequestStep

\* The strengthening holds before anything is stored.
LEMMA InitIInv == Init => IInv
  BY InitTypeOK DEF Init, IInv, Inv_Ids, Inv_Spent, Inv_Claims, RowId

\* ConsumeToken never hands one stored value to two callers, whatever the
\* number of requests, tokens and rows.
THEOREM SingleUseHolds == Spec => []SingleUse
<1>1. IInv => SingleUse
  BY DEF IInv, Inv_Spent, SingleUse
<1> QED
  BY InitIInv, NextIInv, <1>1, PTL DEF Spec

-----------------------------------------------------------------------------
(* Refinement *)

\* The ids in the table, and those that have left it.
Outstanding == {row.id : row \in rows}
Spent == {i \in RowId : i < nextId /\ \A row \in rows : row.id # i}

\* A step that only removes rows is the vault's Discard, or no step at all.
LEMMA RemovalIsDiscard ==
  ASSUME IInv, rows' \subseteq rows, nextId' = nextId, uses' = uses
  PROVE  [Vault!VaultNext]_(Vault!vaultVars)
<1> DEFINE gone == Outstanding \ Outstanding'
<1>1. Outstanding' \subseteq Outstanding
  BY DEF Outstanding
<1>2. Outstanding' = Outstanding \ gone
  BY <1>1
<1>3. Spent' = Spent \cup gone
  <2>1. \A i \in gone : i \in RowId /\ i < nextId
    BY DEF Outstanding, IInv, Inv_Ids, TypeOK, Row
  <2>2. \A i : i \in Outstanding <=> \E row \in rows : row.id = i
    BY DEF Outstanding
  <2>3. \A i : i \in Outstanding' <=> \E row \in rows' : row.id = i
    BY DEF Outstanding
  <2>4. ASSUME NEW i PROVE i \in Spent' <=> i \in Spent \cup gone
    BY <2>1, <2>2, <2>3 DEF Spent
  <2> QED
    BY <2>4
<1>4. CASE gone = {}
  BY <1>2, <1>3, <1>4 DEF Vault!vaultVars, Outstanding, Spent
<1>5. CASE gone # {}
  <2>1. gone \in SUBSET Outstanding
    OBVIOUS
  <2>2. Vault!Discard(gone)
    BY <1>2, <1>3, <1>5 DEF Vault!Discard, Outstanding, Spent
  <2>3. Vault!VaultNext
    BY <2>1, <2>2 DEF Vault!VaultNext, Vault!Discard, Outstanding
  <2> QED
    BY <2>3
<1> QED
  BY <1>4, <1>5

\* CreateVerification is the vault's Deposit of a new identity.
LEMMA CreateIsDeposit ==
  ASSUME IInv, NEW t, NEW stamp, CreateVerification(t, stamp), uses' = uses
  PROVE  Vault!VaultNext
<1>1. nextId \in RowId /\ nextId' = nextId + 1
  BY TokensAssumption DEF CreateVerification, IInv, TypeOK, RowId
<1>2. nextId \notin Outstanding \cup Spent
  BY <1>1 DEF Outstanding, Spent, IInv, Inv_Ids, TypeOK, RowId
<1>6. NewRow(t, stamp) \in rows' /\ NewRow(t, stamp).id = nextId
  BY DEF CreateVerification, NewRow
<1>7. \A row \in rows' : row \in rows \/ row.id = nextId
  BY DEF CreateVerification, NewRow
<1>3. Outstanding' = Outstanding \cup {nextId}
  BY <1>6, <1>7 DEF Outstanding, CreateVerification
<1>4. Spent' = Spent
  <2>1. \A i \in RowId : i < nextId' <=> i < nextId \/ i = nextId
    BY <1>1 DEF RowId
  <2>3. \E row \in rows' : row.id = nextId
    BY <1>6
  <2>4. rows \subseteq rows'
    BY DEF CreateVerification
  <2>5. ASSUME NEW i \in RowId PROVE i \in Spent' <=> i \in Spent
    <3>1. i = nextId => i \notin Spent /\ i \notin Spent'
      BY <1>2, <2>3 DEF Spent
    <3>2. i # nextId => (i \in Spent' <=> i \in Spent)
      BY <1>7, <2>1, <2>4 DEF Spent
    <3> QED
      BY <3>1, <3>2
  <2> QED
    BY <2>5 DEF Spent
<1>5. Vault!Deposit(nextId)
  BY <1>2, <1>3, <1>4 DEF Vault!Deposit, Outstanding, Spent
<1> QED
  BY <1>1, <1>5 DEF Vault!VaultNext, Vault!Deposit

\* A claim whose delete removed the row is the vault's Withdraw; one that
\* came too late changes nothing the vault can see.
LEMMA ClaimIsWithdraw ==
  ASSUME IInv, NEW r \in Requests, ConsumeTokenClaim(r)
  PROVE  [Vault!VaultNext]_(Vault!vaultVars)
<1> DEFINE i == arg[r].id
           claimed == Cardinality({row \in rows : row.id = i})
<1>1. i \in RowId /\ i < nextId
  BY DEF ConsumeTokenClaim, IInv, Inv_Claims, TypeOK, ClaimArg
<1>2. rows' = {row \in rows : row.id # i} /\ nextId' = nextId
  BY DEF ConsumeTokenClaim
<1>3. CASE claimed = 1
  <2>1. PICK row \in rows : row.id = i
    BY <1>3, CountedDelete
  <2>2. i \in Outstanding
    BY <2>1 DEF Outstanding
  <2>3. Outstanding' = Outstanding \ {i}
    BY <1>2 DEF Outstanding
  <2>4. Spent' = Spent \cup {i}
    BY <1>1, <1>2 DEF Spent
  <2>5. uses' = [uses EXCEPT ![i] = @ + 1]
    BY <1>3 DEF ConsumeTokenClaim
  <2>6. Vault!Withdraw(i)
    BY <2>2, <2>3, <2>4, <2>5 DEF Vault!Withdraw, Outstanding, Spent
  <2>7. Vault!VaultNext
    BY <1>1, <2>6 DEF Vault!VaultNext, Vault!Withdraw
  <2> QED
    BY <2>7
<1>4. CASE claimed # 1
  BY <1>2, <1>4, RemovalIsDiscard DEF ConsumeTokenClaim
<1> QED
  BY <1>3, <1>4

\* Every step of the service is a step of the vault or invisible to it.
LEMMA StepSimulation == IInv /\ [Next]_vars => [Vault!VaultNext]_(Vault!vaultVars)
<1> SUFFICES ASSUME IInv, [Next]_vars PROVE [Vault!VaultNext]_(Vault!vaultVars)
  OBVIOUS
<1>1. ASSUME NEW r \in Requests, NEW t \in Tokens, StoreToken(r, t)
      PROVE  Vault!VaultNext
  BY <1>1, CreateIsDeposit DEF StoreToken
<1>2. ASSUME NEW r \in Requests, StoreTokenValueCreate(r)
      PROVE  Vault!VaultNext
  BY <1>2, CreateIsDeposit DEF StoreTokenValueCreate
<1>3. ASSUME NEW r \in Requests, ConsumeTokenClaim(r)
      PROVE  [Vault!VaultNext]_(Vault!vaultVars)
  BY <1>3, ClaimIsWithdraw
<1>4. ASSUME \/ \E r \in Requests, t \in Tokens :
                   StoreTokenValue(r, t) \/ ConsumeTokenLookup(r, t) \/ LookupTokenMiss(r, t)
             \/ \E r \in Requests :
                   LookupTokenSweep(r) \/ Abandon(r) \/ ClaimAnswerLost(r)
             \/ CleanupExpired \/ Tick \/ UNCHANGED vars
      PROVE  rows' \subseteq rows /\ nextId' = nextId /\ uses' = uses
  BY <1>4 DEF StoreTokenValue, ConsumeTokenLookup, LookupTokenMiss, LookupTokenSweep,
              Abandon, ClaimAnswerLost, CleanupExpired, Tick, vars
<1> QED
  BY <1>1, <1>2, <1>3, <1>4, RemovalIsDiscard DEF Next, RequestStep

\* The verification table, driven by any number of concurrent requests,
\* implements the vault: a stored value is withdrawn at most once and never
\* comes back.
THEOREM VaultRefinement == Spec => ImplementsVault
<1>1. Init => Vault!VaultInit
  BY DEF Init, Vault!VaultInit, RowId
<1> QED
  BY <1>1, InitIInv, NextIInv, StepSimulation, PTL DEF Spec, ImplementsVault, Vault!VaultSpec

-----------------------------------------------------------------------------
(* Induction, as a fact about sets *)

\* A set of naturals that is not empty has a least element.
LEMMA Least ==
  ASSUME NEW S, S \subseteq Nat, S # {}
  PROVE  \E m \in S : \A n \in S : m <= n
<1> DEFINE R == {ss \in Nat \X Nat : ss[1] < ss[2]}
<1>1. R = OpToRel(<, Nat)
  BY Zenon DEF OpToRel
<1>2. IsWellFoundedOn(R, Nat)
  BY <1>1, NatLessThanWellFounded, Zenon
<1>3. PICK m \in S : \A n \in S : ~ (<<n, m>> \in R)
  <2> HIDE DEF R
  <2> QED
    BY <1>2, WFMin
<1>4. ASSUME NEW n \in S PROVE m <= n
  <2>1. m \in Nat /\ n \in Nat /\ ~ (n < m)
    BY <1>3
  <2> QED
    BY <2>1
<1> QED
  BY <1>4

\* A set of naturals with a bound has a greatest element.
LEMMA Greatest ==
  ASSUME NEW N \in Nat, NEW S, S \subseteq 0 .. N, S # {}
  PROVE  \E m \in S : \A n \in S : n <= m
<1> DEFINE T == {k \in 0 .. N : N - k \in S}
<1>1. T # {}
  <2>1. PICK n \in S : TRUE
    OBVIOUS
  <2>2. N - n \in 0 .. N /\ N - (N - n) = n
    OBVIOUS
  <2> QED
    BY <2>1, <2>2
<1>2. T \subseteq Nat
  OBVIOUS
<1> HIDE DEF T
<1>3. PICK k \in T : \A l \in T : k <= l
  BY <1>1, <1>2, Least
<1>4. k \in 0 .. N /\ N - k \in S
  BY DEF T
<1>5. ASSUME NEW n \in S PROVE n <= N - k
  <2>1. N - n \in 0 .. N /\ N - (N - n) = n
    OBVIOUS
  <2>2. k <= N - n
    BY <1>3, <2>1 DEF T
  <2> QED
    BY <1>4, <2>2
<1> QED
  BY <1>4, <1>5

\* A set with 0 that is closed under successors holds every natural up to a bound.
LEMMA Induction ==
  ASSUME NEW N \in Nat, NEW T, 0 \in T,
         \A n \in 0 .. N : n \in T /\ n + 1 \in 0 .. N => n + 1 \in T
  PROVE  0 .. N \subseteq T
<1> DEFINE S == (0 .. N) \ T
<1> SUFFICES ASSUME S # {} PROVE FALSE
  OBVIOUS
<1>1. PICK m \in S : \A n \in S : m <= n
  <2>1. S \subseteq Nat
    OBVIOUS
  <2> HIDE DEF S
  <2> QED
    BY <2>1, Least
<1>2. m - 1 \in 0 .. N /\ m - 1 \notin S
  BY <1>1
<1> QED
  BY <1>1, <1>2

\* A function on 0 .. N whose values are in V, the first one base and each of the
\* others what step says of its position and of the value before it.
Recurs(f, N, V, base, step) ==
  /\ f \in [0 .. N -> V]
  /\ f[0] = base
  /\ \A k \in 1 .. N : f[k] = step[k][f[k - 1]]

\* There is one, whatever step says.
LEMMA Recursion ==
  ASSUME NEW N \in Nat, NEW V, NEW base \in V, NEW step, step \in [1 .. N -> [V -> V]]
  PROVE  \E f : Recurs(f, N, V, base, step)
<1> DEFINE Up(n, f) == /\ f \in [0 .. n -> V]
                       /\ f[0] = base
                       /\ \A k \in 1 .. n : f[k] = step[k][f[k - 1]]
           T == {n \in 0 .. N : \E f : Up(n, f)}
<1>1. 0 \in T
  <2> DEFINE g == [k \in 0 .. 0 |-> base]
  <2>1. Up(0, g)
    OBVIOUS
  <2>2. 0 \in 0 .. N
    OBVIOUS
  <2> HIDE DEF Up, g
  <2> QED
    BY <2>1, <2>2
<1>2. ASSUME NEW n \in 0 .. N, n \in T, n + 1 \in 0 .. N
      PROVE  n + 1 \in T
  <2>1. PICK f : Up(n, f)
    BY <1>2
  <2> DEFINE v == step[n + 1][f[n]]
             g == [k \in 0 .. n + 1 |-> IF k = n + 1 THEN v ELSE f[k]]
  <2>2. v \in V
    <3>1. n + 1 \in 1 .. N /\ f[n] \in V
      BY <1>2, <2>1
    <3> QED
      BY <3>1
  <2>3. g \in [0 .. n + 1 -> V]
    <3> SUFFICES ASSUME NEW k \in 0 .. n + 1 PROVE (IF k = n + 1 THEN v ELSE f[k]) \in V
      OBVIOUS
    <3> HIDE DEF v
    <3>1. k # n + 1 => k \in 0 .. n
      BY <1>2
    <3> QED
      BY <2>1, <2>2, <3>1
  <2>4. g[0] = base
    BY <1>2, <2>1
  <2>5. ASSUME NEW k \in 1 .. n + 1 PROVE g[k] = step[k][g[k - 1]]
    <3>1. CASE k = n + 1
      <4>1. g[k] = v /\ g[k - 1] = f[n]
        BY <1>2, <3>1
      <4> QED
        BY <3>1, <4>1
    <3>2. CASE k # n + 1
      <4>1. k \in 1 .. n /\ k - 1 # n + 1 /\ k - 1 \in 0 .. n + 1
        BY <1>2, <2>5, <3>2
      <4>2. g[k] = f[k] /\ g[k - 1] = f[k - 1]
        BY <1>2, <3>2, <4>1
      <4> QED
        BY <2>1, <4>1, <4>2
    <3> QED
      BY <3>1, <3>2
  <2> HIDE DEF g
  <2>6. Up(n + 1, g)
    BY <2>3, <2>4, <2>5
  <2> HIDE DEF Up
  <2> QED
    BY <1>2, <2>6
<1> HIDE DEF Up, T
<1>3. 0 .. N \subseteq T
  BY <1>1, <1>2, Induction
<1>4. PICK f : Up(N, f)
  BY <1>3 DEF T
<1> QED
  BY <1>4 DEF Up, Recurs

\* A sequence with one more in front of it.
LEMMA Prepend ==
  ASSUME NEW S, NEW c \in S, NEW I \in Seq(S)
  PROVE  /\ <<c>> \o I \in Seq(S) /\ Len(<<c>> \o I) = 1 + Len(I) /\ Len(I) \in Nat
         /\ \A j \in 1 .. Len(I) + 1 : (<<c>> \o I)[j] = IF j = 1 THEN c ELSE I[j - 1]
<1> DEFINE h == <<c>>
<1>1. h \in Seq(S) /\ Len(h) = 1 /\ h[1] = c
  OBVIOUS
<1> HIDE DEF h
<1>2. /\ h \o I \in Seq(S) /\ Len(h \o I) = Len(h) + Len(I)
      /\ \A i \in 1 .. Len(h) + Len(I) : (h \o I)[i] = IF i <= Len(h) THEN h[i] ELSE I[i - Len(h)]
  BY <1>1, ConcatProperties
<1>3. Len(I) \in Nat
  OBVIOUS
<1>4. ASSUME NEW j \in 1 .. Len(I) + 1 PROVE (h \o I)[j] = IF j = 1 THEN c ELSE I[j - 1]
  BY <1>1, <1>2, <1>3
<1>5. /\ h \o I \in Seq(S) /\ Len(h \o I) = 1 + Len(I) /\ Len(I) \in Nat
      /\ \A j \in 1 .. Len(I) + 1 : (h \o I)[j] = IF j = 1 THEN c ELSE I[j - 1]
  BY <1>1, <1>2, <1>3, <1>4
<1> QED
  BY <1>5 DEF h

\* The same, with its places numbered from that one.
LEMMA Headed ==
  ASSUME NEW S, NEW c \in S, NEW I \in Seq(S)
  PROVE  /\ <<c>> \o I \in Seq(S) /\ Len(<<c>> \o I) = 1 + Len(I)
         /\ (<<c>> \o I)[1] = c
         /\ \A j \in 1 .. Len(I) : (<<c>> \o I)[1 + j] = I[j]
<1> DEFINE s == <<c>> \o I
           n == Len(I)
<1>1. /\ s \in Seq(S) /\ Len(s) = 1 + n /\ n \in Nat
      /\ \A j \in 1 .. n + 1 : s[j] = IF j = 1 THEN c ELSE I[j - 1]
  BY Prepend
<1> HIDE DEF s, n
<1>2. s[1] = c
  BY <1>1
<1>3. ASSUME NEW j \in 1 .. n PROVE s[1 + j] = I[j]
  <2>1. 1 + j \in 1 .. n + 1 /\ 1 + j # 1 /\ (1 + j) - 1 = j
    BY <1>1
  <2> QED
    BY <1>1, <2>1
<1> QED
  BY <1>1, <1>2, <1>3 DEF s, n

\* A sequence with one more behind it.
LEMMA Postpend ==
  ASSUME NEW S, NEW s \in Seq(S), NEW c \in S
  PROVE  /\ s \o <<c>> \in Seq(S) /\ Len(s \o <<c>>) = Len(s) + 1
         /\ (s \o <<c>>)[Len(s) + 1] = c
         /\ \A j \in 1 .. Len(s) : (s \o <<c>>)[j] = s[j]
<1> DEFINE h == <<c>>
           n == Len(s)
<1>1. h \in Seq(S) /\ Len(h) = 1 /\ h[1] = c /\ n \in Nat
  OBVIOUS
<1> HIDE DEF h
<1>2. /\ s \o h \in Seq(S) /\ Len(s \o h) = n + 1
      /\ \A i \in 1 .. n + 1 : (s \o h)[i] = IF i <= n THEN s[i] ELSE h[i - n]
  BY <1>1, ConcatProperties
<1> HIDE DEF n
<1>3. n + 1 \in 1 .. n + 1 /\ ~(n + 1 <= n) /\ (n + 1) - n = 1
  BY <1>1
<1>4. (s \o h)[n + 1] = c
  BY <1>1, <1>2, <1>3
<1>5. \A j \in 1 .. n : j \in 1 .. n + 1 /\ j <= n
  BY <1>1
<1>6. \A j \in 1 .. n : (s \o h)[j] = s[j]
  BY <1>2, <1>5
<1> QED
  BY <1>2, <1>4, <1>6 DEF h, n

-----------------------------------------------------------------------------
(* Filters *)

\* F holds the clauses m joined from left to right.
Joins(F, n, m, conn) ==
  /\ F[1] <=> m[1]
  /\ \A k \in 2 .. n :
       F[k] <=> IF conn[k] = "OR" THEN F[k - 1] \/ m[k] ELSE F[k - 1] /\ m[k]

\* Some clause that starts a disjunct holds, and every AND after it does.
Disjunct(n, m, conn) ==
  \E k \in 1 .. n : /\ k = 1 \/ conn[k] = "OR"
                    /\ m[k]
                    /\ \A j \in k + 1 .. n : conn[j] = "AND" => m[j]

\* A list of clauses folded from left to right is what Meaning says.
LEMMA FoldMeans ==
  ASSUME NEW n \in Nat, n >= 1, NEW m, NEW conn, NEW F,
         \A k \in 1 .. n : conn[k] \in {"AND", "OR"},
         Joins(F, n, m, conn)
  PROVE  F[n] <=> Disjunct(n, m, conn)
<1> DEFINE Means(l) == Disjunct(l, m, conn)
           T == {l \in 0 .. n : l >= 1 => (F[l] <=> Means(l))}
<1> USE DEF Joins, Disjunct
<1>1. 0 \in T
  OBVIOUS
<1>2. ASSUME NEW l \in 0 .. n, l \in T, l + 1 \in 0 .. n
      PROVE  F[l + 1] <=> Means(l + 1)
  <2>1. CASE l = 0
    BY <2>1
  <2>2. CASE l >= 1 /\ conn[l + 1] = "OR"
    <3>1. F[l + 1] <=> F[l] \/ m[l + 1]
      BY <1>2, <2>2
    <3>2. F[l] <=> Means(l)
      BY <1>2, <2>2
    <3>3. ASSUME Means(l) PROVE Means(l + 1)
      <4>1. PICK k \in 1 .. l : /\ k = 1 \/ conn[k] = "OR"
                                /\ m[k]
                                /\ \A j \in k + 1 .. l : conn[j] = "AND" => m[j]
        BY <3>3
      <4>2. \A j \in k + 1 .. l + 1 : conn[j] = "AND" => m[j]
        BY <2>2, <4>1
      <4> QED
        BY <4>1, <4>2
    <3>4. ASSUME m[l + 1] PROVE Means(l + 1)
      BY <2>2, <3>4
    <3>5. ASSUME Means(l + 1) PROVE Means(l) \/ m[l + 1]
      <4>1. PICK k \in 1 .. l + 1 : /\ k = 1 \/ conn[k] = "OR"
                                    /\ m[k]
                                    /\ \A j \in k + 1 .. l + 1 : conn[j] = "AND" => m[j]
        BY <3>5
      <4>2. CASE k = l + 1
        BY <4>1, <4>2
      <4>3. CASE k # l + 1
        <5>1. k \in 1 .. l /\ \A j \in k + 1 .. l : j \in k + 1 .. l + 1
          BY <4>3
        <5> QED
          BY <4>1, <5>1
      <4> QED
        BY <4>2, <4>3
    <3> HIDE DEF Means
    <3> QED
      BY <3>1, <3>2, <3>3, <3>4, <3>5
  <2>3. CASE l >= 1 /\ conn[l + 1] = "AND"
    <3>1. F[l + 1] <=> F[l] /\ m[l + 1]
      BY <1>2, <2>3
    <3>2. F[l] <=> Means(l)
      BY <1>2, <2>3
    <3>3. ASSUME Means(l), m[l + 1] PROVE Means(l + 1)
      <4>1. PICK k \in 1 .. l : /\ k = 1 \/ conn[k] = "OR"
                                /\ m[k]
                                /\ \A j \in k + 1 .. l : conn[j] = "AND" => m[j]
        BY <3>3
      <4>2. \A j \in k + 1 .. l + 1 : j = l + 1 \/ j \in k + 1 .. l
        OBVIOUS
      <4>3. k \in 1 .. l + 1
        OBVIOUS
      <4> QED
        BY <3>3, <4>1, <4>2, <4>3
    <3>4. ASSUME Means(l + 1) PROVE Means(l) /\ m[l + 1]
      <4>1. PICK k \in 1 .. l + 1 : /\ k = 1 \/ conn[k] = "OR"
                                    /\ m[k]
                                    /\ \A j \in k + 1 .. l + 1 : conn[j] = "AND" => m[j]
        BY <3>4
      <4>2. k # l + 1
        BY <2>3, <4>1
      <4>3. k \in 1 .. l /\ l + 1 \in k + 1 .. l + 1 /\ \A j \in k + 1 .. l : j \in k + 1 .. l + 1
        BY <4>2
      <4> QED
        BY <2>3, <4>1, <4>3
    <3> HIDE DEF Means
    <3> QED
      BY <3>1, <3>2, <3>3, <3>4
  <2> QED
    BY <1>2, <2>1, <2>2, <2>3
<1> HIDE DEF Means
<1>3. \A l \in 0 .. n : l \in T /\ l + 1 \in 0 .. n => l + 1 \in T
  BY <1>2
<1>4. 0 .. n \subseteq T
  <2> HIDE DEF T
  <2> QED
    BY <1>1, <1>3, Induction
<1>5. F[n] <=> Means(n)
  BY <1>4
<1> QED
  BY <1>5 DEF Means

\* F holds the values of a fold from left to right that begins with first; op[k]
\* joins the k-th clause to what is on its left.
FoldsUp(F, n, V, first, op) ==
  /\ F \in [1 .. n -> V]
  /\ F[1] = first
  /\ \A k \in 2 .. n : F[k] = op[k][F[k - 1]]

LEMMA LeftFold ==
  ASSUME NEW n \in Nat, n >= 1, NEW V, NEW first \in V,
         NEW op, op \in [1 .. n -> [V -> V]]
  PROVE  \E F : FoldsUp(F, n, V, first, op)
<1> DEFINE step == [k \in 1 .. n |-> IF k = 1 THEN [v \in V |-> first] ELSE op[k]]
<1>1. step \in [1 .. n -> [V -> V]]
  OBVIOUS
<1>2. /\ \A v \in V : step[1][v] = first
      /\ \A k \in 2 .. n : step[k] = op[k]
  OBVIOUS
<1> HIDE DEF step
<1>3. PICK f : Recurs(f, n, V, first, step)
  BY <1>1, Recursion
<1>4. /\ f \in [0 .. n -> V] /\ f[0] = first
      /\ \A k \in 1 .. n : f[k] = step[k][f[k - 1]]
  BY <1>3 DEF Recurs
<1> DEFINE F == [k \in 1 .. n |-> f[k]]
<1>5. \A k \in 1 .. n : F[k] = f[k]
  OBVIOUS
<1>6. F \in [1 .. n -> V]
  BY <1>4
<1> HIDE DEF F
<1>7. F[1] = first
  <2>1. f[1] = step[1][f[1 - 1]] /\ 1 - 1 = 0
    BY <1>4
  <2> QED
    BY <1>2, <1>4, <1>5, <2>1
<1>8. ASSUME NEW k \in 2 .. n PROVE F[k] = op[k][F[k - 1]]
  <2>1. k \in 1 .. n /\ k - 1 \in 1 .. n
    OBVIOUS
  <2> QED
    BY <1>2, <1>4, <1>5, <2>1
<1> QED
  BY <1>6, <1>7, <1>8 DEF FoldsUp

\* A fold of Booleans, by AND and OR.
LEMMA BooleanFold ==
  ASSUME NEW n \in Nat, n >= 1, NEW m, m \in [1 .. n -> BOOLEAN], NEW conn
  PROVE  \E F : F \in [1 .. n -> BOOLEAN] /\ F[1] = m[1] /\ Joins(F, n, m, conn)
<1> DEFINE op == [k \in 1 .. n |-> [v \in BOOLEAN |->
                    IF conn[k] = "OR" THEN v \/ m[k] ELSE v /\ m[k]]]
<1>1. op \in [1 .. n -> [BOOLEAN -> BOOLEAN]]
  OBVIOUS
<1>2. \A k \in 1 .. n, v \in BOOLEAN :
        op[k][v] = IF conn[k] = "OR" THEN v \/ m[k] ELSE v /\ m[k]
  OBVIOUS
<1> HIDE DEF op
<1>3. PICK F : FoldsUp(F, n, BOOLEAN, m[1], op)
  <2>1. m[1] \in BOOLEAN
    OBVIOUS
  <2> QED
    BY <1>1, <2>1, LeftFold
<1>4. /\ F \in [1 .. n -> BOOLEAN] /\ F[1] = m[1]
      /\ \A k \in 2 .. n : F[k] = op[k][F[k - 1]]
  BY <1>3 DEF FoldsUp
<1>5. ASSUME NEW k \in 2 .. n
      PROVE  F[k] = IF conn[k] = "OR" THEN F[k - 1] \/ m[k] ELSE F[k - 1] /\ m[k]
  <2>1. k \in 1 .. n /\ k - 1 \in 1 .. n
    OBVIOUS
  <2>2. F[k - 1] \in BOOLEAN
    BY <1>4, <2>1
  <2> QED
    BY <1>2, <1>4, <2>1, <2>2
<1> QED
  BY <1>4, <1>5 DEF Joins

\* What storage.Matches folds is what the list of clauses means.
LEMMA MatchesMeans ==
  ASSUME NEW r, NEW where, NEW n \in Nat, DOMAIN where = 1 .. n, Len(where) = n,
         where = <<>> <=> n = 0,
         \A k \in 1 .. n : where[k].connector \in {"AND", "OR"},
         \A k \in 1 .. n : matchOne(r, where[k]) \in BOOLEAN
  PROVE  Matches(r, where) = Meaning(r, where)
<1> DEFINE arm(f, k) ==
             IF k = 0 THEN TRUE
             ELSE IF k = 1 THEN matchOne(r, where[1])
             ELSE IF where[k].connector = "OR" THEN f[k - 1] \/ matchOne(r, where[k])
             ELSE f[k - 1] /\ matchOne(r, where[k])
           G(f) == [k \in 0 .. n |-> arm(f, k)]
           upTo == CHOOSE f : f = G(f)
           m == [k \in 1 .. n |-> matchOne(r, where[k])]
           conn == [k \in 1 .. n |-> where[k].connector]
<1>1. Matches(r, where) = upTo[n]
  BY DEF Matches
<1>4. \A f : arm(f, 0) = TRUE /\ arm(f, 1) = matchOne(r, where[1])
  OBVIOUS
<1>5. ASSUME NEW f, NEW k \in 2 .. n
      PROVE  /\ where[k].connector = "OR" => (arm(f, k) = (f[k - 1] \/ matchOne(r, where[k])))
             /\ where[k].connector # "OR" => (arm(f, k) = (f[k - 1] /\ matchOne(r, where[k])))
  <2>1. k # 0 /\ k # 1
    OBVIOUS
  <2> QED
    BY <2>1, Zenon
<1> HIDE DEF arm
<1>2. CASE n = 0
  <2>1. G([k \in 0 .. 0 |-> TRUE]) = [k \in 0 .. 0 |-> TRUE]
    BY <1>2, <1>4
  <2>2. upTo = G(upTo)
    <3> HIDE DEF G
    <3> QED
      BY <2>1
  <2>3. upTo[0] = TRUE
    <3> HIDE DEF upTo
    <3> QED
      BY <1>2, <1>4, <2>2
  <2> QED
    BY <1>1, <1>2, <2>3 DEF Meaning
<1>3. CASE n >= 1
  <2>1. m \in [1 .. n -> BOOLEAN] /\ \A k \in 1 .. n : m[k] = matchOne(r, where[k])
    OBVIOUS
  <2>2. \A k \in 1 .. n : conn[k] = where[k].connector
    OBVIOUS
  <2> HIDE DEF m, conn
  <2>3. PICK F : F \in [1 .. n -> BOOLEAN] /\ F[1] = m[1] /\ Joins(F, n, m, conn)
    BY <1>3, <2>1, BooleanFold
  <2> DEFINE f == [k \in 0 .. n |-> IF k = 0 THEN TRUE ELSE F[k]]
  <2>4. f = G(f)
    <3>1. ASSUME NEW k \in 0 .. n PROVE f[k] = arm(f, k)
      <4>1. CASE k = 0
        BY <1>4, <4>1
      <4>2. CASE k = 1
        <5>1. f[1] = F[1] /\ 1 \in 1 .. n
          BY <1>3
        <5> HIDE DEF f
        <5> QED
          BY <1>4, <2>1, <2>3, <4>2, <5>1
      <4>3. CASE k > 1
        <5>1. k \in 2 .. n /\ k \in 1 .. n /\ k - 1 \in 0 .. n /\ k - 1 \in 1 .. n /\ k - 1 # 0 /\ k # 0
          BY <4>3
        <5>2. f[k] = F[k] /\ f[k - 1] = F[k - 1]
          BY <5>1
        <5> HIDE DEF f
        <5>3. F[k] \in BOOLEAN /\ F[k - 1] \in BOOLEAN
          BY <2>3, <5>1
        <5>4. F[k] <=> IF conn[k] = "OR" THEN F[k - 1] \/ m[k] ELSE F[k - 1] /\ m[k]
          BY <2>3, <5>1 DEF Joins
        <5>5. CASE conn[k] = "OR"
          <6>1. arm(f, k) = (F[k - 1] \/ m[k])
            BY <1>5, <2>1, <2>2, <5>1, <5>2, <5>5
          <6> QED
            BY <5>2, <5>3, <5>4, <5>5, <6>1
        <5>6. CASE conn[k] # "OR"
          <6>1. arm(f, k) = (F[k - 1] /\ m[k])
            BY <1>5, <2>1, <2>2, <5>1, <5>2, <5>6
          <6> QED
            BY <5>2, <5>3, <5>4, <5>6, <6>1
        <5> QED
          BY <5>5, <5>6
      <4> HIDE DEF f
      <4> QED
        BY <4>1, <4>2, <4>3
    <3> HIDE DEF f
    <3>2. f = [k \in 0 .. n |-> f[k]]
      BY DEF f
    <3> QED
      BY <3>1, <3>2
  <2>5. upTo = G(upTo)
    <3> HIDE DEF G, f
    <3> QED
      BY <2>4
  <2> HIDE DEF upTo
  <2>6. ASSUME NEW k \in 0 .. n PROVE upTo[k] = arm(upTo, k)
    <3>1. G(upTo)[k] = arm(upTo, k)
      OBVIOUS
    <3> HIDE DEF G
    <3> QED
      BY <2>5, <3>1
  <2> HIDE DEF G
  <2>7. upTo[1] = m[1]
    <3>1. 1 \in 0 .. n /\ 1 \in 1 .. n
      BY <1>3
    <3> QED
      BY <1>4, <2>1, <2>6, <3>1
  <2>8. upTo[n] <=> Disjunct(n, m, conn)
    <3>1. \A k \in 1 .. n : conn[k] \in {"AND", "OR"}
      BY <2>2
    <3>2. ASSUME NEW k \in 2 .. n
          PROVE  upTo[k] <=> IF conn[k] = "OR" THEN upTo[k - 1] \/ m[k] ELSE upTo[k - 1] /\ m[k]
      <4>1. k \in 0 .. n /\ k \in 1 .. n
        OBVIOUS
      <4>2. upTo[k] = arm(upTo, k)
        BY <2>6, <4>1
      <4>3. m[k] = matchOne(r, where[k]) /\ conn[k] = where[k].connector
        BY <2>1, <2>2, <4>1
      <4> QED
        BY <1>5, <4>2, <4>3, Zenon
    <3>3. Joins(upTo, n, m, conn)
      BY <2>7, <3>2 DEF Joins
    <3> QED
      BY <1>3, <3>1, <3>3, FoldMeans
  <2>9. upTo[n] \in BOOLEAN
    <3>1. CASE n = 1
      BY <2>1, <2>7, <3>1
    <3>2. CASE n # 1
      <4>1. n \in 2 .. n /\ n \in 0 .. n
        BY <1>3, <3>2
      <4>2. upTo[n] = arm(upTo, n)
        BY <2>6, <4>1
      <4>3. arm(upTo, n) \in BOOLEAN
        <5>1. CASE where[n].connector = "OR"
          BY <1>5, <4>1, <5>1
        <5>2. CASE where[n].connector # "OR"
          BY <1>5, <4>1, <5>2
        <5> QED
          BY <5>1, <5>2
      <4> QED
        BY <4>2, <4>3
    <3> QED
      BY <3>1, <3>2
  <2>10. Meaning(r, where) <=> Disjunct(n, m, conn)
    <3>1. \A k \in 1 .. n : \A j \in k + 1 .. n : j \in 1 .. n
      OBVIOUS
    <3> QED
      BY <1>3, <2>1, <2>2, <3>1 DEF Meaning, Disjunct
  <2> QED
    BY <1>1, <2>8, <2>9, <2>10 DEF Meaning
<1> QED
  BY <1>2, <1>3

\* A function that joins the clauses of a query from left to right says in the end
\* what the query means.
LEMMA FoldOfQuery ==
  ASSUME NEW r, NEW where, NEW n \in Nat, n >= 1, DOMAIN where = 1 .. n, Len(where) = n,
         where # <<>>, NEW F,
         \A k \in 1 .. n : where[k].connector \in {"AND", "OR"},
         F[1] <=> matchOne(r, where[1]),
         \A k \in 2 .. n :
           /\ where[k].connector = "OR" => (F[k] <=> F[k - 1] \/ matchOne(r, where[k]))
           /\ where[k].connector # "OR" => (F[k] <=> F[k - 1] /\ matchOne(r, where[k]))
  PROVE  F[n] <=> Meaning(r, where)
<1> DEFINE m == [k \in 1 .. n |-> matchOne(r, where[k])]
           conn == [k \in 1 .. n |-> where[k].connector]
<1>1. \A k \in 1 .. n : m[k] = matchOne(r, where[k]) /\ conn[k] = where[k].connector
  OBVIOUS
<1> HIDE DEF m, conn
<1>2. \A k \in 2 .. n : k \in 1 .. n
  OBVIOUS
<1>3. 1 \in 1 .. n
  OBVIOUS
<1>4. Joins(F, n, m, conn)
  BY <1>1, <1>2, <1>3, Zenon DEF Joins
<1>5. F[n] <=> Disjunct(n, m, conn)
  BY <1>1, <1>4, FoldMeans
<1>6. Meaning(r, where) <=> Disjunct(n, m, conn)
  <2>1. \A k \in 1 .. n : \A j \in k + 1 .. n : j \in 1 .. n
    OBVIOUS
  <2>2. Meaning(r, where) <=>
          \E k \in 1 .. n :
            /\ k = 1 \/ where[k].connector = "OR"
            /\ matchOne(r, where[k])
            /\ \A j \in k + 1 .. n : where[j].connector = "AND" => matchOne(r, where[j])
    BY DEF Meaning
  <2>3. ASSUME NEW k \in 1 .. n
        PROVE  (\A j \in k + 1 .. n : where[j].connector = "AND" => matchOne(r, where[j]))
               <=> (\A j \in k + 1 .. n : conn[j] = "AND" => m[j])
    <3>1. ASSUME NEW j \in k + 1 .. n
          PROVE  /\ conn[j] = "AND" <=> where[j].connector = "AND"
                 /\ m[j] <=> matchOne(r, where[j])
      BY <1>1, <2>1
    <3> QED
      BY <3>1, Zenon
  <2> QED
    BY <1>1, <2>2, <2>3, ZenonT(40) DEF Disjunct
<1> QED
  BY <1>5, <1>6

\* What MongoDB selects is what the list of clauses means, where it agrees with
\* matchOne on each clause.
LEMMA MongoMeans ==
  ASSUME NEW r, NEW where, NEW n \in Nat, DOMAIN where = 1 .. n, Len(where) = n,
         where = <<>> <=> n = 0,
         \A k \in 1 .. n : where[k].connector \in {"AND", "OR"},
         \A k \in 1 .. n : MongoClause(r, where[k]) \in BOOLEAN,
         \A k \in 1 .. n : MongoClause(r, where[k]) <=> matchOne(r, where[k]),
         \A k \in 1 .. n : ~ buildClauseFails(where[k])
  PROVE  MongoMatches(r, where) = Meaning(r, where)
<1> DEFINE arm(f, k) ==
             IF k = 1 THEN MongoClause(r, where[1])
             ELSE IF where[k].connector = "OR" THEN f[k - 1] \/ MongoClause(r, where[k])
             ELSE f[k - 1] /\ MongoClause(r, where[k])
           G(f) == [k \in 1 .. n |-> arm(f, k)]
           acc == CHOOSE f : f = G(f)
           m == [k \in 1 .. n |-> MongoClause(r, where[k])]
           conn == [k \in 1 .. n |-> where[k].connector]
<1>1. MongoMatches(r, where) = (where = <<>> \/ acc[n])
  <2>1. MongoMatches(r, where) = (/\ ~ \E k \in DOMAIN where : buildClauseFails(where[k])
                                  /\ where = <<>> \/ acc[n])
    BY DEF MongoMatches
  <2>2. ~ \E k \in DOMAIN where : buildClauseFails(where[k])
    OBVIOUS
  <2> HIDE DEF acc
  <2> QED
    BY <2>1, <2>2, Zenon
<1>2. CASE n = 0
  BY <1>1, <1>2 DEF Meaning
<1>3. CASE n >= 1
  <2>1. m \in [1 .. n -> BOOLEAN]
    OBVIOUS
  <2>2. \A k \in 1 .. n : m[k] = MongoClause(r, where[k]) /\ conn[k] = where[k].connector
    OBVIOUS
  <2>3. \A f : arm(f, 1) = MongoClause(r, where[1])
    OBVIOUS
  <2>4. ASSUME NEW f, NEW k \in 2 .. n
        PROVE  /\ where[k].connector = "OR" => (arm(f, k) = (f[k - 1] \/ MongoClause(r, where[k])))
               /\ where[k].connector # "OR" => (arm(f, k) = (f[k - 1] /\ MongoClause(r, where[k])))
    <3>1. k # 1
      OBVIOUS
    <3> QED
      BY <3>1, Zenon
  <2> HIDE DEF arm, m, conn
  <2>5. PICK f : f \in [1 .. n -> BOOLEAN] /\ f[1] = m[1] /\ Joins(f, n, m, conn)
    BY <1>3, <2>1, BooleanFold
  <2>6. ASSUME NEW k \in 1 .. n PROVE f[k] = arm(f, k)
    <3>1. CASE k = 1
      BY <2>2, <2>3, <2>5, <3>1
    <3>2. CASE k # 1
      <4>1. k \in 2 .. n /\ k - 1 \in 1 .. n
        BY <3>2
      <4>2. f[k] \in BOOLEAN /\ f[k - 1] \in BOOLEAN
        BY <2>5, <4>1
      <4>3. f[k] <=> IF conn[k] = "OR" THEN f[k - 1] \/ m[k] ELSE f[k - 1] /\ m[k]
        BY <2>5, <4>1 DEF Joins
      <4>4. CASE conn[k] = "OR"
        <5>1. arm(f, k) = (f[k - 1] \/ m[k])
          BY <2>2, <2>4, <4>1, <4>4
        <5> QED
          BY <4>2, <4>3, <4>4, <5>1
      <4>5. CASE conn[k] # "OR"
        <5>1. arm(f, k) = (f[k - 1] /\ m[k])
          BY <2>2, <2>4, <4>1, <4>5
        <5> QED
          BY <4>2, <4>3, <4>5, <5>1
      <4> QED
        BY <4>4, <4>5
    <3> QED
      BY <3>1, <3>2
  <2>7. f = G(f)
    <3>1. f = [k \in 1 .. n |-> f[k]]
      BY <2>5
    <3> QED
      BY <2>6, <3>1
  <2>8. acc = G(acc)
    <3> HIDE DEF G
    <3> QED
      BY <2>7
  <2> HIDE DEF acc
  <2>9. ASSUME NEW k \in 1 .. n PROVE acc[k] = arm(acc, k)
    <3>1. G(acc)[k] = arm(acc, k)
      OBVIOUS
    <3> HIDE DEF G
    <3> QED
      BY <2>8, <3>1
  <2> HIDE DEF G
  <2>10. 1 \in 1 .. n
    BY <1>3
  <2>11. acc[1] <=> matchOne(r, where[1])
    BY <2>3, <2>9, <2>10
  <2>12. ASSUME NEW k \in 2 .. n
         PROVE  /\ where[k].connector = "OR" => (acc[k] <=> acc[k - 1] \/ matchOne(r, where[k]))
                /\ where[k].connector # "OR" => (acc[k] <=> acc[k - 1] /\ matchOne(r, where[k]))
    <3>1. k \in 1 .. n
      OBVIOUS
    <3>2. acc[k] = arm(acc, k)
      BY <2>9, <3>1
    <3>3. MongoClause(r, where[k]) <=> matchOne(r, where[k])
      BY <3>1
    <3> QED
      BY <2>4, <3>2, <3>3, Zenon
  <2>13. acc[n] <=> Meaning(r, where)
    BY <1>3, <2>11, <2>12, FoldOfQuery
  <2>14. MongoMatches(r, where) \in BOOLEAN /\ Meaning(r, where) \in BOOLEAN
    BY <1>1 DEF Meaning
  <2> QED
    BY <1>1, <1>3, <2>13, <2>14
<1> QED
  BY <1>2, <1>3

Truths == {"true", "false", "unknown"}

\* What the WHERE of a SQL statement selects is what the list of clauses means,
\* where each expression is true when matchOne holds.
LEMMA SqlMeans ==
  ASSUME NEW r, NEW where, NEW n \in Nat, DOMAIN where = 1 .. n, Len(where) = n,
         where = <<>> <=> n = 0,
         \A k \in 1 .. n : where[k].connector \in {"AND", "OR"},
         \A k \in 1 .. n : SqlClause(r, where[k]) \in Truths,
         \A k \in 1 .. n : SqlClause(r, where[k]) = "true" <=> matchOne(r, where[k]),
         \A k \in 1 .. n : ~ buildClauseFails(where[k])
  PROVE  SqlMatches(r, where) = Meaning(r, where)
<1> DEFINE arm(f, k) ==
             IF k = 1 THEN SqlClause(r, where[1])
             ELSE IF where[k].connector = "OR" THEN Or3(f[k - 1], SqlClause(r, where[k]))
             ELSE And3(f[k - 1], SqlClause(r, where[k]))
           G(f) == [k \in 1 .. n |-> arm(f, k)]
           acc == CHOOSE f : f = G(f)
<1>1. SqlMatches(r, where) = (where = <<>> \/ acc[n] = "true")
  <2>1. SqlMatches(r, where) =
          (/\ ~ \E k \in DOMAIN where : Compares(where[k]) /\ where[k].value = NonScalar
           /\ where = <<>> \/ acc[n] = "true")
    BY DEF SqlMatches
  <2>2. ~ \E k \in DOMAIN where : Compares(where[k]) /\ where[k].value = NonScalar
    BY DEF buildClauseFails
  <2> HIDE DEF acc
  <2> QED
    BY <2>1, <2>2, Zenon
<1>2. CASE n = 0
  BY <1>1, <1>2 DEF Meaning
<1>3. CASE n >= 1
  <2>1. \A p, q : /\ And3(p, q) \in Truths /\ Or3(p, q) \in Truths
                  /\ And3(p, q) = "true" <=> p = "true" /\ q = "true"
                  /\ Or3(p, q) = "true" <=> p = "true" \/ q = "true"
    BY DEF And3, Or3, Truths
  <2> DEFINE op == [k \in 1 .. n |-> [v \in Truths |-> arm([j \in {k - 1} |-> v], k)]]
  <2>2. \A f : arm(f, 1) = SqlClause(r, where[1])
    OBVIOUS
  <2>3. ASSUME NEW f, NEW k \in 2 .. n
        PROVE  arm(f, k) = IF where[k].connector = "OR"
                           THEN Or3(f[k - 1], SqlClause(r, where[k]))
                           ELSE And3(f[k - 1], SqlClause(r, where[k]))
    OBVIOUS
  <2>4. ASSUME NEW f, NEW k \in 1 .. n PROVE arm(f, k) \in Truths
    BY <2>1
  <2> HIDE DEF arm
  <2>5. op \in [1 .. n -> [Truths -> Truths]]
    BY <2>4
  <2>6. \A k \in 2 .. n, v \in Truths : op[k][v] = arm([j \in {k - 1} |-> v], k)
    OBVIOUS
  <2> HIDE DEF op
  <2>7. PICK f : FoldsUp(f, n, Truths, SqlClause(r, where[1]), op)
    BY <1>3, <2>5, LeftFold
  <2>8. ASSUME NEW k \in 1 .. n PROVE f[k] = arm(f, k)
    <3>1. CASE k = 1
      BY <2>2, <2>7, <3>1 DEF FoldsUp
    <3>2. CASE k # 1
      <4>1. k \in 2 .. n /\ k - 1 \in 1 .. n
        BY <3>2
      <4>2. f[k - 1] \in Truths /\ f[k] = op[k][f[k - 1]]
        BY <2>7, <4>1 DEF FoldsUp
      <4> DEFINE one == [j \in {k - 1} |-> f[k - 1]]
      <4>3. one[k - 1] = f[k - 1]
        OBVIOUS
      <4>4. f[k] = arm(one, k)
        BY <2>6, <4>1, <4>2
      <4> HIDE DEF one
      <4> QED
        BY <2>3, <4>1, <4>3, <4>4
    <3> QED
      BY <3>1, <3>2
  <2>9. f = G(f)
    <3>1. f = [k \in 1 .. n |-> f[k]]
      BY <2>7 DEF FoldsUp
    <3> QED
      BY <2>8, <3>1
  <2>10. acc = G(acc)
    <3> HIDE DEF G
    <3> QED
      BY <2>9
  <2> HIDE DEF acc
  <2>11. ASSUME NEW k \in 1 .. n PROVE acc[k] = arm(acc, k)
    <3>1. G(acc)[k] = arm(acc, k)
      OBVIOUS
    <3> HIDE DEF G
    <3> QED
      BY <2>10, <3>1
  <2> HIDE DEF G
  <2> DEFINE t == [k \in 1 .. n |-> acc[k] = "true"]
  <2>12. \A k \in 1 .. n : t[k] <=> acc[k] = "true"
    OBVIOUS
  <2> HIDE DEF t
  <2>13. 1 \in 1 .. n /\ n \in 1 .. n
    BY <1>3
  <2>14. t[1] <=> matchOne(r, where[1])
    BY <2>2, <2>11, <2>12, <2>13
  <2>15. ASSUME NEW k \in 2 .. n
         PROVE  /\ where[k].connector = "OR" => (t[k] <=> t[k - 1] \/ matchOne(r, where[k]))
                /\ where[k].connector # "OR" => (t[k] <=> t[k - 1] /\ matchOne(r, where[k]))
    <3>1. k \in 1 .. n /\ k - 1 \in 1 .. n
      OBVIOUS
    <3>2. /\ t[k] <=> acc[k] = "true"
          /\ t[k - 1] <=> acc[k - 1] = "true"
      BY <2>12, <3>1
    <3>3. acc[k] = IF where[k].connector = "OR"
                   THEN Or3(acc[k - 1], SqlClause(r, where[k]))
                   ELSE And3(acc[k - 1], SqlClause(r, where[k]))
      BY <2>3, <2>11, <3>1
    <3>4. SqlClause(r, where[k]) = "true" <=> matchOne(r, where[k])
      BY <3>1
    <3> QED
      BY <2>1, <3>2, <3>3, <3>4
  <2>16. t[n] <=> Meaning(r, where)
    BY <1>3, <2>14, <2>15, FoldOfQuery
  <2>17. SqlMatches(r, where) \in BOOLEAN /\ Meaning(r, where) \in BOOLEAN
    BY <1>1 DEF Meaning
  <2> QED
    BY <1>1, <1>3, <2>12, <2>13, <2>16, <2>17
<1> QED
  BY <1>2, <1>3

-----------------------------------------------------------------------------
(* Patterns: an escaped text, and what the engines read it as *)

Wildcards == {"%", "_", ".", "^", "$"}
LikeWild == {"%", "_"}
LikeSpecial == {"%", "_", "!"}
RegexWild == {".", "^", "$"}
RegexSpecial == {".", "^", "$", "\\"}
Backslash == "\\"

\* What the characters are, apart.
LEMMA Characters ==
  /\ LikeWild \subseteq Wildcards /\ LikeWild \subseteq LikeSpecial
  /\ "!" \in LikeSpecial /\ "%" \in LikeWild /\ "%" # "!"
  /\ RegexWild \subseteq Wildcards /\ RegexWild \subseteq RegexSpecial
  /\ Backslash \in RegexSpecial /\ "^" \in RegexWild /\ "$" \in RegexWild
  /\ "^" # Backslash /\ "$" # Backslash
  /\ "a" \in Chars /\ "%" \in Chars /\ "!" \in Chars
  /\ Backslash \in Chars /\ "^" \in Chars /\ "$" \in Chars
  /\ "^" # "A" /\ "$" # "A" /\ Backslash # "A"
  /\ "a" \notin RegexSpecial /\ "A" \notin RegexSpecial
  BY Zenon DEF Chars, Wildcards, LikeWild, LikeSpecial, RegexWild, RegexSpecial, Backslash

\* What the wildcards that patterns are made with match.
LEMMA WildEnds ==
  ASSUME NEW s, NEW ends
  PROVE  /\ Wild(s, ends, "%") = {i \in 0 .. Len(s) : \E k \in ends : k <= i}
         /\ Wild(s, ends, "^") = ends \cap {0}
         /\ Wild(s, ends, "$") = ends \cap {Len(s)}
<1>1. /\ "^" # "%" /\ "$" # "%" /\ "$" # "^"
      /\ "^" \notin {"_", "."} /\ "$" \notin {"_", "."}
  BY Zenon
<1> QED
  BY <1>1, Zenon DEF Wild

LEMMA WildWithin ==
  ASSUME NEW s, NEW ends, ends \subseteq 0 .. Len(s), NEW ch \in Wildcards
  PROVE  Wild(s, ends, ch) \subseteq 0 .. Len(s)
<1>1. {i \in 1 .. Len(s) : i - 1 \in ends} \subseteq 0 .. Len(s)
  OBVIOUS
<1>2. /\ {i \in 0 .. Len(s) : \E k \in ends : k <= i} \subseteq 0 .. Len(s)
      /\ ends \cap {0} \subseteq 0 .. Len(s) /\ ends \cap {Len(s)} \subseteq 0 .. Len(s)
  OBVIOUS
<1>3. ch = "%" \/ ch \in {"_", "."} \/ ch = "^" \/ ch = "$"
  BY Zenon DEF Wildcards
<1>4. CASE ch \in {"_", "."}
  <2>1. ch # "%"
    BY <1>4, Zenon
  <2>2. Wild(s, ends, ch) = {i \in 1 .. Len(s) : i - 1 \in ends}
    <3>1. ch # "^" /\ ch # "$"
      BY <1>4, Zenon
    <3> QED
      BY <1>4, <2>1, <3>1, Zenon DEF Wild
  <2> QED
    BY <1>1, <2>2, Zenon
<1>5. CASE ch = "%"
  BY <1>2, <1>5, WildEnds, Zenon
<1>6. CASE ch = "^"
  BY <1>2, <1>6, WildEnds, Zenon
<1>7. CASE ch = "$"
  BY <1>2, <1>7, WildEnds, Zenon
<1> QED
  BY <1>3, <1>4, <1>5, <1>6, <1>7, Zenon

\* The n characters of s after the a-th are those of x.
Reads(s, a, x, n) == \A u \in 1 .. n : s[a + u] = x[u]

\* The pattern p spells n characters of x from its place a on, each special one behind
\* the escape character; at[k] is the place of the k-th of them.
Spells(p, a, x, n, at, esc, special) ==
  /\ at \in [0 .. n -> 0 .. Len(p)] /\ at[0] = a
  /\ \A k \in 1 .. n :
       /\ p[at[k]] = x[k]
       /\ x[k] \in special => at[k] = at[k - 1] + 2 /\ p[at[k - 1] + 1] = esc
       /\ x[k] \notin special => at[k] = at[k - 1] + 1

\* Escaped is one such pattern.
LEMMA EscapedSpells ==
  ASSUME NEW x \in Seq(Chars), NEW n \in Nat, Len(x) = n, NEW esc \in Chars, NEW special
  PROVE  /\ Escaped(x, esc, special) \in Seq(Chars)
         /\ \E at : /\ Spells(Escaped(x, esc, special), 0, x, n, at, esc, special)
                    /\ at[n] = Len(Escaped(x, esc, special))
<1> DEFINE V == Seq(Chars)
           piece == [k \in 1 .. n |-> IF x[k] \in special THEN <<esc, x[k]>> ELSE <<x[k]>>]
           step == [k \in 1 .. n |-> [v \in V |-> v \o piece[k]]]
           G(f) == [k \in 0 .. Len(x) |->
                      IF k = 0 THEN <<>>
                      ELSE f[k - 1] \o (IF x[k] \in special THEN <<esc, x[k]>> ELSE <<x[k]>>)]
           upTo == CHOOSE f : f = G(f)
<1>1. Escaped(x, esc, special) = upTo[n]
  BY DEF Escaped
<1>2. ASSUME NEW k \in 1 .. n
      PROVE  /\ piece[k] = IF x[k] \in special THEN <<esc, x[k]>> ELSE <<x[k]>>
             /\ piece[k] \in V
             /\ x[k] \in special => Len(piece[k]) = 2 /\ piece[k][1] = esc /\ piece[k][2] = x[k]
             /\ x[k] \notin special => Len(piece[k]) = 1 /\ piece[k][1] = x[k]
  <2>1. x[k] \in Chars
    OBVIOUS
  <2> QED
    BY <2>1
<1> HIDE DEF piece
<1>3. ASSUME NEW k \in 1 .. n, NEW v \in V
      PROVE  /\ v \o piece[k] \in V /\ Len(v \o piece[k]) = Len(v) + Len(piece[k])
             /\ \A j \in 1 .. Len(v) : (v \o piece[k])[j] = v[j]
             /\ \A j \in 1 .. Len(piece[k]) : (v \o piece[k])[Len(v) + j] = piece[k][j]
  <2>1. PICK c : c = piece[k]
    OBVIOUS
  <2>2. /\ c \in V /\ v \in V
    BY <1>2, <2>1
  <2>3. /\ v \o c \in V /\ Len(v \o c) = Len(v) + Len(c)
        /\ \A i \in 1 .. Len(v) + Len(c) : (v \o c)[i] = IF i <= Len(v) THEN v[i] ELSE c[i - Len(v)]
    BY <2>2, ConcatProperties
  <2>4. Len(v) \in Nat /\ Len(c) \in Nat
    BY <2>2
  <2>5. \A j \in 1 .. Len(v) : (v \o c)[j] = v[j]
    BY <2>3, <2>4
  <2>6. ASSUME NEW j \in 1 .. Len(c) PROVE (v \o c)[Len(v) + j] = c[j]
    <3>1. Len(v) + j \in 1 .. Len(v) + Len(c) /\ ~ (Len(v) + j <= Len(v)) /\ Len(v) + j - Len(v) = j
      BY <2>4
    <3> QED
      BY <2>3, <3>1
  <2> QED
    BY <2>1, <2>3, <2>5, <2>6
<1>4. step \in [1 .. n -> [V -> V]] /\ \A k \in 1 .. n, v \in V : step[k][v] = v \o piece[k]
  BY <1>3
<1>5. <<>> \in V
  OBVIOUS
<1> HIDE DEF step
<1>6. PICK g : Recurs(g, n, V, <<>>, step)
  <2> HIDE DEF V
  <2> QED
    BY <1>4, <1>5, Recursion
<1>7. ASSUME NEW k \in 0 .. n
      PROVE  g[k] = IF k = 0 THEN <<>>
                    ELSE g[k - 1] \o (IF x[k] \in special THEN <<esc, x[k]>> ELSE <<x[k]>>)
  <2>1. CASE k = 0
    BY <1>6, <2>1 DEF Recurs
  <2>2. CASE k # 0
    <3>1. k \in 1 .. n /\ k - 1 \in 0 .. n
      BY <2>2
    <3>2. g[k - 1] \in V /\ g[k] = step[k][g[k - 1]]
      BY <1>6, <3>1 DEF Recurs
    <3>3. g[k] = g[k - 1] \o piece[k]
      BY <1>4, <3>1, <3>2
    <3> QED
      BY <1>2, <2>2, <3>1, <3>3
  <2> QED
    BY <2>1, <2>2
<1>8. g = G(g)
  <2>1. g = [k \in 0 .. n |-> g[k]]
    BY <1>6 DEF Recurs
  <2> QED
    BY <1>7, <2>1
<1>9. upTo = G(upTo)
  <2> HIDE DEF G
  <2> QED
    BY <1>8
<1> HIDE DEF upTo
<1>10. ASSUME NEW k \in 0 .. n
       PROVE  upTo[k] = IF k = 0 THEN <<>>
                        ELSE upTo[k - 1] \o (IF x[k] \in special THEN <<esc, x[k]>> ELSE <<x[k]>>)
  <2>1. G(upTo)[k] = IF k = 0 THEN <<>>
                     ELSE upTo[k - 1] \o (IF x[k] \in special THEN <<esc, x[k]>> ELSE <<x[k]>>)
    OBVIOUS
  <2> HIDE DEF G
  <2> QED
    BY <1>9, <2>1
<1> HIDE DEF G
<1>11. upTo[0] = <<>> /\ \A k \in 1 .. n : upTo[k] = upTo[k - 1] \o piece[k]
  <2>1. upTo[0] = <<>>
    <3>1. 0 \in 0 .. n
      OBVIOUS
    <3> QED
      BY <1>10, <3>1, Zenon
  <2>2. ASSUME NEW k \in 1 .. n PROVE upTo[k] = upTo[k - 1] \o piece[k]
    <3>1. k \in 0 .. n /\ k # 0
      OBVIOUS
    <3> QED
      BY <1>2, <1>10, <3>1
  <2> QED
    BY <2>1, <2>2
<1> DEFINE at == [k \in 0 .. n |-> Len(upTo[k])]
           \* What is written up to the k-th character stays.
           Kept(v, l) == /\ v[at[l]] = x[l]
                         /\ x[l] \in special => v[at[l - 1] + 1] = esc
                         /\ at[l - 1] \in Nat /\ at[l] <= Len(v)
                         /\ at[l] = at[l - 1] + (IF x[l] \in special THEN 2 ELSE 1)
           T == {k \in 0 .. n : upTo[k] \in V /\ \A l \in 1 .. k : Kept(upTo[k], l)}
<1>12. \A k \in 0 .. n : at[k] = Len(upTo[k])
  OBVIOUS
<1> HIDE DEF at
<1>13. 0 \in T
  <2> HIDE DEF Kept
  <2>1. 0 \in 0 .. n /\ \A l \in 1 .. 0 : FALSE
    OBVIOUS
  <2> QED
    BY <1>5, <1>11, <2>1, Zenon
<1>14. ASSUME NEW k \in 0 .. n, k \in T, k + 1 \in 0 .. n PROVE k + 1 \in T
  <2>1. PICK v, q : v = upTo[k] /\ q = k + 1
    OBVIOUS
  <2>2. v \in V /\ Len(v) \in Nat /\ at[k] = Len(v) /\ q \in 1 .. n /\ q - 1 = k
    <3>1. v \in V
      BY <1>14, <2>1
    <3>2. Len(v) \in Nat
      BY <3>1
    <3> QED
      BY <1>12, <1>14, <2>1, <3>1, <3>2
  <2>3. upTo[q] = v \o piece[q] /\ at[q] = Len(upTo[q])
    <3>1. upTo[q] = upTo[q - 1] \o piece[q]
      BY <1>11, <2>2
    <3>2. upTo[q - 1] = v
      BY <2>1, <2>2
    <3>3. q \in 0 .. n
      BY <1>14, <2>1
    <3> QED
      BY <1>12, <3>1, <3>2, <3>3, Zenon
  <2>4. /\ upTo[q] \in V /\ at[q] = Len(v) + Len(piece[q])
        /\ \A j \in 1 .. Len(v) : upTo[q][j] = v[j]
        /\ \A j \in 1 .. Len(piece[q]) : upTo[q][Len(v) + j] = piece[q][j]
    BY <1>3, <2>2, <2>3
  <2>5. ASSUME NEW l \in 1 .. k PROVE Kept(upTo[q], l)
    <3>1. Kept(v, l)
      BY <1>14, <2>1
    <3>2. at[l] \in 1 .. Len(v) /\ (x[l] \in special => at[l - 1] + 1 \in 1 .. Len(v))
      <4>1. PICK lo, hi : lo = at[l - 1] /\ hi = at[l]
        OBVIOUS
      <4>2. lo \in Nat /\ hi <= Len(v) /\ hi = lo + (IF x[l] \in special THEN 2 ELSE 1)
        BY <3>1, <4>1
      <4>3. CASE x[l] \in special
        <5>1. hi = lo + 2
          BY <4>2, <4>3
        <5>2. Len(v) \in Nat
          BY <2>2
        <5>3. hi \in 1 .. Len(v) /\ lo + 1 \in 1 .. Len(v)
          BY <4>2, <5>1, <5>2
        <5> QED
          BY <4>1, <5>3
      <4>4. CASE x[l] \notin special
        <5>1. hi = lo + 1
          BY <4>2, <4>4
        <5> QED
          BY <2>2, <4>1, <4>2, <4>4, <5>1
      <4> QED
        BY <4>3, <4>4
    <3>3. at[l] <= Len(upTo[q])
      <4>1. Len(piece[q]) \in Nat
        BY <1>2, <2>2
      <4> QED
        BY <2>2, <2>3, <2>4, <3>2, <4>1
    <3>4. upTo[q][at[l]] = v[at[l]]
      BY <2>4, <3>2
    <3>5. x[l] \in special => upTo[q][at[l - 1] + 1] = v[at[l - 1] + 1]
      BY <2>4, <3>2
    <3> QED
      BY <3>1, <3>3, <3>4, <3>5
  <2>6. Kept(upTo[q], q)
    <3>1. PICK w, h, c : w = upTo[q] /\ h = Len(v) /\ c = x[q]
      OBVIOUS
    <3>2. at[q - 1] = h /\ h \in Nat /\ at[q] = Len(w) /\ at[q] = h + Len(piece[q])
      BY <2>2, <2>3, <2>4, <3>1
    <3>3. CASE c \in special
      <4>1. Len(piece[q]) = 2 /\ piece[q][1] = esc /\ piece[q][2] = c
        BY <1>2, <2>2, <3>1, <3>3
      <4>2. w[h + 1] = esc /\ w[h + 2] = c
        BY <2>4, <3>1, <4>1
      <4>3. at[q] = h + 2
        BY <3>2, <4>1
      <4>4. w[at[q]] = c /\ w[at[q - 1] + 1] = esc
        BY <3>2, <4>2, <4>3
      <4>5. /\ at[q - 1] \in Nat /\ at[q] <= Len(w)
            /\ at[q] = at[q - 1] + (IF c \in special THEN 2 ELSE 1)
        BY <3>2, <3>3, <4>3
      <4> QED
        BY <3>1, <4>4, <4>5
    <3>4. CASE c \notin special
      <4>1. Len(piece[q]) = 1 /\ piece[q][1] = c
        BY <1>2, <2>2, <3>1, <3>4
      <4>2. w[h + 1] = c
        BY <2>4, <3>1, <4>1
      <4>3. at[q] = h + 1
        BY <3>2, <4>1
      <4>4. w[at[q]] = c
        BY <4>2, <4>3
      <4>5. /\ at[q - 1] \in Nat /\ at[q] <= Len(w)
            /\ at[q] = at[q - 1] + (IF c \in special THEN 2 ELSE 1)
        BY <3>2, <3>4, <4>3
      <4> QED
        BY <3>1, <3>4, <4>4, <4>5
    <3> QED
      BY <3>3, <3>4
  <2> HIDE DEF Kept
  <2>7. \A l \in 1 .. q : l \in 1 .. k \/ l = q
    BY <2>1, <2>2
  <2>8. q \in 0 .. n
    BY <1>14, <2>1
  <2>9. \A l \in 1 .. q : Kept(upTo[q], l)
    BY <2>5, <2>6, <2>7
  <2>10. q \in T
    BY <2>4, <2>8, <2>9
  <2> QED
    BY <2>1, <2>10
<1>15. 0 .. n \subseteq T
  <2> HIDE DEF T
  <2> QED
    BY <1>13, <1>14, Induction
<1>16. n \in T /\ n \in 0 .. n
  BY <1>15
<1>17. at \in [0 .. n -> 0 .. Len(upTo[n])] /\ at[0] = 0
  <2>1. \A k \in 0 .. n : upTo[k] \in V
    BY <1>15
  <2>2. \A k \in 0 .. n : Len(upTo[k]) \in Nat
    BY <2>1
  <2>3. Len(upTo[0]) = 0 /\ 0 \in 0 .. n
    BY <1>11
  <2>4. \A k \in 1 .. n : at[k] <= Len(upTo[n])
    BY <1>16
  <2>5. ASSUME NEW k \in 0 .. n PROVE at[k] \in 0 .. Len(upTo[n])
    <3>1. at[k] \in Nat /\ Len(upTo[n]) \in Nat /\ at[0] = 0
      BY <1>12, <2>2, <2>3
    <3>2. k = 0 \/ k \in 1 .. n
      OBVIOUS
    <3> QED
      BY <2>4, <3>1, <3>2
  <2> HIDE DEF T
  <2> QED
    BY <1>12, <2>3, <2>5 DEF at
<1>18. \A k \in 1 .. n :
         /\ upTo[n][at[k]] = x[k]
         /\ x[k] \in special => at[k] = at[k - 1] + 2 /\ upTo[n][at[k - 1] + 1] = esc
         /\ x[k] \notin special => at[k] = at[k - 1] + 1
  BY <1>16
<1>19. upTo[n] \in V /\ at[n] = Len(upTo[n])
  BY <1>12, <1>16
<1> HIDE DEF T
<1>20. Spells(upTo[n], 0, x, n, at, esc, special)
  BY <1>17, <1>18 DEF Spells
<1> QED
  BY <1>1, <1>19, <1>20

LEMMA LowerText ==
  ASSUME NEW v \in Seq(Chars)
  PROVE  ToLower(v) \in Seq(Chars) /\ Len(ToLower(v)) = Len(v)
<1> DEFINE w == [i \in 1 .. Len(v) |-> IF v[i] = "A" THEN "a" ELSE v[i]]
<1>1. ToLower(v) = w
  BY DEF ToLower
<1>2. \A i \in 1 .. Len(v) : w[i] \in Chars
  <2>1. "a" \in Chars
    BY Characters, Zenon
  <2> QED
    BY <2>1
<1>3. w \in Seq(Chars) /\ Len(w) = Len(v)
  <2>1. w \in [1 .. Len(v) -> Chars] /\ Len(v) \in Nat
    BY <1>2
  <2> QED
    BY <2>1
<1> QED
  BY <1>1, <1>3

\* A part of s is the text x when it has its characters.
LEMMA PartIs ==
  ASSUME NEW s \in Seq(Chars), NEW x \in Seq(Chars), NEW i \in 1 .. Len(s) + 1 - Len(x)
  PROVE  SubSeq(s, i, i + Len(x) - 1) = x <=> Reads(s, i - 1, x, Len(x))
<1> DEFINE n == Len(x)
           y == SubSeq(s, i, i + n - 1)
<1>1. n \in Nat /\ Len(s) \in Nat
  OBVIOUS
<1>2. y \in Seq(Chars) /\ Len(y) = n /\ \A u \in 1 .. n : y[u] = s[i + u - 1]
  <2>1. /\ i \in Int /\ i + n - 1 \in Int /\ (i + n - 1) - i + 1 = n
        /\ i <= i + n - 1 <=> n # 0
    BY <1>1
  <2>2. \A j \in i .. i + n - 1 : s[j] \in Chars
    BY <1>1
  <2> QED
    BY <1>1, <2>1, <2>2, SubSeqProperties
<1> HIDE DEF y
<1>3. ASSUME \A u \in 1 .. n : y[u] = x[u] PROVE y = x
  BY <1>2, <1>3
<1>4. y = x <=> \A u \in 1 .. n : s[i + u - 1] = x[u]
  BY <1>2, <1>3
<1>5. \A u \in 1 .. n : i + u - 1 = i - 1 + u
  OBVIOUS
<1> QED
  BY <1>4, <1>5 DEF y, Reads

\* What an engine knows after each character of a pattern.
ReadsBy(st, s, p, from, esc, wild) ==
  /\ st[0] = [ends |-> from, literal |-> FALSE]
  /\ \A j \in 1 .. Len(p) : st[j] = Read(s, st[j - 1], p[j], esc, wild)

Readable(s, p, from, wild) ==
  Len(s) \in Nat /\ Len(p) \in Nat /\ from \subseteq 0 .. Len(s) /\ wild \subseteq Wildcards

LEMMA ReadingBy ==
  ASSUME NEW s, NEW p, NEW from, NEW esc, NEW wild, Readable(s, p, from, wild)
  PROVE  \E st : /\ ReadsBy(st, s, p, from, esc, wild)
                 /\ Reading(s, p, from, esc, wild) = st[Len(p)].ends
<1>0. Len(s) \in Nat /\ Len(p) \in Nat /\ from \subseteq 0 .. Len(s) /\ wild \subseteq Wildcards
  BY DEF Readable
<1> USE <1>0
<1> DEFINE N == Len(p)
           V == [ends : SUBSET (0 .. Len(s)), literal : BOOLEAN]
           first == [ends |-> from, literal |-> FALSE]
           G(f) == [j \in 0 .. Len(p) |->
                      IF j = 0 THEN [ends |-> from, literal |-> FALSE]
                      ELSE Read(s, f[j - 1], p[j], esc, wild)]
           after == CHOOSE f : f = G(f)
           step == [j \in 1 .. N |-> [v \in V |-> Read(s, v, p[j], esc, wild)]]
<1>1. Reading(s, p, from, esc, wild) = after[Len(p)].ends
  BY Zenon DEF Reading
<1>2. first \in V
  OBVIOUS
<1>3. ASSUME NEW v \in V, NEW ch PROVE Read(s, v, ch, esc, wild) \in V
  <2>1. ch \in wild => Wild(s, v.ends, ch) \subseteq 0 .. Len(s)
    BY WildWithin
  <2> QED
    BY <2>1 DEF Read
<1>4. step \in [1 .. N -> [V -> V]]
      /\ \A j \in 1 .. N, v \in V : step[j][v] = Read(s, v, p[j], esc, wild)
  BY <1>3
<1> HIDE DEF step, V
<1>5. PICK g : Recurs(g, N, V, first, step)
  <2> HIDE DEF first
  <2> QED
    BY <1>2, <1>4, Recursion
<1>6. ASSUME NEW j \in 0 .. N
      PROVE  g[j] = IF j = 0 THEN first ELSE Read(s, g[j - 1], p[j], esc, wild)
  <2>1. CASE j = 0
    BY <1>5, <2>1 DEF Recurs
  <2>2. CASE j # 0
    <3>1. j \in 1 .. N /\ j - 1 \in 0 .. N
      BY <2>2
    <3>2. g[j - 1] \in V /\ g[j] = step[j][g[j - 1]]
      BY <1>5, <3>1 DEF Recurs
    <3> QED
      BY <1>4, <2>2, <3>1, <3>2
  <2> QED
    BY <2>1, <2>2
<1>7. g = G(g)
  <2>1. g = [j \in 0 .. N |-> g[j]]
    BY <1>5 DEF Recurs
  <2> QED
    BY <1>6, <2>1
<1>8. after = G(after)
  <2> HIDE DEF G
  <2> QED
    BY <1>7
<1> HIDE DEF after
<1>9. ASSUME NEW j \in 0 .. N
      PROVE  after[j] = IF j = 0 THEN first ELSE Read(s, after[j - 1], p[j], esc, wild)
  <2>1. G(after)[j] = IF j = 0 THEN first ELSE Read(s, after[j - 1], p[j], esc, wild)
    OBVIOUS
  <2> HIDE DEF G
  <2> QED
    BY <1>8, <2>1
<1> HIDE DEF G
<1>10. ASSUME NEW j \in 1 .. N PROVE after[j] = Read(s, after[j - 1], p[j], esc, wild)
  <2>1. j \in 0 .. N /\ j # 0
    OBVIOUS
  <2> QED
    BY <1>9, <2>1
<1>11. after[0] = first
  <2>1. 0 \in 0 .. N
    OBVIOUS
  <2> QED
    BY <1>9, <2>1, Zenon
<1>12. ReadsBy(after, s, p, from, esc, wild)
  BY <1>10, <1>11 DEF ReadsBy
<1> QED
  BY <1>1, <1>12

\* What a character does that is no escape, or that follows one.
LEMMA ReadLiterally ==
  ASSUME NEW s, NEW m, NEW e, m.ends = e, NEW ch, NEW esc, NEW wild,
         m.literal \/ ch \notin wild \cup {esc}
  PROVE  Read(s, m, ch, esc, wild) =
           [ends |-> {i \in 1 .. Len(s) : s[i] = ch /\ i - 1 \in e}, literal |-> FALSE]
  BY DEF Read

\* A part of a pattern that spells a text is matched by the characters of the text,
\* one each.
Ready(st, s, p, a, S, esc, wild, special) ==
  /\ Len(s) \in Nat /\ Len(p) \in Nat /\ S \subseteq 0 .. Len(s)
  /\ st[a] = [ends |-> S, literal |-> FALSE] /\ esc \in special /\ wild \subseteq special

LiteralEnds(st, s, b, S, x, n) ==
  /\ st[b].literal = FALSE
  /\ \A k : k \in st[b].ends <=> k \in n .. Len(s) /\ k - n \in S /\ Reads(s, k - n, x, n)

LEMMA LiteralRun ==
  ASSUME NEW s, NEW p, NEW st, NEW from, NEW esc, NEW wild, ReadsBy(st, s, p, from, esc, wild),
         NEW x, NEW n \in Nat, NEW a, NEW at, NEW special, Spells(p, a, x, n, at, esc, special),
         NEW S, Ready(st, s, p, a, S, esc, wild, special)
  PROVE  at[n] \in 0 .. Len(p) /\ LiteralEnds(st, s, at[n], S, x, n)
<1>typed. /\ Len(s) \in Nat /\ Len(p) \in Nat /\ S \subseteq 0 .. Len(s)
      /\ st[a] = [ends |-> S, literal |-> FALSE] /\ esc \in special /\ wild \subseteq special
  BY DEF Ready
<1> USE <1>typed
<1> DEFINE E(t) == {i \in t .. Len(s) : /\ i - t \in S
                                        /\ \A u \in 1 .. t : s[i - t + u] = x[u]}
           T == {t \in 0 .. n : st[at[t]] = [ends |-> E(t), literal |-> FALSE]}
<1>0. /\ at[0] = a /\ \A t \in 0 .. n : at[t] \in 0 .. Len(p)
      /\ \A t \in 1 .. n :
           /\ p[at[t]] = x[t]
           /\ x[t] \in special => at[t] = at[t - 1] + 2 /\ p[at[t - 1] + 1] = esc
           /\ x[t] \notin special => at[t] = at[t - 1] + 1
  BY DEF Spells
<1>1. 0 \in T
  <2>1. \A i \in 0 .. Len(s) : i - 0 = i
    OBVIOUS
  <2>2. \A u \in 1 .. 0 : FALSE
    OBVIOUS
  <2>3. E(0) = S
    <3>1. \A i : i \in E(0) <=> i \in S
      BY <2>1, <2>2, Zenon
    <3> HIDE DEF E
    <3> QED
      BY <3>1
  <2>4. 0 \in 0 .. n
    OBVIOUS
  <2> HIDE DEF E
  <2> QED
    BY <1>0, <2>3, <2>4, Zenon
<1>2. ASSUME NEW t \in 0 .. n, t \in T, t + 1 \in 0 .. n
      PROVE  t + 1 \in T
  <2>1. st[at[t]] = [ends |-> E(t), literal |-> FALSE]
    BY <1>2
  <2> DEFINE more == {i \in 1 .. Len(s) : s[i] = x[t + 1] /\ i - 1 \in E(t)}
  <2>2. st[at[t + 1]] = [ends |-> more, literal |-> FALSE]
    <3>1. PICK h, g, ch, e : h = at[t] /\ g = at[t + 1] /\ ch = x[t + 1] /\ e = E(t)
      OBVIOUS
    <3>2. /\ h \in 0 .. Len(p) /\ g \in 0 .. Len(p) /\ p[g] = ch
          /\ ch \in special => g = h + 2 /\ p[h + 1] = esc
          /\ ch \notin special => g = h + 1
      <4>1. t + 1 \in 1 .. n /\ (t + 1) - 1 = t
        BY <1>2
      <4> QED
        BY <1>0, <1>2, <3>1, <4>1
    <3>3. st[h] = [ends |-> e, literal |-> FALSE]
      BY <2>1, <3>1
    <3>4. more = {i \in 1 .. Len(s) : s[i] = ch /\ i - 1 \in e}
      BY <3>1
    <3> HIDE DEF more, E
    <3>5. CASE ch \in special
      <4>1. /\ h + 1 \in 1 .. Len(p) /\ (h + 1) - 1 = h
            /\ h + 2 \in 1 .. Len(p) /\ (h + 2) - 1 = h + 1
        BY <3>2, <3>5
      <4>2. st[h + 1] = Read(s, st[h], esc, esc, wild)
        BY <3>2, <3>5, <4>1 DEF ReadsBy
      <4>3. st[h + 1] = [ends |-> e, literal |-> TRUE]
        BY <3>3, <4>2 DEF Read
      <4>4. st[h + 2] = Read(s, st[h + 1], ch, esc, wild)
        BY <3>2, <3>5, <4>1 DEF ReadsBy
      <4>5. st[h + 1].literal /\ st[h + 1].ends = e
        BY <4>3
      <4>6. st[h + 2] = [ends |-> {i \in 1 .. Len(s) : s[i] = ch /\ i - 1 \in e},
                         literal |-> FALSE]
        <5>1. PICK m : m = st[h + 1]
          OBVIOUS
        <5>2. m.ends = e /\ m.literal
          BY <4>5, <5>1
        <5>3. Read(s, m, ch, esc, wild) =
                [ends |-> {i \in 1 .. Len(s) : s[i] = ch /\ i - 1 \in e}, literal |-> FALSE]
          BY <5>2, ReadLiterally
        <5> QED
          BY <4>4, <5>1, <5>3, Zenon
      <4> QED
        BY <3>1, <3>2, <3>4, <3>5, <4>6
    <3>6. CASE ch \notin special
      <4>1. h + 1 \in 1 .. Len(p) /\ (h + 1) - 1 = h
        BY <3>2, <3>6
      <4>2. st[h + 1] = Read(s, st[h], ch, esc, wild)
        BY <3>2, <3>6, <4>1 DEF ReadsBy
      <4>3. ch \notin wild \cup {esc} /\ st[h].ends = e
        BY <3>3, <3>6
      <4>4. st[h + 1] = [ends |-> {i \in 1 .. Len(s) : s[i] = ch /\ i - 1 \in e},
                         literal |-> FALSE]
        <5>1. PICK m : m = st[h]
          OBVIOUS
        <5>2. m.ends = e
          BY <4>3, <5>1
        <5>3. Read(s, m, ch, esc, wild) =
                [ends |-> {i \in 1 .. Len(s) : s[i] = ch /\ i - 1 \in e}, literal |-> FALSE]
          BY <4>3, <5>2, ReadLiterally
        <5> QED
          BY <4>2, <5>1, <5>3, Zenon
      <4> QED
        BY <3>1, <3>2, <3>4, <3>6, <4>4
    <3> QED
      BY <3>5, <3>6
  <2>6. ASSUME NEW i, i \in more PROVE i \in E(t + 1)
    <3>1. i \in 1 .. Len(s) /\ s[i] = x[t + 1] /\ i - 1 \in E(t)
      BY <2>6
    <3>2. /\ i - 1 \in t .. Len(s) /\ i - 1 - t \in S
          /\ \A u \in 1 .. t : s[i - 1 - t + u] = x[u]
      BY <3>1
    <3>3. i \in t + 1 .. Len(s) /\ i - (t + 1) = i - 1 - t
      <4>1. i \in 1 .. Len(s) /\ i - 1 \in t .. Len(s) /\ t \in Nat
        BY <3>1, <3>2
      <4> QED
        BY <4>1
    <3>4. ASSUME NEW u \in 1 .. t + 1 PROVE s[i - (t + 1) + u] = x[u]
      <4>1. CASE u = t + 1
        <5>1. i - (t + 1) + u = i
          BY <3>3, <4>1
        <5> QED
          BY <3>1, <4>1, <5>1
      <4>2. CASE u # t + 1
        <5>1. u \in 1 .. t /\ i - (t + 1) + u = i - 1 - t + u
          BY <3>3, <4>2
        <5> QED
          BY <3>2, <5>1
      <4> QED
        BY <4>1, <4>2
    <3> QED
      BY <3>2, <3>3, <3>4
  <2>7. ASSUME NEW i \in E(t + 1) PROVE i \in more
    <3>1. /\ i \in t + 1 .. Len(s) /\ i - (t + 1) \in S
          /\ \A u \in 1 .. t + 1 : s[i - (t + 1) + u] = x[u]
      OBVIOUS
    <3>2. i \in 1 .. Len(s) /\ i - 1 \in t .. Len(s) /\ i - 1 - t = i - (t + 1)
      BY <3>1
    <3>3. s[i] = x[t + 1]
      <4>1. t + 1 \in 1 .. t + 1 /\ i - (t + 1) + (t + 1) = i
        BY <3>2
      <4> QED
        BY <3>1, <4>1
    <3>4. ASSUME NEW u \in 1 .. t PROVE s[i - 1 - t + u] = x[u]
      <4>1. u \in 1 .. t + 1 /\ i - 1 - t + u = i - (t + 1) + u
        BY <3>2
      <4> QED
        BY <3>1, <4>1
    <3>5. i - 1 \in E(t)
      BY <3>1, <3>2, <3>4
    <3> HIDE DEF E
    <3> QED
      BY <3>2, <3>3, <3>5
  <2> HIDE DEF E, more
  <2>8. more = E(t + 1)
    BY <2>6, <2>7
  <2> QED
    BY <1>2, <2>2, <2>8
<1> HIDE DEF E
<1>3. 0 .. n \subseteq T
  <2> HIDE DEF T
  <2> QED
    BY <1>1, <1>2, Induction
<1>4. st[at[n]] = [ends |-> E(n), literal |-> FALSE] /\ at[n] \in 0 .. Len(p)
  BY <1>0, <1>3
<1>5. \A k : k \in E(n) <=> k \in n .. Len(s) /\ k - n \in S /\ Reads(s, k - n, x, n)
  BY DEF E, Reads
<1> QED
  BY <1>4, <1>5 DEF LiteralEnds

\* A pattern made of an escaped text between two others, each character changed by low,
\* spells the text so changed.
Around(p, head, tail, x, esc, special, low, y) ==
  /\ head \in Seq(Chars) /\ tail \in Seq(Chars) /\ x \in Seq(Chars) /\ esc \in Chars
  /\ low[esc] = esc /\ \A c \in Chars : low[c] \in special <=> c \in special
  /\ Len(p) = Len(head \o Escaped(x, esc, special) \o tail)
  /\ \A j \in 1 .. Len(p) : p[j] = low[(head \o Escaped(x, esc, special) \o tail)[j]]
  /\ \A k \in 1 .. Len(x) : y[k] = low[x[k]]

LEMMA SpelledBetween ==
  ASSUME NEW p, NEW head, NEW tail, NEW x, NEW esc, NEW special, NEW low, NEW y,
         Around(p, head, tail, x, esc, special, low, y), NEW n \in Nat, Len(x) = n
  PROVE  \E at : /\ Spells(p, Len(head), y, n, at, esc, special)
                 /\ Len(p) = at[n] + Len(tail)
                 /\ \A j \in 1 .. Len(head) : p[j] = low[head[j]]
                 /\ \A j \in 1 .. Len(tail) : p[at[n] + j] = low[tail[j]]
<1>0. /\ head \in Seq(Chars) /\ tail \in Seq(Chars) /\ x \in Seq(Chars) /\ esc \in Chars
      /\ low[esc] = esc /\ \A c \in Chars : low[c] \in special <=> c \in special
      /\ \A k \in 1 .. n : y[k] = low[x[k]]
  BY DEF Around
<1> USE <1>0
<1>1. PICK q, in : /\ q = Escaped(x, esc, special) /\ q \in Seq(Chars)
                   /\ Spells(q, 0, x, n, in, esc, special) /\ in[n] = Len(q)
  BY EscapedSpells
<1>2. PICK a, b, d : a = Len(head) /\ b = Len(q) /\ d = Len(tail)
  OBVIOUS
<1>3. a \in Nat /\ b \in Nat /\ d \in Nat
  BY <1>1, <1>2
<1>4. PICK hq : hq = head \o q
  OBVIOUS
<1>5. /\ hq \in Seq(Chars) /\ Len(hq) = a + b
      /\ \A i \in 1 .. a + b : hq[i] = IF i <= a THEN head[i] ELSE q[i - a]
  BY <1>1, <1>2, <1>4, ConcatProperties
<1>6. PICK w : w = hq \o tail
  OBVIOUS
<1>7. /\ Len(w) = a + b + d
      /\ \A i \in 1 .. a + b + d : w[i] = IF i <= a + b THEN hq[i] ELSE tail[i - (a + b)]
  <2>1. Len(w) = Len(hq) + Len(tail)
        /\ \A i \in 1 .. Len(hq) + Len(tail) :
             w[i] = IF i <= Len(hq) THEN hq[i] ELSE tail[i - Len(hq)]
    BY <1>5, <1>6, ConcatProperties
  <2>2. Len(hq) = a + b /\ Len(tail) = d
    BY <1>2, <1>5
  <2> QED
    BY <2>1, <2>2, Zenon
<1>8. Len(p) = a + b + d /\ \A j \in 1 .. a + b + d : p[j] = low[w[j]]
  BY <1>1, <1>4, <1>6, <1>7 DEF Around
<1>9. ASSUME NEW j \in 1 .. a PROVE p[j] = low[head[j]]
  <2>1. j \in 1 .. a + b /\ j \in 1 .. a + b + d /\ j <= a /\ j <= a + b
    <3>1. j \in Nat /\ 1 <= j /\ j <= a
      BY <1>3
    <3> QED
      BY <1>3, <3>1
  <2> QED
    BY <1>5, <1>7, <1>8, <2>1
<1>10. ASSUME NEW j \in 1 .. b PROVE p[a + j] = low[q[j]]
  <2>1. PICK i : i = a + j
    OBVIOUS
  <2>2. i \in 1 .. a + b /\ i \in 1 .. a + b + d /\ ~ (i <= a) /\ i <= a + b /\ i - a = j
    BY <1>3, <2>1
  <2>3. p[i] = low[q[j]]
    BY <1>5, <1>7, <1>8, <2>2
  <2> QED
    BY <2>1, <2>3
<1>11. ASSUME NEW j \in 1 .. d PROVE p[a + b + j] = low[tail[j]]
  <2>1. PICK i : i = a + b + j
    OBVIOUS
  <2>2. i \in 1 .. a + b + d /\ ~ (i <= a + b) /\ i - (a + b) = j
    BY <1>3, <2>1
  <2>3. p[i] = low[tail[j]]
    BY <1>7, <1>8, <2>2
  <2> QED
    BY <2>1, <2>3
<1>12. /\ in \in [0 .. n -> 0 .. b] /\ in[0] = 0 /\ in[n] = b
       /\ \A k \in 1 .. n :
            /\ q[in[k]] = x[k]
            /\ x[k] \in special => in[k] = in[k - 1] + 2 /\ q[in[k - 1] + 1] = esc
            /\ x[k] \notin special => in[k] = in[k - 1] + 1
  BY <1>1, <1>2 DEF Spells
<1> DEFINE at == [k \in 0 .. n |-> a + in[k]]
<1>13. \A k \in 0 .. n : at[k] = a + in[k] /\ in[k] \in 0 .. b
  BY <1>12
<1>14. at \in [0 .. n -> 0 .. Len(p)]
  BY <1>3, <1>8, <1>12
<1> HIDE DEF at
<1>15. at[0] = a /\ at[n] = a + b
  BY <1>3, <1>12, <1>13
<1>16. ASSUME NEW k \in 1 .. n
       PROVE  /\ p[at[k]] = y[k]
              /\ y[k] \in special => at[k] = at[k - 1] + 2 /\ p[at[k - 1] + 1] = esc
              /\ y[k] \notin special => at[k] = at[k - 1] + 1
  <2>1. PICK g, h, c : g = in[k - 1] /\ h = in[k] /\ c = x[k]
    OBVIOUS
  <2>2. /\ q[h] = c
        /\ c \in special => h = g + 2 /\ q[g + 1] = esc
        /\ c \notin special => h = g + 1
    BY <1>12, <2>1
  <2>3. at[k - 1] = a + g /\ at[k] = a + h /\ g \in 0 .. b /\ h \in 0 .. b
    <3>1. k \in 0 .. n /\ k - 1 \in 0 .. n
      OBVIOUS
    <3> QED
      BY <1>13, <2>1, <3>1
  <2>4. y[k] = low[c] /\ c \in Chars /\ (low[c] \in special <=> c \in special)
    BY <2>1
  <2>5. h \in 1 .. b
    BY <1>3, <2>2, <2>3
  <2>6. p[at[k]] = y[k]
    BY <1>10, <2>2, <2>3, <2>4, <2>5
  <2>7. CASE c \in special
    <3>1. h = g + 2 /\ q[g + 1] = esc
      BY <2>2, <2>7
    <3>2. g + 1 \in 1 .. b
      BY <1>3, <2>3, <2>5, <3>1
    <3>3. p[a + (g + 1)] = esc
      BY <1>10, <3>1, <3>2
    <3>4. a + (g + 1) = at[k - 1] + 1 /\ at[k] = at[k - 1] + 2
      BY <1>3, <2>3, <3>1
    <3> QED
      BY <2>4, <2>6, <2>7, <3>3, <3>4
  <2>8. CASE c \notin special
    <3>1. at[k] = at[k - 1] + 1
      BY <1>3, <2>2, <2>3, <2>8
    <3> QED
      BY <2>4, <2>6, <2>8, <3>1
  <2> QED
    BY <2>7, <2>8
<1>17. Spells(p, a, y, n, at, esc, special)
  BY <1>14, <1>15, <1>16 DEF Spells
<1>18. Len(p) = at[n] + d /\ \A j \in 1 .. d : p[at[n] + j] = low[tail[j]]
  BY <1>8, <1>11, <1>15
<1> QED
  BY <1>2, <1>9, <1>17, <1>18

\* What a search for a text finds: the first n characters of x, in s.
Found(op, s, x, n) ==
  CASE op = "contains" -> \E k \in n .. Len(s) : Reads(s, k - n, x, n)
    [] op = "starts_with" -> n <= Len(s) /\ Reads(s, 0, x, n)
    [] op = "ends_with" -> n <= Len(s) /\ Reads(s, Len(s) - n, x, n)

LEMMA TextFinds ==
  ASSUME NEW op \in TextOps, NEW v \in Seq(Chars), NEW sub \in Seq(Chars)
  PROVE  TextMatches(op, v, sub) <=> Found(op, ToLower(v), ToLower(sub), Len(sub))
<1>1. PICK s, x, m, n :
        /\ s = ToLower(v) /\ x = ToLower(sub)
        /\ s \in Seq(Chars) /\ x \in Seq(Chars) /\ m \in Nat /\ n \in Nat
        /\ Len(s) = m /\ Len(x) = n /\ Len(v) = m /\ Len(sub) = n
  <2>1. /\ ToLower(v) \in Seq(Chars) /\ Len(ToLower(v)) = Len(v)
        /\ ToLower(sub) \in Seq(Chars) /\ Len(ToLower(sub)) = Len(sub)
    BY LowerText
  <2>2. Len(v) \in Nat /\ Len(sub) \in Nat
    OBVIOUS
  <2> QED
    BY <2>1, <2>2, Zenon
<1>2. ASSUME NEW i \in 1 .. m + 1 - n
      PROVE  SubSeq(s, i, i + n - 1) = x <=> Reads(s, i - 1, x, n)
  <2>1. i \in 1 .. Len(s) + 1 - Len(x)
    BY <1>1
  <2>2. SubSeq(s, i, i + Len(x) - 1) = x <=> Reads(s, i - 1, x, Len(x))
    BY <1>1, <2>1, PartIs
  <2> QED
    BY <1>1, <2>2
<1>3. n <= m => 1 \in 1 .. m + 1 - n /\ m + 1 - n \in 1 .. m + 1 - n
  BY <1>1
<1>4. CASE op = "starts_with"
  <2>1. TextMatches(op, v, sub) <=> n <= m /\ SubSeq(s, 1, 1 + n - 1) = x
    BY <1>1, <1>4 DEF TextMatches
  <2>2. n <= m => (SubSeq(s, 1, 1 + n - 1) = x <=> Reads(s, 1 - 1, x, n))
    BY <1>2, <1>3
  <2>3. Found(op, s, x, n) <=> n <= m /\ Reads(s, 0, x, n)
    BY <1>1, <1>4 DEF Found
  <2> QED
    BY <1>1, <2>1, <2>2, <2>3
<1>5. CASE op = "ends_with"
  <2>1. TextMatches(op, v, sub) <=>
          n <= m /\ SubSeq(s, m + 1 - n, (m + 1 - n) + n - 1) = x
    BY <1>1, <1>5 DEF TextMatches
  <2>2. n <= m => (SubSeq(s, m + 1 - n, (m + 1 - n) + n - 1) = x
                    <=> Reads(s, (m + 1 - n) - 1, x, n))
    BY <1>2, <1>3
  <2>3. (m + 1 - n) - 1 = m - n
    BY <1>1
  <2>4. Found(op, s, x, n) <=> n <= m /\ Reads(s, m - n, x, n)
    BY <1>1, <1>5 DEF Found
  <2> QED
    BY <1>1, <2>1, <2>2, <2>3, <2>4
<1>6. CASE op = "contains"
  <2>1. TextMatches(op, v, sub) <=>
          n <= m /\ \E i \in 1 .. m + 1 - n : SubSeq(s, i, i + n - 1) = x
    BY <1>1, <1>6 DEF TextMatches
  <2>2. Found(op, s, x, n) <=> \E k \in n .. m : Reads(s, k - n, x, n)
    BY <1>1, <1>6 DEF Found
  <2>3. \A i \in n .. m : /\ n <= m /\ i - n + 1 \in 1 .. m + 1 - n
                          /\ (i - n + 1) - 1 = i - n
    BY <1>1
  <2>4. \A i \in 1 .. m + 1 - n : /\ i + n - 1 \in n .. m
                                  /\ (i + n - 1) - n = i - 1
    BY <1>1
  <2>5. ASSUME TextMatches(op, v, sub) PROVE Found(op, s, x, n)
    <3>1. PICK i \in 1 .. m + 1 - n : SubSeq(s, i, i + n - 1) = x
      BY <2>1, <2>5
    <3> DEFINE k == i + n - 1
    <3>2. k \in n .. m /\ k - n = i - 1
      BY <2>4
    <3> HIDE DEF k
    <3>3. Reads(s, k - n, x, n)
      BY <1>2, <3>1, <3>2
    <3> QED
      BY <2>2, <3>2, <3>3
  <2>6. ASSUME NEW i \in n .. m, Reads(s, i - n, x, n)
        PROVE  TextMatches(op, v, sub)
    <3> DEFINE at == i - n + 1
    <3>1. n <= m /\ at \in 1 .. m + 1 - n /\ at - 1 = i - n
      BY <2>3
    <3> HIDE DEF at
    <3>2. SubSeq(s, at, at + n - 1) = x
      BY <1>2, <2>6, <3>1
    <3> QED
      BY <2>1, <3>1, <3>2
  <2>7. TextMatches(op, v, sub) <=> Found(op, s, x, n)
    BY <2>2, <2>5, <2>6
  <2> QED
    BY <1>1, <2>7
<1> QED
  BY <1>4, <1>5, <1>6 DEF TextOps

\* A wildcard that no escape character precedes.
LEMMA ReadWild ==
  ASSUME NEW s, NEW m, ~ m.literal, NEW ch, NEW esc, NEW wild, ch \in wild, ch # esc
  PROVE  Read(s, m, ch, esc, wild) = [ends |-> Wild(s, m.ends, ch), literal |-> FALSE]
  BY DEF Read

\* One at the beginning of a pattern, and one at its end.
LEMMA FirstWild ==
  ASSUME NEW s, NEW p, NEW st, NEW from, NEW esc, NEW wild, ReadsBy(st, s, p, from, esc, wild),
         Len(p) \in Nat, 1 <= Len(p), NEW ch, ch \in wild, ch # esc, p[1] = ch
  PROVE  st[1] = [ends |-> Wild(s, from, ch), literal |-> FALSE]
<1>1. st[0] = [ends |-> from, literal |-> FALSE]
  BY DEF ReadsBy
<1>2. st[1] = Read(s, st[0], ch, esc, wild)
  <2>1. 1 \in 1 .. Len(p) /\ 1 - 1 = 0
    OBVIOUS
  <2> QED
    BY <2>1 DEF ReadsBy
<1>3. PICK m : m = st[0]
  OBVIOUS
<1>4. ~ m.literal /\ m.ends = from
  BY <1>1, <1>3
<1>5. Read(s, m, ch, esc, wild) = [ends |-> Wild(s, m.ends, ch), literal |-> FALSE]
  BY <1>4, ReadWild
<1> QED
  BY <1>2, <1>3, <1>4, <1>5

LEMMA LastWild ==
  ASSUME NEW s, NEW p, NEW st, NEW from, NEW esc, NEW wild, ReadsBy(st, s, p, from, esc, wild),
         NEW h \in Nat, Len(p) = h + 1, ~ st[h].literal,
         NEW ch, ch \in wild, ch # esc, p[h + 1] = ch
  PROVE  st[Len(p)].ends = Wild(s, st[h].ends, ch)
<1>1. st[h + 1] = Read(s, st[h], ch, esc, wild)
  <2>1. h + 1 \in 1 .. Len(p) /\ (h + 1) - 1 = h
    OBVIOUS
  <2> QED
    BY <2>1 DEF ReadsBy
<1>2. PICK m : m = st[h]
  OBVIOUS
<1>3. Read(s, m, ch, esc, wild) = [ends |-> Wild(s, m.ends, ch), literal |-> FALSE]
  BY <1>2, ReadWild
<1> QED
  BY <1>1, <1>2, <1>3

\* Where the text stands in the pattern p that its search is made of: after the place a
\* and up to the place b, with the wildcards of the engine around it.
Bounded(p, a, b, first, last) ==
  /\ a \in {0, 1} /\ (first = "none" <=> a = 0) /\ (first # "none" => p[1] = first)
  /\ Len(p) = IF last = "none" THEN b ELSE b + 1
  /\ last # "none" => p[b + 1] = last

Sides(first, last, head, tail, low) ==
  /\ IF first = "none" THEN head = <<>> ELSE head = <<first>> /\ low[first] = first
  /\ IF last = "none" THEN tail = <<>> ELSE tail = <<last>> /\ low[last] = last

LEMMA BetweenBounds ==
  ASSUME NEW p, NEW head, NEW tail, NEW x, NEW esc, NEW special, NEW low, NEW y,
         Around(p, head, tail, x, esc, special, low, y),
         NEW n \in Nat, Len(x) = n, NEW first, NEW last, Sides(first, last, head, tail, low)
  PROVE  \E a, at : Spells(p, a, y, n, at, esc, special) /\ Bounded(p, a, at[n], first, last)
<1>1. PICK at : /\ Spells(p, Len(head), y, n, at, esc, special)
                /\ Len(p) = at[n] + Len(tail)
                /\ \A j \in 1 .. Len(head) : p[j] = low[head[j]]
                /\ \A j \in 1 .. Len(tail) : p[at[n] + j] = low[tail[j]]
  BY SpelledBetween
<1>2. PICK a : a = Len(head)
  OBVIOUS
<1>3. at[n] \in Int
  <2>1. at \in [0 .. n -> 0 .. Len(p)] /\ n \in 0 .. n
    BY <1>1 DEF Spells
  <2> QED
    BY <2>1
<1>4. a \in {0, 1} /\ (first = "none" <=> a = 0) /\ (first # "none" => p[1] = first)
  <2>1. CASE first = "none"
    <3>1. Len(head) = 0
      BY <2>1 DEF Sides
    <3> QED
      BY <1>2, <2>1, <3>1
  <2>2. CASE first # "none"
    <3>1. head = <<first>> /\ low[first] = first
      BY <2>2 DEF Sides
    <3>2. Len(head) = 1 /\ head[1] = first
      BY <3>1
    <3>3. p[1] = low[head[1]]
      BY <1>1, <3>2
    <3> QED
      BY <1>2, <2>2, <3>1, <3>2, <3>3
  <2> QED
    BY <2>1, <2>2
<1>5. /\ Len(p) = IF last = "none" THEN at[n] ELSE at[n] + 1
      /\ last # "none" => p[at[n] + 1] = last
  <2>1. CASE last = "none"
    <3>1. Len(tail) = 0
      BY <2>1 DEF Sides
    <3> QED
      BY <1>1, <1>3, <2>1, <3>1
  <2>2. CASE last # "none"
    <3>1. tail = <<last>> /\ low[last] = last
      BY <2>2 DEF Sides
    <3>2. Len(tail) = 1 /\ tail[1] = last
      BY <3>1
    <3>3. p[at[n] + 1] = low[tail[1]]
      BY <1>1, <3>2
    <3> QED
      BY <1>1, <2>2, <3>1, <3>2, <3>3
  <2> QED
    BY <2>1, <2>2
<1>6. Bounded(p, a, at[n], first, last)
  BY <1>4, <1>5 DEF Bounded
<1> QED
  BY <1>1, <1>2, <1>6

\* What an engine makes of such a pattern: the text is matched by its characters, from
\* what the wildcard before it leaves, and the one after it goes on from there.
PatternLanguage(esc, wild, special, first, last) ==
  /\ wild \subseteq Wildcards /\ wild \subseteq special /\ esc \in special
  /\ first # "none" => first \in wild /\ first # esc
  /\ last # "none" => last \in wild /\ last # esc

EngineMatches(s, p, x, n, esc, wild, first, last, from) ==
  \E S, E :
    /\ S = IF first = "none" THEN from ELSE Wild(s, from, first)
    /\ \A k : k \in E <=> k \in n .. Len(s) /\ k - n \in S /\ Reads(s, k - n, x, n)
    /\ Reading(s, p, from, esc, wild) = IF last = "none" THEN E ELSE Wild(s, E, last)

LEMMA EngineReads ==
  ASSUME NEW s, NEW p, NEW x, NEW n \in Nat, NEW a, NEW at, NEW esc, NEW wild, NEW special,
         NEW first, NEW last, NEW from, Readable(s, p, from, wild),
         PatternLanguage(esc, wild, special, first, last), Spells(p, a, x, n, at, esc, special),
         Bounded(p, a, at[n], first, last)
  PROVE  EngineMatches(s, p, x, n, esc, wild, first, last, from)
<1>1. PICK st : /\ ReadsBy(st, s, p, from, esc, wild)
                /\ Reading(s, p, from, esc, wild) = st[Len(p)].ends
  BY ReadingBy
<1>2. Len(s) \in Nat /\ Len(p) \in Nat /\ from \subseteq 0 .. Len(s)
  BY DEF Readable
<1>3. /\ wild \subseteq Wildcards /\ wild \subseteq special /\ esc \in special
      /\ first # "none" => first \in wild /\ first # esc
      /\ last # "none" => last \in wild /\ last # esc
  BY DEF PatternLanguage
<1>4. PICK b : b = at[n] /\ b \in 0 .. Len(p)
  <2>1. n \in 0 .. n /\ at \in [0 .. n -> 0 .. Len(p)]
    BY DEF Spells
  <2> QED
    BY <2>1
<1>5. /\ a \in {0, 1} /\ (first = "none" <=> a = 0) /\ (first # "none" => p[1] = first)
      /\ Len(p) = IF last = "none" THEN b ELSE b + 1
      /\ last # "none" => p[b + 1] = last
  BY <1>4 DEF Bounded
<1>6. PICK S : S = IF first = "none" THEN from ELSE Wild(s, from, first)
  OBVIOUS
<1>7. S \subseteq 0 .. Len(s) /\ st[a] = [ends |-> S, literal |-> FALSE]
  <2>1. CASE first = "none"
    <3>1. a = 0 /\ st[0] = [ends |-> from, literal |-> FALSE]
      BY <1>1, <1>5, <2>1 DEF ReadsBy
    <3> QED
      BY <1>2, <1>6, <2>1, <3>1
  <2>2. CASE first # "none"
    <3>1. a = 1 /\ p[1] = first /\ first \in wild /\ first # esc
      BY <1>3, <1>5, <2>2
    <3>2. 1 <= Len(p)
      <4>1. at[0] = 1 /\ at[0] \in 0 .. Len(p)
        <5>1. at[0] = a /\ at \in [0 .. n -> 0 .. Len(p)] /\ 0 \in 0 .. n
          BY DEF Spells
        <5> QED
          BY <3>1, <5>1
      <4> QED
        BY <1>2, <4>1
    <3>3. st[1] = [ends |-> Wild(s, from, first), literal |-> FALSE]
      BY <1>1, <1>2, <3>1, <3>2, FirstWild
    <3>4. Wild(s, from, first) \subseteq 0 .. Len(s)
      BY <1>2, <1>3, <3>1, WildWithin
    <3> QED
      BY <1>6, <2>2, <3>1, <3>3, <3>4
  <2> QED
    BY <2>1, <2>2
<1>8. Ready(st, s, p, a, S, esc, wild, special)
  BY <1>2, <1>3, <1>7 DEF Ready
<1>9. LiteralEnds(st, s, b, S, x, n)
  BY <1>1, <1>4, <1>8, LiteralRun
<1>10. PICK E : E = st[b].ends
  OBVIOUS
<1>11. /\ ~ st[b].literal
       /\ \A k : k \in E <=> k \in n .. Len(s) /\ k - n \in S /\ Reads(s, k - n, x, n)
  BY <1>9, <1>10 DEF LiteralEnds
<1>12. st[Len(p)].ends = IF last = "none" THEN E ELSE Wild(s, E, last)
  <2>1. CASE last = "none"
    BY <1>5, <1>10, <2>1
  <2>2. CASE last # "none"
    <3>1. b \in Nat /\ Len(p) = b + 1 /\ p[b + 1] = last /\ last \in wild /\ last # esc
      BY <1>3, <1>4, <1>5, <2>2
    <3>2. st[Len(p)].ends = Wild(s, st[b].ends, last)
      BY <1>1, <1>11, <3>1, LastWild
    <3> QED
      BY <1>10, <2>2, <3>2
  <2> QED
    BY <2>1, <2>2
<1>13. Reading(s, p, from, esc, wild) = IF last = "none" THEN E ELSE Wild(s, E, last)
  BY <1>1, <1>12, Zenon
<1> QED
  BY <1>6, <1>11, <1>13 DEF EngineMatches

\* The two texts of a search, in lower case.
LEMMA SearchTexts ==
  ASSUME NEW v \in Seq(Chars), NEW sub \in Seq(Chars)
  PROVE  \E s, x, m, n :
           /\ s = ToLower(v) /\ x = ToLower(sub)
           /\ s \in Seq(Chars) /\ x \in Seq(Chars) /\ m \in Nat /\ n \in Nat
           /\ Len(s) = m /\ Len(x) = n /\ Len(v) = m /\ Len(sub) = n
<1>1. /\ ToLower(v) \in Seq(Chars) /\ Len(ToLower(v)) = Len(v)
      /\ ToLower(sub) \in Seq(Chars) /\ Len(ToLower(sub)) = Len(sub)
  BY LowerText
<1>2. Len(v) \in Nat /\ Len(sub) \in Nat
  OBVIOUS
<1> QED
  BY <1>1, <1>2, Zenon

\* SQL's LIKE over the escaped text finds what the string functions find.
LEMMA LikeFinds ==
  ASSUME NEW op \in TextOps, NEW v \in Seq(Chars), NEW sub \in Seq(Chars)
  PROVE  Like(ToLower(v), LikePattern(op, sub))
           <=> Found(op, ToLower(v), ToLower(sub), Len(sub))
<1>1. PICK s, x, m, n :
        /\ s = ToLower(v) /\ x = ToLower(sub)
        /\ s \in Seq(Chars) /\ x \in Seq(Chars) /\ m \in Nat /\ n \in Nat
        /\ Len(s) = m /\ Len(x) = n /\ Len(v) = m /\ Len(sub) = n
  BY SearchTexts
<1>2. PICK any : any = <<"%">>
  OBVIOUS
<1>3. any \in Seq(Chars) /\ <<>> \in Seq(Chars)
  <2>1. "%" \in Chars
    BY Characters, Zenon
  <2> QED
    BY <1>2, <2>1
<1>4. PICK q : q = Escaped(x, "!", LikeSpecial) /\ q \in Seq(Chars)
  <2>1. "!" \in Chars
    BY Characters, Zenon
  <2> QED
    BY <1>1, <2>1, EscapedSpells
<1>5. PICK p : p = LikePattern(op, sub)
  OBVIOUS
<1>6. /\ op = "contains" => p = any \o q \o any
      /\ op = "starts_with" => p = q \o any
      /\ op = "ends_with" => p = any \o q
  <2>1. "starts_with" # "contains" /\ "ends_with" # "contains" /\ "ends_with" # "starts_with"
    OBVIOUS
  <2> QED
    BY <1>1, <1>2, <1>4, <1>5, <2>1, Zenon DEF LikePattern, escapeLike, LikeSpecial
<1>7. Like(s, p) <=> Len(s) \in Reading(s, p, {0}, "!", LikeWild)
  BY Zenon DEF Like, LikeWild
<1>8. PICK first, last, head, tail :
        /\ first = IF op = "starts_with" THEN "none" ELSE "%"
        /\ last = IF op = "ends_with" THEN "none" ELSE "%"
        /\ head = IF op = "starts_with" THEN <<>> ELSE any
        /\ tail = IF op = "ends_with" THEN <<>> ELSE any
  OBVIOUS
<1>9. head \in Seq(Chars) /\ tail \in Seq(Chars)
  BY <1>3, <1>8
<1>10. p = head \o q \o tail
  <2>1. any \o q \in Seq(Chars) /\ <<>> \o q = q
    BY <1>3, <1>4
  <2>2. (any \o q) \o <<>> = any \o q
    BY <2>1
  <2> QED
    BY <1>6, <1>8, <2>1, <2>2 DEF TextOps
<1>11. p \in Seq(Chars) /\ Len(p) \in Nat
  BY <1>4, <1>9, <1>10
<1>12. PICK low : low = [c \in Chars |-> c]
  OBVIOUS
<1>13. \A c \in Chars : low[c] = c
  BY <1>12
<1>14. Around(p, head, tail, x, "!", LikeSpecial, low, x)
  <2>1. "!" \in Chars
    BY Characters, Zenon
  <2>2. low["!"] = "!" /\ \A c \in Chars : low[c] \in LikeSpecial <=> c \in LikeSpecial
    BY <1>13, <2>1
  <2>3. \A j \in 1 .. Len(p) : p[j] = low[p[j]]
    BY <1>11, <1>13
  <2>4. \A k \in 1 .. Len(x) : x[k] = low[x[k]]
    BY <1>1, <1>13
  <2>5. p = head \o Escaped(x, "!", LikeSpecial) \o tail
    BY <1>4, <1>10, Zenon
  <2>6. /\ Len(p) = Len(head \o Escaped(x, "!", LikeSpecial) \o tail)
        /\ \A j \in 1 .. Len(p) : p[j] = low[(head \o Escaped(x, "!", LikeSpecial) \o tail)[j]]
    BY <2>3, <2>5, Zenon
  <2> QED
    BY <1>1, <1>9, <2>1, <2>2, <2>4, <2>6, Zenon DEF Around
<1>15. PICK a, at : Spells(p, a, x, n, at, "!", LikeSpecial) /\ Bounded(p, a, at[n], first, last)
  <2>1. "%" # "none" /\ low["%"] = "%"
    <3>1. "%" \in Chars
      BY Characters, Zenon
    <3> QED
      BY <1>13, <3>1
  <2>2. Sides(first, last, head, tail, low)
    BY <1>2, <1>8, <2>1 DEF Sides
  <2> QED
    BY <1>1, <1>14, <2>2, BetweenBounds
<1>16. PatternLanguage("!", LikeWild, LikeSpecial, first, last)
  <2>1. /\ LikeWild \subseteq Wildcards /\ LikeWild \subseteq LikeSpecial /\ "!" \in LikeSpecial
        /\ "%" \in LikeWild /\ "%" # "!"
    BY Characters, Zenon
  <2> QED
    BY <1>8, <2>1 DEF PatternLanguage
<1>17. Readable(s, p, {0}, LikeWild)
  <2>1. LikeWild \subseteq Wildcards
    BY Characters, Zenon
  <2> QED
    BY <1>1, <1>11, <2>1 DEF Readable
<1>18. PICK S, E :
         /\ S = IF first = "none" THEN {0} ELSE Wild(s, {0}, first)
         /\ \A k : k \in E <=> k \in n .. Len(s) /\ k - n \in S /\ Reads(s, k - n, x, n)
         /\ Reading(s, p, {0}, "!", LikeWild) = IF last = "none" THEN E ELSE Wild(s, E, last)
  <2>1. EngineMatches(s, p, x, n, "!", LikeWild, first, last, {0})
    BY <1>1, <1>15, <1>16, <1>17, EngineReads
  <2> QED
    BY <2>1 DEF EngineMatches
<1>19. "%" # "none"
  OBVIOUS
<1>20. first # "none" => S = 0 .. m
  <2>1. first # "none" => S = Wild(s, {0}, "%")
    BY <1>8, <1>18, <1>19
  <2>2. Wild(s, {0}, "%") = {i \in 0 .. Len(s) : \E k \in {0} : k <= i}
    BY WildEnds
  <2>3. {i \in 0 .. m : \E k \in {0} : k <= i} = 0 .. m
    OBVIOUS
  <2> QED
    BY <1>1, <2>1, <2>2, <2>3
<1>21. first = "none" => S = {0}
  BY <1>18
<1>22. \A k : k \in E <=> k \in n .. m /\ k - n \in S /\ Reads(s, k - n, x, n)
  BY <1>1, <1>18
<1>23. last = "none" => (Like(s, p) <=> m \in E)
  BY <1>1, <1>7, <1>18
<1>24. last # "none" => (Like(s, p) <=> \E k \in E : k <= m)
  <2>1. last # "none" => Reading(s, p, {0}, "!", LikeWild) = Wild(s, E, "%")
    BY <1>8, <1>18, <1>19
  <2>2. Wild(s, E, "%") = {i \in 0 .. Len(s) : \E k \in E : k <= i}
    BY WildEnds
  <2>3. m \in {i \in 0 .. Len(s) : \E k \in E : k <= i} <=> \E k \in E : k <= m
    BY <1>1
  <2> QED
    BY <1>1, <1>7, <2>1, <2>2, <2>3
<1>25. CASE op = "starts_with"
  <2>1. S = {0} /\ last # "none"
    BY <1>8, <1>19, <1>21, <1>25
  <2>2. Found(op, s, x, n) <=> n <= m /\ Reads(s, 0, x, n)
    BY <1>1, <1>25 DEF Found
  <2>3. ASSUME NEW k \in E PROVE n <= m /\ Reads(s, 0, x, n)
    <3>1. k \in n .. m /\ k - n = 0 /\ Reads(s, k - n, x, n)
      BY <1>22, <2>1
    <3> QED
      BY <1>1, <3>1
  <2>4. ASSUME n <= m, Reads(s, 0, x, n) PROVE n \in E
    <3>1. n \in n .. m /\ n - n = 0
      BY <1>1, <2>4
    <3> QED
      BY <1>22, <2>1, <2>4, <3>1
  <2>5. Like(s, p) <=> Found(op, s, x, n)
    BY <1>24, <2>1, <2>2, <2>3, <2>4
  <2> QED
    BY <1>1, <1>5, <2>5
<1>26. CASE op = "ends_with"
  <2>1. S = 0 .. m /\ last = "none"
    BY <1>8, <1>19, <1>20, <1>26
  <2>2. Found(op, s, x, n) <=> n <= m /\ Reads(s, m - n, x, n)
    BY <1>1, <1>26 DEF Found
  <2>3. m \in n .. m /\ m - n \in 0 .. m <=> n <= m
    BY <1>1
  <2>4. m \in E <=> m \in n .. m /\ m - n \in 0 .. m /\ Reads(s, m - n, x, n)
    BY <1>22, <2>1
  <2>5. Like(s, p) <=> Found(op, s, x, n)
    BY <1>23, <2>1, <2>2, <2>3, <2>4, Zenon
  <2> QED
    BY <1>1, <1>5, <2>5
<1>27. CASE op = "contains"
  <2>1. S = 0 .. m /\ last # "none"
    BY <1>8, <1>19, <1>20, <1>27
  <2>2. Found(op, s, x, n) <=> \E k \in n .. m : Reads(s, k - n, x, n)
    BY <1>1, <1>27 DEF Found
  <2>3. \A k \in n .. m : k - n \in 0 .. m /\ k <= m
    BY <1>1
  <2>4. \A k : k \in E <=> k \in n .. m /\ Reads(s, k - n, x, n)
    BY <1>22, <2>1, <2>3, Zenon
  <2>5. Like(s, p) <=> Found(op, s, x, n)
    BY <1>24, <2>1, <2>2, <2>3, <2>4, Zenon
  <2> QED
    BY <1>1, <1>5, <2>5
<1> QED
  BY <1>25, <1>26, <1>27 DEF TextOps

\* MongoDB's regular expression over the quoted text, read without regard to case,
\* finds the same.
LEMMA RegexFinds ==
  ASSUME NEW op \in TextOps, NEW v \in Seq(Chars), NEW sub \in Seq(Chars)
  PROVE  Regex(v, RegexPattern(op, sub)) <=> Found(op, ToLower(v), ToLower(sub), Len(sub))
<1>1. PICK s, x, m, n :
        /\ s = ToLower(v) /\ x = ToLower(sub)
        /\ s \in Seq(Chars) /\ x \in Seq(Chars) /\ m \in Nat /\ n \in Nat
        /\ Len(s) = m /\ Len(x) = n /\ Len(v) = m /\ Len(sub) = n
  BY SearchTexts
<1>2. PICK begin, end : begin = <<"^">> /\ end = <<"$">>
  OBVIOUS
<1>3. begin \in Seq(Chars) /\ end \in Seq(Chars) /\ <<>> \in Seq(Chars)
  <2>1. "^" \in Chars /\ "$" \in Chars
    BY Characters, Zenon
  <2> QED
    BY <1>2, <2>1
<1>4. PICK q : q = Escaped(sub, Backslash, RegexSpecial) /\ q \in Seq(Chars)
  <2>1. Backslash \in Chars
    BY Characters, Zenon
  <2> QED
    BY <1>1, <2>1, EscapedSpells
<1>5. PICK w, p : w = RegexPattern(op, sub) /\ p = ToLower(w)
  OBVIOUS
<1>6. /\ op = "contains" => w = q
      /\ op = "starts_with" => w = begin \o q
      /\ op = "ends_with" => w = q \o end
  <2>1. "starts_with" # "contains" /\ "ends_with" # "contains" /\ "ends_with" # "starts_with"
    OBVIOUS
  <2> QED
    BY <1>2, <1>4, <1>5, <2>1, Zenon DEF RegexPattern, QuoteMeta, RegexSpecial, Backslash
<1>7. Regex(v, w) <=> Reading(s, p, 0 .. m, Backslash, RegexWild) # {}
  BY <1>1, <1>5, Zenon DEF Regex, RegexWild, Backslash
<1>8. PICK first, last, head, tail :
        /\ first = IF op = "starts_with" THEN "^" ELSE "none"
        /\ last = IF op = "ends_with" THEN "$" ELSE "none"
        /\ head = IF op = "starts_with" THEN begin ELSE <<>>
        /\ tail = IF op = "ends_with" THEN end ELSE <<>>
  OBVIOUS
<1>9. head \in Seq(Chars) /\ tail \in Seq(Chars)
  BY <1>3, <1>8
<1>10. w = head \o q \o tail
  <2>1. begin \o q \in Seq(Chars) /\ <<>> \o q = q /\ q \o <<>> = q
    BY <1>3, <1>4
  <2>2. (begin \o q) \o <<>> = begin \o q
    BY <2>1
  <2> QED
    BY <1>6, <1>8, <2>1, <2>2 DEF TextOps
<1>11. w \in Seq(Chars) /\ Len(w) \in Nat
  BY <1>4, <1>9, <1>10
<1>12. p \in Seq(Chars) /\ Len(p) = Len(w) /\ Len(p) \in Nat
  BY <1>5, <1>11, LowerText
<1>13. PICK low : low = [c \in Chars |-> IF c = "A" THEN "a" ELSE c]
  OBVIOUS
<1>14. \A c \in Chars : low[c] = IF c = "A" THEN "a" ELSE c
  BY <1>13
<1>15. ASSUME NEW t \in Seq(Chars), NEW k \in 1 .. Len(t) PROVE ToLower(t)[k] = low[t[k]]
  <2>1. ToLower(t)[k] = IF t[k] = "A" THEN "a" ELSE t[k]
    BY DEF ToLower
  <2>2. t[k] \in Chars
    OBVIOUS
  <2> QED
    BY <1>14, <2>1, <2>2
<1>16. Around(p, head, tail, sub, Backslash, RegexSpecial, low, x)
  <2>1. /\ Backslash \in Chars /\ Backslash # "A"
        /\ "a" \notin RegexSpecial /\ "A" \notin RegexSpecial
    BY Characters, Zenon
  <2>2. low[Backslash] = Backslash /\ \A c \in Chars : low[c] \in RegexSpecial <=> c \in RegexSpecial
    BY <1>14, <2>1
  <2>3. \A j \in 1 .. Len(p) : p[j] = low[w[j]]
    BY <1>5, <1>11, <1>12, <1>15
  <2>4. \A k \in 1 .. Len(sub) : x[k] = low[sub[k]]
    BY <1>1, <1>15
  <2>5. w = head \o Escaped(sub, Backslash, RegexSpecial) \o tail
    BY <1>4, <1>10, Zenon
  <2>6. /\ Len(p) = Len(head \o Escaped(sub, Backslash, RegexSpecial) \o tail)
        /\ \A j \in 1 .. Len(p) :
             p[j] = low[(head \o Escaped(sub, Backslash, RegexSpecial) \o tail)[j]]
    BY <1>12, <2>3, <2>5, Zenon
  <2> QED
    BY <1>9, <2>1, <2>2, <2>4, <2>6, Zenon DEF Around
<1>17. PICK a, at :
         Spells(p, a, x, n, at, Backslash, RegexSpecial) /\ Bounded(p, a, at[n], first, last)
  <2>1. "^" # "none" /\ "$" # "none" /\ low["^"] = "^" /\ low["$"] = "$"
    <3>1. "^" \in Chars /\ "$" \in Chars /\ "^" # "A" /\ "$" # "A"
      BY Characters, Zenon
    <3> QED
      BY <1>14, <3>1
  <2>2. Sides(first, last, head, tail, low)
    BY <1>2, <1>8, <2>1 DEF Sides
  <2> QED
    BY <1>1, <1>16, <2>2, BetweenBounds
<1>18. PatternLanguage(Backslash, RegexWild, RegexSpecial, first, last)
  <2>1. /\ RegexWild \subseteq Wildcards /\ RegexWild \subseteq RegexSpecial
        /\ Backslash \in RegexSpecial /\ "^" \in RegexWild /\ "$" \in RegexWild
        /\ "^" # Backslash /\ "$" # Backslash
    BY Characters, Zenon
  <2> QED
    BY <1>8, <2>1 DEF PatternLanguage
<1>19. Readable(s, p, 0 .. m, RegexWild)
  <2>1. RegexWild \subseteq Wildcards
    BY Characters, Zenon
  <2> QED
    BY <1>1, <1>12, <2>1 DEF Readable
<1>20. PICK S, E :
         /\ S = IF first = "none" THEN 0 .. m ELSE Wild(s, 0 .. m, first)
         /\ \A k : k \in E <=> k \in n .. Len(s) /\ k - n \in S /\ Reads(s, k - n, x, n)
         /\ Reading(s, p, 0 .. m, Backslash, RegexWild)
              = IF last = "none" THEN E ELSE Wild(s, E, last)
  <2>1. EngineMatches(s, p, x, n, Backslash, RegexWild, first, last, 0 .. m)
    BY <1>1, <1>17, <1>18, <1>19, EngineReads
  <2> QED
    BY <2>1 DEF EngineMatches
<1>21. \A k : k \in E <=> k \in n .. m /\ k - n \in S /\ Reads(s, k - n, x, n)
  BY <1>1, <1>20
<1>22. \A k \in n .. m : k - n \in 0 .. m
  BY <1>1
<1>23. last = "none" => (Regex(v, w) <=> E # {})
  BY <1>7, <1>20
<1>24. CASE op = "starts_with"
  <2>1. first = "^" /\ first # "none" /\ last = "none"
    BY <1>8, <1>24
  <2>2. S = {0}
    <3>1. Wild(s, 0 .. m, "^") = (0 .. m) \cap {0}
      BY WildEnds
    <3>2. (0 .. m) \cap {0} = {0}
      BY <1>1
    <3> QED
      BY <1>20, <2>1, <3>1, <3>2
  <2>3. Found(op, s, x, n) <=> n <= m /\ Reads(s, 0, x, n)
    BY <1>1, <1>24 DEF Found
  <2>4. ASSUME NEW k \in E PROVE n <= m /\ Reads(s, 0, x, n)
    <3>1. k \in n .. m /\ k - n = 0 /\ Reads(s, k - n, x, n)
      BY <1>21, <2>2
    <3> QED
      BY <1>1, <3>1
  <2>5. ASSUME n <= m, Reads(s, 0, x, n) PROVE n \in E
    <3>1. n \in n .. m /\ n - n = 0
      BY <1>1, <2>5
    <3> QED
      BY <1>21, <2>2, <2>5, <3>1
  <2>6. Regex(v, w) <=> Found(op, s, x, n)
    BY <1>23, <2>1, <2>3, <2>4, <2>5
  <2> QED
    BY <1>1, <1>5, <2>6
<1>25. CASE op = "ends_with"
  <2>1. first = "none" /\ last = "$" /\ last # "none"
    BY <1>8, <1>25
  <2>2. S = 0 .. m
    BY <1>20, <2>1
  <2>3. Regex(v, w) <=> m \in E
    <3>1. Wild(s, E, "$") = E \cap {Len(s)}
      BY WildEnds
    <3>2. Reading(s, p, 0 .. m, Backslash, RegexWild) = E \cap {m}
      BY <1>1, <1>20, <2>1, <3>1
    <3> QED
      BY <1>7, <3>2
  <2>4. Found(op, s, x, n) <=> n <= m /\ Reads(s, m - n, x, n)
    BY <1>1, <1>25 DEF Found
  <2>5. m \in n .. m /\ m - n \in 0 .. m <=> n <= m
    BY <1>1
  <2>6. m \in E <=> m \in n .. m /\ m - n \in 0 .. m /\ Reads(s, m - n, x, n)
    BY <1>21, <2>2
  <2>7. Regex(v, w) <=> Found(op, s, x, n)
    BY <2>3, <2>4, <2>5, <2>6, Zenon
  <2> QED
    BY <1>1, <1>5, <2>7
<1>26. CASE op = "contains"
  <2>1. first = "none" /\ last = "none"
    BY <1>8, <1>26
  <2>2. S = 0 .. m
    BY <1>20, <2>1
  <2>3. Found(op, s, x, n) <=> \E k \in n .. m : Reads(s, k - n, x, n)
    BY <1>1, <1>26 DEF Found
  <2>4. \A k : k \in E <=> k \in n .. m /\ Reads(s, k - n, x, n)
    BY <1>21, <1>22, <2>2, Zenon
  <2>5. Regex(v, w) <=> Found(op, s, x, n)
    BY <1>23, <2>1, <2>3, <2>4, Zenon
  <2> QED
    BY <1>1, <1>5, <2>5
<1> QED
  BY <1>24, <1>25, <1>26 DEF TextOps

\* Both find what the string functions of the memory adapter find.
LEMMA PatternsSearch ==
  ASSUME NEW op \in TextOps, NEW v \in Seq(Chars), NEW sub \in Seq(Chars)
  PROVE  /\ Like(ToLower(v), LikePattern(op, sub)) <=> TextMatches(op, v, sub)
         /\ Regex(v, RegexPattern(op, sub)) <=> TextMatches(op, v, sub)
  BY LikeFinds, RegexFinds, TextFinds

\* On a clause that is not Ambiguous the three adapters say the same.
ClauseAgrees(r, c) ==
  /\ matchOne(r, c) \in BOOLEAN
  /\ SqlClause(r, c) \in Truths
  /\ SqlClause(r, c) = "true" <=> matchOne(r, c)
  /\ MongoClause(r, c) \in BOOLEAN
  /\ MongoClause(r, c) <=> matchOne(r, c)

LEMMA ClausesAgree ==
  ASSUME NEW r \in Record, NEW c, Askable(c), ~ Ambiguous(r, c)
  PROVE  ClauseAgrees(r, c)
<1>1. \A b : Truth(b) \in Truths /\ (Truth(b) = "true" <=> b)
  BY DEF Truth, Truths
<1>2. PICK v : v = r[c.field]
  OBVIOUS
<1>3. CASE c.op = "eq"
  <2>1. matchOne(r, c) = (v = c.value) /\ MongoClause(r, c) = (v = c.value)
    BY <1>2, <1>3 DEF matchOne, MongoClause, OrderOps, TextOps
  <2>2. SqlClause(r, c) = IF c.value = Null THEN Truth(v = Null)
                          ELSE IF v = Null THEN "unknown" ELSE Truth(v = c.value)
    BY <1>2, <1>3 DEF SqlClause, OrderOps, TextOps
  <2> QED
    BY <1>1, <2>1, <2>2 DEF Truths, ClauseAgrees
<1>4. CASE c.op = "ne"
  <2>1. matchOne(r, c) = (v # c.value) /\ MongoClause(r, c) = (v # c.value)
    BY <1>2, <1>4 DEF matchOne, MongoClause, OrderOps, TextOps
  <2>2. SqlClause(r, c) = IF c.value = Null THEN Truth(v # Null)
                          ELSE IF v = Null THEN "unknown" ELSE Truth(v # c.value)
    BY <1>2, <1>4 DEF SqlClause, OrderOps, TextOps
  <2>3. v = Null => c.value = Null
    BY <1>2, <1>4 DEF Ambiguous
  <2> QED
    BY <1>1, <2>1, <2>2, <2>3 DEF Truths, ClauseAgrees
<1>5. CASE c.op = "in"
  <2>1. /\ matchOne(r, c) \in BOOLEAN /\ MongoClause(r, c) \in BOOLEAN
        /\ matchOne(r, c) <=> v \in Range(c.value.items)
        /\ MongoClause(r, c) <=> v \in Range(c.value.items)
    BY <1>2, <1>5 DEF matchOne, MongoClause, OrderOps, TextOps
  <2>2. SqlClause(r, c) = IF c.value.items = <<>> THEN "false"
                          ELSE IF v = Null THEN "unknown" ELSE Truth(v \in Range(c.value.items))
    <3>1. anyList(c.value)
      BY <1>5 DEF Ambiguous, buildClauseFails
    <3> QED
      BY <1>2, <1>5, <3>1 DEF SqlClause, OrderOps, TextOps
  <2>3. Null \notin Range(c.value.items) /\ (c.value.items = <<>> => v \notin Range(c.value.items))
    BY <1>5 DEF Askable, OrderOps, TextOps, Range
  <2>4. CASE v \in Range(c.value.items)
    <3>1. SqlClause(r, c) = "true"
      BY <2>2, <2>3, <2>4 DEF Truth
    <3> QED
      BY <2>1, <2>4, <3>1 DEF Truths, ClauseAgrees
  <2>5. CASE v \notin Range(c.value.items)
    <3>1. SqlClause(r, c) \in {"false", "unknown"}
      BY <2>2, <2>5 DEF Truth
    <3> QED
      BY <2>1, <2>5, <3>1 DEF Truths, ClauseAgrees
  <2> QED
    BY <2>4, <2>5
<1>6. CASE c.op \in OrderOps
  <2>1. c.value # Null /\ c.value # NonScalar
    BY <1>6 DEF Askable, OrderOps, TextOps, Ambiguous, buildClauseFails, Compares
  <2>2. /\ matchOne(r, c) = (v # Null /\ Ordered(c.op, v, c.value))
        /\ MongoClause(r, c) = (v # Null /\ Ordered(c.op, v, c.value))
    BY <1>2, <1>6, <2>1 DEF matchOne, MongoClause, OrderOps, TextOps
  <2>3. SqlClause(r, c) = IF v = Null THEN "unknown" ELSE Truth(Ordered(c.op, v, c.value))
    BY <1>2, <1>6, <2>1 DEF SqlClause, OrderOps, TextOps
  <2> QED
    BY <1>1, <2>2, <2>3 DEF Truths, ClauseAgrees
<1>7. CASE c.op \in TextOps
  <2>1. c.field = "key" /\ c.value \in Seq(Chars)
    BY <1>7 DEF Askable, OrderOps, TextOps
  <2>2. v \in Keys \cup {Null}
    BY <1>2, <2>1 DEF Record
  <2>3. /\ matchOne(r, c) = TextMatches(c.op, Str(v), c.value)
        /\ MongoClause(r, c) = (v # Null /\ Regex(v, RegexPattern(c.op, c.value)))
    BY <1>2, <1>7 DEF matchOne, MongoClause, OrderOps, TextOps
  <2>4. SqlClause(r, c) = IF v = Null THEN "unknown"
                          ELSE Truth(Like(ToLower(v), LikePattern(c.op, c.value)))
    BY <1>2, <1>7 DEF SqlClause, OrderOps, TextOps
  <2>5. TextMatches(c.op, Str(v), c.value) \in BOOLEAN
    BY DEF TextMatches
  <2>6. CASE v = Null
    <3>1. c.value # <<>>
      BY <1>2, <1>7, <2>6 DEF Ambiguous
    <3>2. ~ TextMatches(c.op, <<>>, c.value)
      <4>1. ~ (Len(c.value) <= Len(<<>>))
        BY <2>1, <3>1
      <4> QED
        BY <4>1 DEF TextMatches
    <3> QED
      BY <2>3, <2>4, <2>5, <2>6, <3>2 DEF Str, Truths, ClauseAgrees
  <2>7. CASE v # Null
    <3>1. v \in Seq(Chars)
      BY <2>2, <2>7, StorageAssumption
    <3>2. /\ Like(ToLower(v), LikePattern(c.op, c.value)) <=> TextMatches(c.op, v, c.value)
          /\ Regex(v, RegexPattern(c.op, c.value)) <=> TextMatches(c.op, v, c.value)
      BY <1>7, <2>1, <3>1, PatternsSearch
    <3>3. Str(v) = v
      BY <2>7 DEF Str
    <3> QED
      BY <1>1, <2>3, <2>4, <2>5, <2>7, <3>2, <3>3 DEF ClauseAgrees
  <2> QED
    BY <2>6, <2>7
<1> QED
  BY <1>3, <1>4, <1>5, <1>6, <1>7 DEF Askable

\* A query is a list.
LEMMA QueryShape ==
  ASSUME NEW where, where \in Seq(Range(where))
  PROVE  /\ Len(where) \in Nat /\ DOMAIN where = 1 .. Len(where)
         /\ where = <<>> <=> Len(where) = 0
<1> QED
  OBVIOUS

\* The three adapters select what the list of clauses means.
LEMMA AdaptersAgree ==
  ASSUME NEW r \in Record, NEW where, where \in Seq(Range(where)),
         \A k \in DOMAIN where : Askable(where[k]) /\ ~ Ambiguous(r, where[k])
  PROVE  /\ Matches(r, where) = Meaning(r, where)
         /\ SqlMatches(r, where) = Meaning(r, where)
         /\ MongoMatches(r, where) = Meaning(r, where)
<1>1. PICK n : /\ n \in Nat /\ DOMAIN where = 1 .. n /\ Len(where) = n
               /\ where = <<>> <=> n = 0
  BY QueryShape
<1>2. \A k \in 1 .. n : ClauseAgrees(r, where[k])
  BY <1>1, ClausesAgree
<1>3. \A k \in 1 .. n : where[k].connector \in {"AND", "OR"}
  BY <1>1 DEF Askable
<1>4. \A k \in 1 .. n : matchOne(r, where[k]) \in BOOLEAN
  BY <1>2 DEF ClauseAgrees
<1>5. \A k \in 1 .. n : /\ SqlClause(r, where[k]) \in Truths
                        /\ SqlClause(r, where[k]) = "true" <=> matchOne(r, where[k])
  BY <1>2 DEF ClauseAgrees
<1>6. \A k \in 1 .. n : /\ MongoClause(r, where[k]) \in BOOLEAN
                        /\ MongoClause(r, where[k]) <=> matchOne(r, where[k])
  BY <1>2 DEF ClauseAgrees
<1>7. Matches(r, where) = Meaning(r, where)
  BY <1>1, <1>3, <1>4, MatchesMeans
<1>made. \A k \in 1 .. n : ~ buildClauseFails(where[k])
  BY <1>1 DEF Ambiguous
<1>8. SqlMatches(r, where) = Meaning(r, where)
  BY <1>1, <1>3, <1>5, <1>made, SqlMeans
<1>9. MongoMatches(r, where) = Meaning(r, where)
  BY <1>1, <1>3, <1>6, <1>made, MongoMeans
<1> QED
  BY <1>7, <1>8, <1>9

-----------------------------------------------------------------------------
(* Storage: the rows and the index *)

DistinctIds(rs) == \A i, j \in DOMAIN rs : rs[i].id = rs[j].id => i = j

\* No two rows agree on the whole composite constraint.
Apart(rs) ==
  \A i, j \in DOMAIN rs :
    i # j => \/ rs[i].a = Null \/ rs[i].b = Null
             \/ rs[i].a # rs[j].a \/ rs[i].b # rs[j].b

\* Every value of a unique field has an entry, which leads to the row that has it,
\* and every entry that is not empty leads to such a row.
Entered(rs, ix) ==
  \A f \in UniqueFields, i \in DOMAIN rs : rs[i][f] # Null => ix[f][rs[i][f]] = rs[i].id
Pointing(rs, ix) ==
  \A f \in UniqueFields : \A v \in Indexable(f) :
    ix[f][v] # 0 => \E i \in DOMAIN rs : rs[i][f] = v

Sound(rs, ix) ==
  /\ rs \in Seq(Record)
  /\ \A f \in UniqueFields : DOMAIN ix[f] = Indexable(f)
  /\ DistinctIds(rs) /\ Apart(rs)
  /\ Entered(rs, ix) /\ Pointing(rs, ix)

\* No two rows clash for the engine.
NoClash(rs) == \A i, j \in DOMAIN rs : i # j => ~ Clash(rs[i], rs[j])

\* No row was won more often than given, and a row whose n is 0 less often: its last
\* turn is still to be won.
Tallies == [given : [Ids -> Nat], won : [Ids -> Nat]]
Claimed(rs, t) ==
  /\ \A i \in Ids : t.won[i] <= t.given[i]
  /\ \A k \in DOMAIN rs : rs[k].n = 0 => t.won[rs[k].id] < t.given[rs[k].id]

\* What the memory adapter and the engines keep, whatever callers do.
MemoryKeeps(h, t) ==
  /\ h = [rows |-> h.rows, index |-> h.index]
  /\ Sound(h.rows, h.index) /\ Claimed(h.rows, t)
EngineKeeps(rs, t) == rs \in Seq(Record) /\ NoClash(rs) /\ Claimed(rs, t)

\* An Update under way has values to write, over the record that it found.
Updates == [step : {"none", "write", "read"}, set : Values \cup {<<>>},
            row : Record \cup {Null}]
Writing(k, u) ==
  \A c \in Callers : /\ u[c].step = "write" => u[c].set \in Values
                     /\ u[c].step # "none" => k = "sql"

Inv_Types ==
  /\ kind \in Kinds /\ heap = [rows |-> heap.rows, index |-> heap.index]
  /\ update \in [Callers -> Updates] /\ Writing(kind, update)
  /\ tally \in Tallies
  /\ asked = NoQuestion \/ (asked.record \in Record /\ asked.where \in Queries)
Inv_Tx ==
  /\ tx = NoTx \/ (kind = "memory" /\ tx.by \in Callers)
  /\ tx = [by |-> tx.by, heap |-> tx.heap, tally |-> tx.tally] /\ tx.tally \in Tallies
Inv_Memory == kind = "memory" => MemoryKeeps(heap, tally) /\ MemoryKeeps(tx.heap, tx.tally)
Inv_Engine == kind # "memory" => EngineKeeps(heap.rows, tally)
StoreIInv == Inv_Types /\ Inv_Tx /\ Inv_Memory /\ Inv_Engine

\* What a record's fields hold.
LEMMA RecordFields ==
  ASSUME NEW r \in Record
  PROVE  /\ r.id \in Ids /\ r.key \in Keys \cup {Null} /\ r.a = 1
         /\ r.b \in {1, Null} /\ r.n \in {0, 1}
         /\ r.id \in Nat /\ r.id # 0 /\ r.id # Null /\ 0 # Null /\ 1 # Null
         /\ r["id"] = r.id /\ r["key"] = r.key /\ r["a"] = r.a /\ r["b"] = r.b /\ r["n"] = r.n
         /\ \A f \in UniqueFields : r[f] # Null => r[f] \in Indexable(f)
<1>1. /\ r.id \in Ids /\ r.key \in Keys \cup {Null} /\ r.a = 1
      /\ r.b \in {1, Null} /\ r.n \in {0, 1}
      /\ r["id"] = r.id /\ r["key"] = r.key /\ r["a"] = r.a /\ r["b"] = r.b /\ r["n"] = r.n
  BY DEF Record
<1>2. r.id \in Nat /\ r.id # 0 /\ r.id # Null /\ 0 # Null /\ 1 # Null
  BY <1>1, StorageAssumption
<1> QED
  BY <1>1, <1>2 DEF UniqueFields, Indexable

\* A change keeps the id; n becomes 0 only when it is set to 0, and a change that
\* sets it sets nothing else.
LEMMA Merged ==
  ASSUME NEW r \in Record, NEW set \in Values
  PROVE  /\ Merge(r, set) \in Record
         /\ Merge(r, set).id = r.id
         /\ Merge(r, set).n = 0 => r.n = 0 \/ set = [n |-> 0]
         /\ set = [n |-> 1] => /\ Merge(r, set).n = 1 /\ Merge(r, set).key = r.key
                               /\ Merge(r, set).a = r.a /\ Merge(r, set).b = r.b
<1>1. CASE \E v \in {0, 1} : set = [n |-> v]
  <2>1. PICK v \in {0, 1} : set = [n |-> v]
    BY <1>1
  <2>2. Merge(r, set) = [id |-> r.id, key |-> r.key, a |-> r.a, b |-> r.b, n |-> v]
    BY <2>1 DEF Merge, Record
  <2>3. set = [n |-> 1] => v = 1
    BY <2>1
  <2>4. v = 0 => set = [n |-> 0]
    BY <2>1
  <2> QED
    BY <2>2, <2>3, <2>4 DEF Record
<1>2. CASE \E k \in Keys \cup {Null} : set = [key |-> k]
  <2>1. PICK k \in Keys \cup {Null} : set = [key |-> k]
    BY <1>2
  <2>2. Merge(r, set) = [id |-> r.id, key |-> k, a |-> r.a, b |-> r.b, n |-> r.n]
    BY <2>1 DEF Merge, Record
  <2>3. set # [n |-> 1]
    BY <2>1
  <2> QED
    BY <2>2, <2>3 DEF Record
<1>3. CASE \E v \in {1, Null} : set = [b |-> v]
  <2>1. PICK v \in {1, Null} : set = [b |-> v]
    BY <1>3
  <2>2. Merge(r, set) = [id |-> r.id, key |-> r.key, a |-> r.a, b |-> v, n |-> r.n]
    BY <2>1 DEF Merge, Record
  <2>3. set # [n |-> 1]
    BY <2>1
  <2> QED
    BY <2>2, <2>3 DEF Record
<1> QED
  BY <1>1, <1>2, <1>3 DEF Values

LEMMA UpdatedRows ==
  ASSUME NEW rs \in Seq(Record), NEW S, NEW set \in Values
  PROVE  /\ Updated(rs, S, set) \in Seq(Record)
         /\ DOMAIN Updated(rs, S, set) = DOMAIN rs
         /\ \A i \in DOMAIN rs :
              /\ rs[i] \in Record
              /\ Updated(rs, S, set)[i] = IF i \in S THEN Merge(rs[i], set) ELSE rs[i]
              /\ Updated(rs, S, set)[i].id = rs[i].id
<1>1. PICK n \in Nat : rs \in [1 .. n -> Record]
  <2>1. PICK n : n = Len(rs)
    OBVIOUS
  <2>2. n \in Nat /\ rs \in [1 .. n -> Record]
    BY <2>1
  <2> QED
    BY <2>2
<1>2. \A i \in 1 .. n : rs[i] \in Record /\ Merge(rs[i], set) \in Record
  BY <1>1, Merged
<1>3. Updated(rs, S, set) \in [1 .. n -> Record]
  BY <1>1, <1>2 DEF Updated
<1>4. Updated(rs, S, set) \in Seq(Record)
  BY <1>3, SeqDef
<1>5. ASSUME NEW i \in DOMAIN rs
      PROVE  Updated(rs, S, set)[i] = IF i \in S THEN Merge(rs[i], set) ELSE rs[i]
  BY DEF Updated
<1> QED
  BY <1>1, <1>2, <1>3, <1>4, <1>5, Merged

\* The elements of a finite set of naturals, by how many of them are below.
LEMMA Ranks ==
  ASSUME NEW N \in Nat, NEW kept, kept \subseteq 1 .. N
  PROVE  /\ Cardinality(kept) \in Nat
         /\ \A i \in kept : Cardinality({j \in kept : j < i}) + 1 \in 1 .. Cardinality(kept)
         /\ \A i, j \in kept : Cardinality({l \in kept : l < i}) = Cardinality({l \in kept : l < j})
                                 => i = j
         /\ \A k \in 1 .. Cardinality(kept) :
              \E i \in kept : Cardinality({j \in kept : j < i}) = k - 1
<1> DEFINE below(i) == {j \in kept : j < i}
           card == Cardinality(kept)
<1>1. IsFiniteSet(kept) /\ card \in Nat
  <2>1. IsFiniteSet(1 .. N)
    BY FS_Interval
  <2>2. IsFiniteSet(kept)
    BY <2>1, FS_Subset
  <2> QED
    BY <2>2, FS_CardinalityType
<1>2. ASSUME NEW i \in kept
      PROVE  /\ IsFiniteSet(below(i)) /\ Cardinality(below(i)) \in Nat
             /\ Cardinality(below(i)) + 1 \in 1 .. card
  <2>1. below(i) \in SUBSET kept /\ i \notin below(i) /\ below(i) # kept
    OBVIOUS
  <2> HIDE DEF below
  <2>2. /\ IsFiniteSet(below(i)) /\ Cardinality(below(i)) <= card
        /\ Cardinality(below(i)) # card
    BY <1>1, <2>1, FS_Subset
  <2>3. Cardinality(below(i)) \in Nat
    BY <2>2, FS_CardinalityType
  <2> HIDE DEF card
  <2> QED
    BY <1>1, <2>2, <2>3
<1>3. ASSUME NEW i \in kept, NEW j \in kept, i < j
      PROVE  Cardinality(below(i)) # Cardinality(below(j))
  <2>1. below(i) \in SUBSET below(j) /\ i \in below(j) /\ i \notin below(i)
    <3>1. kept \subseteq Int
      OBVIOUS
    <3>2. \A l \in kept : l < i => l < j
      BY <1>3, <3>1
    <3>3. below(i) \subseteq below(j)
      BY <3>2
    <3>4. i \in below(j) /\ i \notin below(i)
      BY <1>3, <3>1
    <3> QED
      BY <3>3, <3>4
  <2> HIDE DEF below
  <2>2. IsFiniteSet(below(j))
    BY <1>2
  <2> QED
    BY <2>1, <2>2, FS_Subset
<1>4. ASSUME NEW i \in kept, NEW j \in kept, Cardinality(below(i)) = Cardinality(below(j))
      PROVE  i = j
  <2>1. i < j \/ j < i \/ i = j
    OBVIOUS
  <2> HIDE DEF below
  <2> QED
    BY <1>3, <1>4, <2>1
<1> DEFINE rank == [i \in kept |-> Cardinality(below(i)) + 1]
<1> HIDE DEF card, below
<1>5. \A i \in kept : rank[i] = Cardinality(below(i)) + 1
  OBVIOUS
<1>6. rank \in [kept -> 1 .. card]
  BY <1>2
<1> HIDE DEF rank
<1>7. rank \in Injection(kept, 1 .. card)
  <2>1. ASSUME NEW i \in kept, NEW j \in kept, rank[i] = rank[j] PROVE i = j
    <3>1. Cardinality(below(i)) = Cardinality(below(j))
      BY <1>2, <1>5, <2>1
    <3> QED
      BY <1>4, <3>1
  <2> QED
    BY <1>6, <2>1 DEF Injection, IsInjective
<1>8. rank \in Surjection(kept, 1 .. card)
  <2>1. IsFiniteSet(1 .. card) /\ Cardinality(1 .. card) = card
    BY <1>1, FS_Interval
  <2>2. Cardinality(kept) = Cardinality(1 .. card)
    BY <2>1 DEF card
  <2> QED
    BY <1>7, <2>1, <2>2, FS_Injection
<1>9. ASSUME NEW k \in 1 .. card PROVE \E i \in kept : Cardinality(below(i)) = k - 1
  <2>1. PICK i \in kept : rank[i] = k
    BY <1>8 DEF Surjection
  <2>2. Cardinality(below(i)) = k - 1
    BY <1>2, <1>5, <2>1
  <2> QED
    BY <2>2
<1> QED
  BY <1>1, <1>2, <1>4, <1>9 DEF below, card

\* The rows that are left, and where each of them was.
Left(w, rs, S, at) ==
  /\ w \in Seq(Record)
  /\ \A k \in DOMAIN w : at[k] \in DOMAIN rs \ S /\ w[k] = rs[at[k]]
  /\ \A k, l \in DOMAIN w : at[k] = at[l] => k = l
  /\ \A i \in DOMAIN rs \ S : \E k \in DOMAIN w : at[k] = i

LEMMA WithoutRows ==
  ASSUME NEW rs \in Seq(Record), NEW S
  PROVE  \E at : Left(Without(rs, S), rs, S, at)
<1> DEFINE kept == {i \in DOMAIN rs : i \notin S}
           rank(i) == Cardinality({j \in kept : j < i})
           at == [k \in 1 .. Cardinality(kept) |-> CHOOSE i \in kept : rank(i) = k - 1]
           w == Without(rs, S)
<1>1. /\ Cardinality(kept) \in Nat
      /\ \A i \in kept : rank(i) + 1 \in 1 .. Cardinality(kept)
      /\ \A i, j \in kept : rank(i) = rank(j) => i = j
      /\ \A k \in 1 .. Cardinality(kept) : \E i \in kept : rank(i) = k - 1
  <2>1. Len(rs) \in Nat /\ kept \subseteq 1 .. Len(rs)
    OBVIOUS
  <2> HIDE DEF kept
  <2> QED
    BY <2>1, Ranks
<1>2. kept = DOMAIN rs \ S /\ \A i \in kept : rs[i] \in Record
  OBVIOUS
<1>3. w = [k \in 1 .. Cardinality(kept) |-> rs[CHOOSE i \in kept : rank(i) = k - 1]]
  BY DEF Without
<1> HIDE DEF kept, rank, w
<1>4. PICK n \in Nat : n = Cardinality(kept)
  BY <1>1
<1>5. ASSUME NEW k \in 1 .. n PROVE at[k] \in kept /\ rank(at[k]) = k - 1 /\ w[k] = rs[at[k]]
  BY <1>1, <1>3, <1>4
<1>6. DOMAIN w = 1 .. n /\ w \in [1 .. n -> Record]
  <2>1. w = [k \in 1 .. n |-> rs[at[k]]]
    BY <1>3, <1>4
  <2> HIDE DEF at
  <2> QED
    BY <1>2, <1>5, <2>1
<1>7. w \in Seq(Record)
  BY <1>6, SeqDef
<1> HIDE DEF at
<1>8. ASSUME NEW k \in 1 .. n, NEW l \in 1 .. n, at[k] = at[l] PROVE k = l
  <2>1. k - 1 = l - 1
    BY <1>5, <1>8
  <2> QED
    BY <2>1
<1>9. ASSUME NEW i \in kept PROVE \E k \in 1 .. n : at[k] = i
  <2> DEFINE k == rank(i) + 1
  <2>1. k \in 1 .. n /\ k - 1 = rank(i)
    <3>1. rank(i) + 1 \in 1 .. Cardinality(kept)
      BY <1>1
    <3>2. \E j \in kept : rank(j) = k - 1
      BY <1>1, <3>1
    <3>3. rank(i) = k - 1
      <4>1. rank(i) \in Nat
        <5>1. IsFiniteSet({j \in kept : j < i})
          <6>1. kept \subseteq 1 .. Len(rs) /\ Len(rs) \in Nat
            BY <1>2
          <6>2. IsFiniteSet(1 .. Len(rs))
            BY <6>1, FS_Interval
          <6> QED
            BY <6>1, <6>2, FS_Subset
        <5> QED
          BY <5>1, FS_CardinalityType DEF rank
      <4> QED
        BY <4>1
    <3> QED
      BY <1>4, <3>1, <3>3
  <2> HIDE DEF k
  <2>2. at[k] \in kept /\ rank(at[k]) = rank(i)
    BY <1>5, <2>1
  <2> QED
    BY <1>1, <2>1, <2>2
<1>10. Left(w, rs, S, at)
  BY <1>2, <1>5, <1>6, <1>7, <1>8, <1>9 DEF Left
<1> QED
  BY <1>10 DEF w

LEMMA AddedDomain ==
  ASSUME NEW ix, NEW rs, NEW S, NEW f \in UniqueFields
  PROVE  DOMAIN addToIndex(ix, rs, S)[f] = DOMAIN ix[f]
<1> QED
  BY DEF addToIndex

\* The index that addToIndex makes leads to one of the rows that were entered with
\* the value, or to where it led before.
LEMMA Added ==
  ASSUME NEW ix, NEW rs, NEW N \in Nat, NEW S, S \subseteq 1 .. N, NEW f \in UniqueFields
  PROVE  /\ DOMAIN addToIndex(ix, rs, S)[f] = DOMAIN ix[f]
         /\ \A v \in DOMAIN ix[f] :
              \/ /\ \A i \in S : rs[i][f] # v
                 /\ addToIndex(ix, rs, S)[f][v] = ix[f][v]
              \/ \E i \in S : rs[i][f] = v /\ addToIndex(ix, rs, S)[f][v] = rs[i].id
<1> DEFINE at(v) == {i \in S : rs[i][f] = v}
<1>1. addToIndex(ix, rs, S)[f] =
        [v \in DOMAIN ix[f] |-> IF at(v) = {} THEN ix[f][v] ELSE rs[Max(at(v))].id]
  BY DEF addToIndex
<1>2. ASSUME NEW v \in DOMAIN ix[f]
      PROVE  \/ /\ \A i \in S : rs[i][f] # v
                /\ addToIndex(ix, rs, S)[f][v] = ix[f][v]
             \/ \E i \in S : rs[i][f] = v /\ addToIndex(ix, rs, S)[f][v] = rs[i].id
  <2>1. CASE at(v) = {}
    BY <1>1, <2>1
  <2>2. CASE at(v) # {}
    <3>1. at(v) \subseteq 0 .. N
      <4>1. \A i \in at(v) : i \in S
        OBVIOUS
      <4>2. \A i \in S : i \in 0 .. N
        <5>1. \A i \in 1 .. N : i \in 0 .. N
          OBVIOUS
        <5> QED
          BY <5>1
      <4> QED
        BY <4>1, <4>2
    <3>2. \E m \in at(v) : \A i \in at(v) : i <= m
      <4> HIDE DEF at
      <4> QED
        BY <2>2, <3>1, Greatest
    <3>3. \E m \in at(v) : \A i \in at(v) : m >= i
      BY <3>2
    <3>4. Max(at(v)) \in at(v)
      <4> HIDE DEF at
      <4> QED
        BY <3>3 DEF Max
    <3>5. addToIndex(ix, rs, S)[f][v] = rs[Max(at(v))].id
      <4> HIDE DEF at
      <4> QED
        BY <1>1, <2>2
    <3>6. PICK m : m = Max(at(v))
      OBVIOUS
    <3>7. m \in S /\ rs[m][f] = v
      BY <3>4, <3>6
    <3> QED
      BY <3>5, <3>6, <3>7
  <2> QED
    BY <2>1, <2>2
<1> QED
  BY <1>1, <1>2

EntersOne(new, ix, rs, p, f) ==
  \A v \in DOMAIN ix[f] : new[f][v] = IF rs[p][f] = v THEN rs[p].id ELSE ix[f][v]

LEMMA AddedOne ==
  ASSUME NEW ix, NEW rs, NEW p \in Nat \ {0}, NEW f \in UniqueFields
  PROVE  EntersOne(addToIndex(ix, rs, {p}), ix, rs, p, f)
<1> SUFFICES ASSUME NEW v \in DOMAIN ix[f]
             PROVE  addToIndex(ix, rs, {p})[f][v] = IF rs[p][f] = v THEN rs[p].id ELSE ix[f][v]
  BY DEF EntersOne
<1> DEFINE at == {i \in {p} : rs[i][f] = v}
<1>1. addToIndex(ix, rs, {p})[f][v] = IF at = {} THEN ix[f][v] ELSE rs[Max(at)].id
  BY DEF addToIndex
<1>2. CASE rs[p][f] = v
  <2>1. at = {p}
    BY <1>2
  <2>2. Max({p}) = p
    <3>1. \E m \in {p} : \A i \in {p} : m >= i
      OBVIOUS
    <3>2. Max({p}) \in {p}
      BY <3>1 DEF Max
    <3> QED
      BY <3>2
  <2> HIDE DEF at
  <2> QED
    BY <1>1, <1>2, <2>1, <2>2
<1>3. CASE rs[p][f] # v
  BY <1>1, <1>3
<1> QED
  BY <1>2, <1>3

LEMMA Removed ==
  ASSUME NEW ix, NEW rs, NEW S, NEW f \in UniqueFields
  PROVE  /\ DOMAIN removeFromIndex(ix, rs, S)[f] = DOMAIN ix[f]
         /\ \A v \in DOMAIN ix[f] :
              removeFromIndex(ix, rs, S)[f][v] =
                IF \E i \in S : rs[i][f] = v /\ rs[i].id = ix[f][v] THEN 0 ELSE ix[f][v]
<1> QED
  BY DEF removeFromIndex

\* The memory adapter's store before the first row.
LEMMA EmptySound == Sound(Empty.rows, Empty.index)
<1>1. Empty.rows = <<>> /\ Empty.index = NoIndex
  BY DEF Empty
<1>2. \A f \in UniqueFields : /\ DOMAIN NoIndex[f] = Indexable(f)
                              /\ \A v \in Indexable(f) : NoIndex[f][v] = 0
  BY DEF NoIndex
<1> QED
  BY <1>1, <1>2 DEF Sound, DistinctIds, Apart, Entered, Pointing

\* A row that violates no constraint is entered.
LEMMA CreateSound ==
  ASSUME NEW h, Sound(h.rows, h.index), NEW r \in Record
  PROVE  /\ Sound(MemoryCreate(h, r).rows, MemoryCreate(h, r).index)
         /\ MemoryCreate(h, r).rows \in {h.rows, Append(h.rows, r)}
         /\ (\E i \in DOMAIN h.rows : h.rows[i].id = r.id) => MemoryCreate(h, r).rows = h.rows
<1>1. CASE violatesUnique(h, r, 0)
  BY <1>1 DEF MemoryCreate
<1>2. CASE ~ violatesUnique(h, r, 0)
  <2> DEFINE rs == h.rows
             ix == h.index
             after == Append(rs, r)
             new == addToIndex(ix, after, {Len(after)})
  <2>1. MemoryCreate(h, r) = [rows |-> after, index |-> new]
    BY <1>2 DEF MemoryCreate
  <2>2. /\ rs \in Seq(Record)
        /\ \A f \in UniqueFields : DOMAIN ix[f] = Indexable(f)
        /\ DistinctIds(rs) /\ Apart(rs) /\ Entered(rs, ix) /\ Pointing(rs, ix)
    BY DEF Sound
  <2>3. PICK n \in Nat : n = Len(rs) /\ DOMAIN rs = 1 .. n
    BY <2>2
  <2>4. /\ after \in Seq(Record) /\ Len(after) = n + 1 /\ DOMAIN after = 1 .. n + 1
        /\ after[n + 1] = r
        /\ \A i \in 1 .. n : after[i] = rs[i] /\ rs[i] \in Record
    BY <2>2, <2>3
  <2>5. /\ \A f \in UniqueFields : r[f] # Null => ix[f][r[f]] = 0
        /\ (\A i \in DOMAIN Constraint : r[Constraint[i]] # Null) =>
             \A s \in Range(rs) : s.id # 0 =>
               \E i \in DOMAIN Constraint : s[Constraint[i]] # r[Constraint[i]]
    BY <1>2 DEF violatesUnique, Rows
  <2>6. ASSUME NEW i \in 1 .. n
        PROVE  /\ rs[i].id # r.id
               /\ \/ r.a = Null \/ r.b = Null
                  \/ rs[i].a # r.a \/ rs[i].b # r.b
    <3>1. rs[i] \in Record /\ rs[i].id # 0 /\ rs[i].id # Null
      BY <2>4, RecordFields
    <3>2. rs[i].id # r.id
      <4>1. ix["id"][rs[i].id] = rs[i].id
        <5>1. "id" \in UniqueFields /\ rs[i]["id"] = rs[i].id
          BY DEF UniqueFields
        <5> QED
          BY <2>2, <2>3, <3>1, <5>1 DEF Entered
      <4>2. r.id # Null => ix["id"][r.id] = 0
        <5>1. "id" \in UniqueFields /\ r["id"] = r.id
          BY DEF UniqueFields
        <5> QED
          BY <2>5, <5>1
      <4>3. r.id # Null
        BY RecordFields
      <4> QED
        BY <3>1, <4>1, <4>2, <4>3
    <3>3. rs[i] \in Range(rs)
      BY <2>3 DEF Range
    <3>4. DOMAIN Constraint = {1, 2} /\ Constraint[1] = "a" /\ Constraint[2] = "b"
      BY DEF Constraint
    <3> HIDE DEF rs
    <3> QED
      BY <2>5, <3>1, <3>2, <3>3, <3>4
  <2>7. ASSUME NEW f \in UniqueFields
        PROVE  /\ DOMAIN new[f] = Indexable(f)
               /\ \A v \in Indexable(f) : new[f][v] = IF r[f] = v THEN r.id ELSE ix[f][v]
    <3>1. n + 1 \in Nat /\ {Len(after)} = {n + 1} /\ {n + 1} \subseteq 1 .. n + 1
      BY <2>4
    <3> HIDE DEF after, ix
    <3>2. DOMAIN new[f] = DOMAIN ix[f]
      BY <3>1, Added
    <3>3. ASSUME NEW v \in Indexable(f) PROVE new[f][v] = IF r[f] = v THEN r.id ELSE ix[f][v]
      <4>1. v \in DOMAIN ix[f]
        BY <2>2
      <4>2. \/ /\ \A i \in {n + 1} : after[i][f] # v
               /\ new[f][v] = ix[f][v]
            \/ \E i \in {n + 1} : after[i][f] = v /\ new[f][v] = after[i].id
        BY <3>1, <4>1, Added
      <4> HIDE DEF new
      <4> QED
        BY <2>4, <4>2
    <3> QED
      BY <2>2, <3>2, <3>3
  <2> HIDE DEF after, new, rs, ix
  <2>8. DistinctIds(after)
    BY <2>2, <2>3, <2>4, <2>6 DEF DistinctIds
  <2>9. Apart(after)
    <3>1. ASSUME NEW i \in 1 .. n + 1, NEW j \in 1 .. n + 1, i # j
          PROVE  \/ after[i].a = Null \/ after[i].b = Null
                 \/ after[i].a # after[j].a \/ after[i].b # after[j].b
      <4>1. CASE i = n + 1
        <5>1. j \in 1 .. n
          BY <3>1, <4>1
        <5> QED
          BY <2>4, <2>6, <4>1, <5>1
      <4>2. CASE j = n + 1
        <5>1. i \in 1 .. n
          BY <3>1, <4>2
        <5> QED
          BY <2>4, <2>6, <4>2, <5>1
      <4>3. CASE i # n + 1 /\ j # n + 1
        <5>1. i \in 1 .. n /\ j \in 1 .. n
          BY <4>3
        <5> QED
          BY <2>2, <2>3, <2>4, <3>1, <5>1 DEF Apart
      <4> QED
        BY <4>1, <4>2, <4>3
    <3> QED
      BY <2>4, <3>1 DEF Apart
  <2>10. Entered(after, new)
    <3>1. ASSUME NEW f \in UniqueFields, NEW i \in 1 .. n + 1, after[i][f] # Null
          PROVE  new[f][after[i][f]] = after[i].id
      <4>1. after[i] \in Record
        BY <2>4
      <4>2. after[i][f] \in Indexable(f)
        BY <3>1, <4>1, RecordFields
      <4>3. CASE i = n + 1
        BY <2>4, <2>7, <4>2, <4>3
      <4>4. CASE i # n + 1
        <5>1. i \in 1 .. n /\ after[i] = rs[i]
          BY <2>4, <4>4
        <5>2. ix[f][rs[i][f]] = rs[i].id /\ rs[i].id # 0
          BY <2>2, <2>3, <2>4, <3>1, <5>1, RecordFields DEF Entered
        <5>3. r[f] # rs[i][f]
          BY <2>5, <3>1, <5>1, <5>2
        <5> QED
          BY <2>7, <4>2, <5>1, <5>2, <5>3
      <4> QED
        BY <4>3, <4>4
    <3> QED
      BY <2>4, <3>1 DEF Entered
  <2>11. Pointing(after, new)
    <3>1. ASSUME NEW f \in UniqueFields, NEW v \in Indexable(f), new[f][v] # 0
          PROVE  \E i \in 1 .. n + 1 : after[i][f] = v
      <4>1. CASE r[f] = v
        BY <2>4, <4>1
      <4>2. CASE r[f] # v
        <5>1. ix[f][v] # 0
          BY <2>7, <3>1, <4>2
        <5>2. PICK i \in 1 .. n : rs[i][f] = v
          BY <2>2, <2>3, <5>1 DEF Pointing
        <5>3. i \in 1 .. n + 1 /\ after[i][f] = v
          BY <2>4, <5>2
        <5> QED
          BY <5>3
      <4> QED
        BY <4>1, <4>2
    <3> QED
      BY <2>4, <3>1 DEF Pointing
  <2>12. Sound(after, new)
    BY <2>4, <2>7, <2>8, <2>9, <2>10, <2>11 DEF Sound
  <2> QED
    BY <2>1, <2>3, <2>6, <2>12 DEF after, rs
<1> QED
  BY <1>1, <1>2

\* A change of n alone leaves the index as it was: every entry that is taken away
\* is made again, by a row with the same value.
LEMMA WriteCountSound ==
  ASSUME NEW h, Sound(h.rows, h.index), NEW S, S \subseteq DOMAIN h.rows
  PROVE  Sound(Write(h, S, [n |-> 1]).rows, Write(h, S, [n |-> 1]).index)
<1> DEFINE set == [n |-> 1]
           rs == h.rows
           ix == h.index
           after == Updated(rs, S, set)
           bare == removeFromIndex(ix, rs, S)
           new == addToIndex(bare, after, S)
<1>1. Write(h, S, set) = [rows |-> after, index |-> new]
  BY DEF Write
<1>2. set \in Values
  BY DEF Values
<1>3. PICK n \in Nat : rs \in Seq(Record) /\ DOMAIN rs = 1 .. n /\ S \subseteq 1 .. n
  <2>1. rs \in Seq(Record)
    BY DEF Sound
  <2> QED
    BY <2>1
<1>4. /\ \A f \in UniqueFields : DOMAIN ix[f] = Indexable(f)
      /\ DistinctIds(rs) /\ Apart(rs) /\ Entered(rs, ix) /\ Pointing(rs, ix)
  BY DEF Sound
<1> HIDE DEF rs, ix
<1>5. /\ after \in Seq(Record) /\ DOMAIN after = 1 .. n
      /\ \A i \in 1 .. n : rs[i] \in Record /\ after[i] = IF i \in S THEN Merge(rs[i], set) ELSE rs[i]
  BY <1>2, <1>3, UpdatedRows
<1>6. ASSUME NEW i \in 1 .. n
      PROVE  /\ after[i].id = rs[i].id /\ after[i].key = rs[i].key
             /\ after[i].a = rs[i].a /\ after[i].b = rs[i].b
             /\ \A f \in UniqueFields : after[i][f] = rs[i][f]
  <2> HIDE DEF after
  <2>1. /\ after[i].id = rs[i].id /\ after[i].key = rs[i].key
        /\ after[i].a = rs[i].a /\ after[i].b = rs[i].b
    <3>1. rs[i] \in Record
      BY <1>5
    <3>2. /\ Merge(rs[i], set).id = rs[i].id /\ Merge(rs[i], set).key = rs[i].key
          /\ Merge(rs[i], set).a = rs[i].a /\ Merge(rs[i], set).b = rs[i].b
      BY <1>2, <3>1, Merged
    <3> HIDE DEF set
    <3> QED
      BY <1>5, <3>2
  <2> QED
    BY <2>1 DEF UniqueFields
<1> HIDE DEF after, set
<1>7. ASSUME NEW f \in UniqueFields
      PROVE  /\ DOMAIN bare[f] = Indexable(f)
             /\ \A v \in Indexable(f) :
                  bare[f][v] = IF \E i \in S : rs[i][f] = v /\ rs[i].id = ix[f][v]
                               THEN 0 ELSE ix[f][v]
  BY <1>4, Removed
<1> HIDE DEF bare
<1>8. ASSUME NEW f \in UniqueFields
      PROVE  /\ DOMAIN new[f] = Indexable(f)
             /\ \A v \in Indexable(f) :
                  \/ /\ \A i \in S : after[i][f] # v
                     /\ new[f][v] = bare[f][v]
                  \/ \E i \in S : after[i][f] = v /\ new[f][v] = after[i].id
  <2>1. DOMAIN new[f] = DOMAIN bare[f]
    BY AddedDomain
  <2>2. ASSUME NEW v \in Indexable(f)
        PROVE  \/ /\ \A i \in S : after[i][f] # v
                  /\ new[f][v] = bare[f][v]
               \/ \E i \in S : after[i][f] = v /\ new[f][v] = after[i].id
    <3>1. v \in DOMAIN bare[f]
      BY <1>7
    <3> QED
      BY <1>3, <3>1, Added
  <2> QED
    BY <1>7, <2>1, <2>2
<1> HIDE DEF new
<1>9. ASSUME NEW f \in UniqueFields, NEW v \in Indexable(f)
      PROVE  new[f][v] = ix[f][v]
  <2>1. v # Null
    BY StorageAssumption DEF UniqueFields, Indexable
  <2>2. CASE \E i \in S : rs[i][f] = v
    <3>1. ~ \A i \in S : after[i][f] # v
      BY <1>3, <1>6, <2>2
    <3>2. PICK i \in S : after[i][f] = v /\ new[f][v] = after[i].id
      BY <1>8, <3>1
    <3>3. i \in 1 .. n /\ rs[i][f] = v /\ rs[i].id = after[i].id
      BY <1>3, <1>6, <3>2
    <3>4. ix[f][rs[i][f]] = rs[i].id
      BY <1>3, <1>4, <2>1, <3>3 DEF Entered
    <3> QED
      BY <3>2, <3>3, <3>4
  <2>3. CASE ~ \E i \in S : rs[i][f] = v
    <3>1. bare[f][v] = ix[f][v]
      BY <1>7, <2>3
    <3>2. ~ \E i \in S : after[i][f] = v
      BY <1>3, <1>6, <2>3
    <3> QED
      BY <1>8, <3>1, <3>2
  <2> QED
    BY <2>2, <2>3
<1>10. DistinctIds(after) /\ Apart(after)
  BY <1>3, <1>4, <1>5, <1>6 DEF DistinctIds, Apart
<1>11. Entered(after, new)
  <2>1. ASSUME NEW f \in UniqueFields, NEW i \in 1 .. n, after[i][f] # Null
        PROVE  new[f][after[i][f]] = after[i].id
    <3>1. after[i][f] = rs[i][f] /\ after[i].id = rs[i].id /\ rs[i] \in Record
      BY <1>5, <1>6
    <3>2. rs[i][f] \in Indexable(f)
      BY <2>1, <3>1, RecordFields
    <3>3. ix[f][rs[i][f]] = rs[i].id
      BY <1>3, <1>4, <2>1, <3>1 DEF Entered
    <3> QED
      BY <1>9, <3>1, <3>2, <3>3
  <2> QED
    BY <1>5, <2>1 DEF Entered
<1>12. Pointing(after, new)
  <2>1. ASSUME NEW f \in UniqueFields, NEW v \in Indexable(f), new[f][v] # 0
        PROVE  \E i \in 1 .. n : after[i][f] = v
    <3>1. ix[f][v] # 0
      BY <1>9, <2>1
    <3>2. PICK i \in 1 .. n : rs[i][f] = v
      BY <1>3, <1>4, <3>1 DEF Pointing
    <3> QED
      BY <1>6, <3>2
  <2> QED
    BY <1>5, <2>1 DEF Pointing
<1>13. Sound(after, new)
  BY <1>5, <1>8, <1>10, <1>11, <1>12 DEF Sound
<1> QED
  BY <1>1, <1>13 DEF set

\* One row takes values that violate no constraint.
LEMMA WriteOneSound ==
  ASSUME NEW h, Sound(h.rows, h.index), NEW p \in DOMAIN h.rows, NEW set \in Values,
         ~ violatesUnique(h, Merge(h.rows[p], set), h.rows[p].id)
  PROVE  Sound(Write(h, {p}, set).rows, Write(h, {p}, set).index)
<1> DEFINE rs == h.rows
           ix == h.index
           r == Merge(rs[p], set)
           after == Updated(rs, {p}, set)
           bare == removeFromIndex(ix, rs, {p})
           new == addToIndex(bare, after, {p})
<1>1. Write(h, {p}, set) = [rows |-> after, index |-> new]
  BY DEF Write
<1>2. set \in Values
  OBVIOUS
<1>3. PICK n \in Nat : rs \in Seq(Record) /\ DOMAIN rs = 1 .. n /\ p \in 1 .. n
  <2>1. rs \in Seq(Record)
    BY DEF Sound
  <2> QED
    BY <2>1
<1>4. /\ \A f \in UniqueFields : DOMAIN ix[f] = Indexable(f)
      /\ DistinctIds(rs) /\ Apart(rs) /\ Entered(rs, ix) /\ Pointing(rs, ix)
  BY DEF Sound
<1>5. /\ \A f \in UniqueFields : r[f] # Null => ix[f][r[f]] \in {0, rs[p].id}
      /\ (\A i \in DOMAIN Constraint : r[Constraint[i]] # Null) =>
           \A s \in Range(rs) : s.id # rs[p].id =>
             \E i \in DOMAIN Constraint : s[Constraint[i]] # r[Constraint[i]]
  BY DEF violatesUnique, Rows
<1> HIDE DEF rs, ix
<1>6. /\ after \in Seq(Record) /\ DOMAIN after = 1 .. n
      /\ \A i \in 1 .. n : rs[i] \in Record /\ after[i] = IF i = p THEN r ELSE rs[i]
  BY <1>2, <1>3, UpdatedRows
<1>7. r \in Record /\ r.id = rs[p].id
  BY <1>2, <1>3, <1>6, Merged
<1> HIDE DEF after, r
<1>8. ASSUME NEW f \in UniqueFields
      PROVE  /\ DOMAIN bare[f] = Indexable(f)
             /\ \A v \in Indexable(f) :
                  bare[f][v] = IF \E i \in {p} : rs[i][f] = v /\ rs[i].id = ix[f][v]
                               THEN 0 ELSE ix[f][v]
  BY <1>4, Removed
<1> HIDE DEF bare
<1>9. ASSUME NEW f \in UniqueFields
      PROVE  /\ DOMAIN new[f] = Indexable(f)
             /\ \A v \in Indexable(f) :
                  new[f][v] = IF after[p][f] = v THEN after[p].id ELSE bare[f][v]
  <2>1. DOMAIN new[f] = DOMAIN bare[f]
    BY AddedDomain
  <2>2. ASSUME NEW v \in Indexable(f)
        PROVE  new[f][v] = IF after[p][f] = v THEN after[p].id ELSE bare[f][v]
    <3>1. v \in DOMAIN bare[f] /\ p \in Nat \ {0} /\ f \in UniqueFields
      BY <1>3, <1>8
    <3>2. EntersOne(new, bare, after, p, f)
      BY <3>1, AddedOne
    <3> HIDE DEF new
    <3> QED
      BY <3>1, <3>2 DEF EntersOne
  <2> QED
    BY <1>8, <2>1, <2>2
<1> HIDE DEF new
<1>10. ASSUME NEW f \in UniqueFields, NEW v \in Indexable(f)
       PROVE  new[f][v] = IF r[f] = v THEN r.id ELSE IF rs[p][f] = v THEN 0 ELSE ix[f][v]
  <2>1. v # Null
    BY StorageAssumption DEF UniqueFields, Indexable
  <2>2. rs[p][f] = v => ix[f][v] = rs[p].id
    BY <1>3, <1>4, <2>1 DEF Entered
  <2>3. bare[f][v] = IF rs[p][f] = v THEN 0 ELSE ix[f][v]
    BY <1>8, <2>2
  <2>4. after[p] = r
    BY <1>3, <1>6
  <2> QED
    BY <1>9, <2>3, <2>4
<1>11. ASSUME NEW i \in 1 .. n, i # p
       PROVE  /\ after[i] = rs[i] /\ rs[i] \in Record /\ rs[i].id # rs[p].id /\ rs[i].id # 0
              /\ \A f \in UniqueFields : rs[i][f] # Null => rs[i][f] # r[f] /\ rs[i][f] # rs[p][f]
              /\ \/ r.a = Null \/ r.b = Null
                 \/ rs[i].a # r.a \/ rs[i].b # r.b
  <2>1. after[i] = rs[i] /\ rs[i] \in Record /\ rs[i].id # rs[p].id /\ rs[i].id # 0
    <3>1. after[i] = rs[i] /\ rs[i] \in Record
      BY <1>6, <1>11
    <3> QED
      BY <1>3, <1>4, <1>11, <3>1, RecordFields DEF DistinctIds
  <2>2. ASSUME NEW f \in UniqueFields, rs[i][f] # Null
        PROVE  rs[i][f] # r[f] /\ rs[i][f] # rs[p][f]
    <3>1. ix[f][rs[i][f]] = rs[i].id
      BY <1>3, <1>4, <2>2 DEF Entered
    <3>2. rs[p][f] # Null => ix[f][rs[p][f]] = rs[p].id
      BY <1>3, <1>4 DEF Entered
    <3> QED
      BY <1>5, <2>1, <2>2, <3>1, <3>2
  <2>3. rs[i] \in Range(rs)
    BY <1>3 DEF Range
  <2>4. DOMAIN Constraint = {1, 2} /\ Constraint[1] = "a" /\ Constraint[2] = "b"
    BY DEF Constraint
  <2>5. \/ r.a = Null \/ r.b = Null
        \/ rs[i].a # r.a \/ rs[i].b # r.b
    BY <1>5, <2>1, <2>3, <2>4
  <2> QED
    BY <2>1, <2>2, <2>5
<1>12. DistinctIds(after)
  <2>1. \A i \in 1 .. n : after[i].id = rs[i].id
    BY <1>6, <1>7
  <2> QED
    BY <1>3, <1>4, <1>6, <2>1 DEF DistinctIds
<1>13. Apart(after)
  <2>1. ASSUME NEW i \in 1 .. n, NEW j \in 1 .. n, i # j
        PROVE  \/ after[i].a = Null \/ after[i].b = Null
               \/ after[i].a # after[j].a \/ after[i].b # after[j].b
    <3>1. CASE i = p
      BY <1>6, <1>11, <2>1, <3>1
    <3>2. CASE j = p
      BY <1>6, <1>11, <2>1, <3>2
    <3>3. CASE i # p /\ j # p
      BY <1>3, <1>4, <1>11, <2>1, <3>3 DEF Apart
    <3> QED
      BY <3>1, <3>2, <3>3
  <2> QED
    BY <1>6, <2>1 DEF Apart
<1>14. Entered(after, new)
  <2>1. ASSUME NEW f \in UniqueFields, NEW i \in 1 .. n, after[i][f] # Null
        PROVE  new[f][after[i][f]] = after[i].id
    <3>1. CASE i = p
      <4>1. after[i] = r /\ r[f] \in Indexable(f)
        BY <1>6, <1>7, <2>1, <3>1, RecordFields
      <4> QED
        BY <1>10, <4>1
    <3>2. CASE i # p
      <4>1. after[i] = rs[i] /\ rs[i] \in Record /\ rs[i][f] # r[f] /\ rs[i][f] # rs[p][f]
        BY <1>11, <2>1, <3>2
      <4>2. rs[i][f] \in Indexable(f) /\ ix[f][rs[i][f]] = rs[i].id
        BY <1>3, <1>4, <2>1, <4>1, RecordFields DEF Entered
      <4> QED
        BY <1>10, <4>1, <4>2
    <3> QED
      BY <3>1, <3>2
  <2> QED
    BY <1>6, <2>1 DEF Entered
<1>15. Pointing(after, new)
  <2>1. ASSUME NEW f \in UniqueFields, NEW v \in Indexable(f), new[f][v] # 0
        PROVE  \E i \in 1 .. n : after[i][f] = v
    <3>1. CASE r[f] = v
      BY <1>3, <1>6, <3>1
    <3>2. CASE r[f] # v
      <4>1. rs[p][f] # v /\ ix[f][v] # 0
        BY <1>10, <2>1, <3>2
      <4>2. PICK i \in 1 .. n : rs[i][f] = v
        BY <1>3, <1>4, <4>1 DEF Pointing
      <4>3. after[i] = rs[i]
        BY <1>6, <4>1, <4>2
      <4> QED
        BY <4>2, <4>3
    <3> QED
      BY <3>1, <3>2
  <2> QED
    BY <1>6, <2>1 DEF Pointing
<1>16. Sound(after, new)
  BY <1>6, <1>9, <1>12, <1>13, <1>14, <1>15 DEF Sound
<1> QED
  BY <1>1, <1>16

\* Rows that leave take their entries with them.
LEMMA RemoveSound ==
  ASSUME NEW h, Sound(h.rows, h.index), NEW S, S \subseteq DOMAIN h.rows
  PROVE  Sound(RemoveRows(h, S).rows, RemoveRows(h, S).index)
<1> DEFINE rs == h.rows
           ix == h.index
           after == Without(rs, S)
           new == removeFromIndex(ix, rs, S)
<1>1. RemoveRows(h, S) = [rows |-> after, index |-> new]
  BY DEF RemoveRows
<1>2. /\ rs \in Seq(Record)
      /\ \A f \in UniqueFields : DOMAIN ix[f] = Indexable(f)
      /\ DistinctIds(rs) /\ Apart(rs) /\ Entered(rs, ix) /\ Pointing(rs, ix)
  BY DEF Sound
<1>3. S \subseteq DOMAIN rs
  OBVIOUS
<1> HIDE DEF rs, ix
<1>4. PICK at : Left(after, rs, S, at)
  BY <1>2, WithoutRows
<1>5. /\ after \in Seq(Record)
      /\ \A k \in DOMAIN after : at[k] \in DOMAIN rs \ S /\ after[k] = rs[at[k]]
      /\ \A k, l \in DOMAIN after : at[k] = at[l] => k = l
      /\ \A i \in DOMAIN rs \ S : \E k \in DOMAIN after : at[k] = i
  BY <1>4 DEF Left
<1> HIDE DEF after
<1>6. ASSUME NEW f \in UniqueFields
      PROVE  /\ DOMAIN new[f] = Indexable(f)
             /\ \A v \in Indexable(f) :
                  new[f][v] = IF \E i \in S : rs[i][f] = v /\ rs[i].id = ix[f][v]
                              THEN 0 ELSE ix[f][v]
  BY <1>2, Removed
<1> HIDE DEF new
<1>7. DistinctIds(after)
  BY <1>2, <1>5 DEF DistinctIds
<1>8. Apart(after)
  <2>1. ASSUME NEW k \in DOMAIN after, NEW l \in DOMAIN after, k # l
        PROVE  \/ after[k].a = Null \/ after[k].b = Null
               \/ after[k].a # after[l].a \/ after[k].b # after[l].b
    <3>1. /\ at[k] \in DOMAIN rs /\ at[l] \in DOMAIN rs /\ at[k] # at[l]
          /\ after[k] = rs[at[k]] /\ after[l] = rs[at[l]]
      BY <1>5, <2>1
    <3> QED
      BY <1>2, <3>1 DEF Apart
  <2> QED
    BY <2>1 DEF Apart
<1>9. Entered(after, new)
  <2>1. ASSUME NEW f \in UniqueFields, NEW k \in DOMAIN after, after[k][f] # Null
        PROVE  new[f][after[k][f]] = after[k].id
    <3>1. at[k] \in DOMAIN rs \ S /\ after[k] = rs[at[k]]
      BY <1>5
    <3>2. after[k] \in Record
      BY <1>2, <3>1
    <3>3. after[k][f] \in Indexable(f) /\ ix[f][after[k][f]] = after[k].id
      BY <1>2, <2>1, <3>1, <3>2, RecordFields DEF Entered
    <3>4. ASSUME NEW i \in S, rs[i].id = after[k].id PROVE FALSE
      BY <1>2, <1>3, <3>1, <3>4 DEF DistinctIds
    <3> QED
      BY <1>6, <3>3, <3>4
  <2> QED
    BY <2>1 DEF Entered
<1>10. Pointing(after, new)
  <2>1. ASSUME NEW f \in UniqueFields, NEW v \in Indexable(f), new[f][v] # 0
        PROVE  \E k \in DOMAIN after : after[k][f] = v
    <3>1. ix[f][v] # 0 /\ ~ \E i \in S : rs[i][f] = v /\ rs[i].id = ix[f][v]
      BY <1>6, <2>1
    <3>2. PICK i \in DOMAIN rs : rs[i][f] = v
      BY <1>2, <3>1 DEF Pointing
    <3>3. v # Null
      BY StorageAssumption DEF UniqueFields, Indexable
    <3>4. ix[f][v] = rs[i].id
      BY <1>2, <3>2, <3>3 DEF Entered
    <3>5. i \in DOMAIN rs \ S
      BY <3>1, <3>2, <3>4
    <3> QED
      BY <1>5, <3>2, <3>5
  <2> QED
    BY <2>1 DEF Pointing
<1>11. Sound(after, new)
  BY <1>5, <1>6, <1>7, <1>8, <1>9, <1>10 DEF Sound
<1> QED
  BY <1>1, <1>11

\* The copy that a transaction works on: the index is made anew.
LEMMA CopySound ==
  ASSUME NEW h, Sound(h.rows, h.index)
  PROVE  Sound(h.rows, addToIndex(NoIndex, h.rows, DOMAIN h.rows))
<1> DEFINE rs == h.rows
           ix == h.index
           new == addToIndex(NoIndex, rs, DOMAIN rs)
<1>1. /\ rs \in Seq(Record)
      /\ \A f \in UniqueFields : DOMAIN ix[f] = Indexable(f)
      /\ DistinctIds(rs) /\ Apart(rs) /\ Entered(rs, ix) /\ Pointing(rs, ix)
  BY DEF Sound
<1> HIDE DEF rs, ix
<1>2. \A f \in UniqueFields : /\ DOMAIN NoIndex[f] = Indexable(f)
                              /\ \A v \in Indexable(f) : NoIndex[f][v] = 0
  BY DEF NoIndex
<1>3. ASSUME NEW f \in UniqueFields
      PROVE  /\ DOMAIN new[f] = Indexable(f)
             /\ \A v \in Indexable(f) :
                  \/ /\ \A i \in DOMAIN rs : rs[i][f] # v
                     /\ new[f][v] = 0
                  \/ \E i \in DOMAIN rs : rs[i][f] = v /\ new[f][v] = rs[i].id
  <2>1. Len(rs) \in Nat /\ DOMAIN rs \subseteq 1 .. Len(rs)
    BY <1>1
  <2>2. DOMAIN new[f] = DOMAIN NoIndex[f]
    BY <2>1, Added
  <2>3. ASSUME NEW v \in Indexable(f)
        PROVE  \/ /\ \A i \in DOMAIN rs : rs[i][f] # v
                  /\ new[f][v] = 0
               \/ \E i \in DOMAIN rs : rs[i][f] = v /\ new[f][v] = rs[i].id
    <3>1. v \in DOMAIN NoIndex[f] /\ NoIndex[f][v] = 0
      BY <1>2
    <3>2. \/ /\ \A i \in DOMAIN rs : rs[i][f] # v
             /\ new[f][v] = NoIndex[f][v]
          \/ \E i \in DOMAIN rs : rs[i][f] = v /\ new[f][v] = rs[i].id
      BY <2>1, <3>1, Added
    <3> HIDE DEF new
    <3> QED
      BY <3>1, <3>2
  <2> QED
    BY <1>2, <2>2, <2>3
<1> HIDE DEF new
<1>4. Entered(rs, new)
  <2>1. ASSUME NEW f \in UniqueFields, NEW i \in DOMAIN rs, rs[i][f] # Null
        PROVE  new[f][rs[i][f]] = rs[i].id
    <3>1. rs[i] \in Record
      BY <1>1
    <3>2. rs[i][f] \in Indexable(f)
      BY <2>1, <3>1, RecordFields
    <3>3. PICK j \in DOMAIN rs : rs[j][f] = rs[i][f] /\ new[f][rs[i][f]] = rs[j].id
      BY <1>3, <3>2
    <3>4. ix[f][rs[i][f]] = rs[i].id /\ ix[f][rs[j][f]] = rs[j].id
      BY <1>1, <2>1, <3>3 DEF Entered
    <3> QED
      BY <3>3, <3>4
  <2> QED
    BY <2>1 DEF Entered
<1>5. Pointing(rs, new)
  BY <1>3 DEF Pointing
<1> QED
  BY <1>1, <1>3, <1>4, <1>5 DEF Sound, rs, new

-----------------------------------------------------------------------------
(* Storage: the operations *)

\* The rows that a compare-and-set of the id's n selects.
Unclaimed(rs, id) == {i \in DOMAIN rs : rs[i].id = id /\ rs[i].n = 0}

\* A compare-and-set selects the row that has the id, while its n is 0.
LEMMA SetSelects ==
  ASSUME NEW r \in Record, NEW id \in Ids
  PROVE  LET where == <<Is("id", id), Is("n", 0)>>
         IN  /\ Matches(r, where) <=> r.id = id /\ r.n = 0
             /\ SqlMatches(r, where) <=> r.id = id /\ r.n = 0
             /\ MongoMatches(r, where) <=> r.id = id /\ r.n = 0
<1> DEFINE where == <<Is("id", id), Is("n", 0)>>
<1>1. /\ where \in Seq(Range(where)) /\ DOMAIN where = 1 .. 2 /\ Len(where) = 2
      /\ where[1] = Is("id", id) /\ where[2] = Is("n", 0)
  BY DEF Range
<1>2. /\ Is("id", id).field = "id" /\ Is("id", id).op = "eq"
      /\ Is("id", id).value = id /\ Is("id", id).connector = "AND"
      /\ Is("n", 0).field = "n" /\ Is("n", 0).op = "eq"
      /\ Is("n", 0).value = 0 /\ Is("n", 0).connector = "AND"
  BY DEF Is, Clause
<1> HIDE DEF where
<1>3. /\ Askable(where[1]) /\ Askable(where[2])
      /\ ~ Ambiguous(r, where[1]) /\ ~ Ambiguous(r, where[2])
  <2>1. id # NonScalar /\ 0 # NonScalar
    BY StorageAssumption
  <2> QED
    BY <1>1, <1>2, <2>1 DEF Askable, Ambiguous, TextOps, buildClauseFails
<1>4. \A k \in DOMAIN where : Askable(where[k]) /\ ~ Ambiguous(r, where[k])
  BY <1>1, <1>3
<1>5. /\ Matches(r, where) = Meaning(r, where)
      /\ SqlMatches(r, where) = Meaning(r, where)
      /\ MongoMatches(r, where) = Meaning(r, where)
  BY <1>1, <1>4, AdaptersAgree
<1>6. /\ matchOne(r, where[1]) <=> r["id"] = id
      /\ matchOne(r, where[2]) <=> r["n"] = 0
  BY <1>1, <1>2 DEF matchOne, OrderOps, TextOps
<1>7. Meaning(r, where) <=> matchOne(r, where[1]) /\ matchOne(r, where[2])
  <2>1. where # <<>>
    BY <1>1
  <2>2. \A k \in DOMAIN where : where[k].connector = "AND"
    BY <1>1, <1>2
  <2> QED
    BY <1>1, <2>1, <2>2 DEF Meaning
<1>8. Meaning(r, where) <=> r.id = id /\ r.n = 0
  BY <1>6, <1>7, RecordFields
<1> QED
  BY <1>5, <1>8 DEF where

\* Of the rows of a store that one is at most one.
LEMMA UnclaimedCount ==
  ASSUME NEW rs \in Seq(Record), DistinctIds(rs), NEW id
  PROVE  /\ Cardinality(Unclaimed(rs, id)) \in {0, 1}
         /\ Cardinality(Unclaimed(rs, id)) = 0 <=> Unclaimed(rs, id) = {}
<1>1. CASE Unclaimed(rs, id) = {}
  <2>1. Cardinality({}) = 0
    BY FS_EmptySet
  <2> QED
    BY <1>1, <2>1
<1>2. CASE Unclaimed(rs, id) # {}
  <2>1. PICK i \in Unclaimed(rs, id) : TRUE
    BY <1>2
  <2>2. Unclaimed(rs, id) = {i}
    BY <2>1 DEF Unclaimed, DistinctIds
  <2>3. Cardinality({i}) = 1
    BY FS_Singleton
  <2> QED
    BY <1>2, <2>2, <2>3
<1> QED
  BY <1>1, <1>2

\* What a write gives is counted, and nothing else puts a row back to 0.
GivesOnly(rs, after, set) ==
  \A k \in DOMAIN after \cap DOMAIN rs :
    after[k].id = rs[k].id /\ (after[k].n = 0 => rs[k].n = 0 \/ set = [n |-> 0])

LEMMA GivenClaimed ==
  ASSUME NEW rs \in Seq(Record), NEW after \in Seq(Record), NEW set,
         NEW t \in Tallies, Claimed(rs, t), GivesOnly(rs, after, set)
  PROVE  LET t2 == Gives(t, GivenIds(rs, after, set))
         IN  t2 \in Tallies /\ Claimed(after, t2)
<1> DEFINE ids == GivenIds(rs, after, set)
           t2 == Gives(t, ids)
<1>1. t.given \in [Ids -> Nat] /\ t.won \in [Ids -> Nat]
  BY DEF Tallies
<1>2. /\ t2.won = t.won
      /\ t2.given = [i \in Ids |-> IF i \in ids THEN t.given[i] + 1 ELSE t.given[i]]
      /\ t2 = [given |-> t2.given, won |-> t2.won]
  <2> HIDE DEF ids
  <2>1. PICK g, w : t = [given |-> g, won |-> w]
    BY DEF Tallies
  <2>2. PICK more : more = [i \in Ids |-> IF i \in ids THEN t.given[i] + 1 ELSE t.given[i]]
    OBVIOUS
  <2>3. t2 = [t EXCEPT !.given = more]
    BY <2>2 DEF Gives
  <2>4. [t EXCEPT !.given = more] = [given |-> more, won |-> w]
    BY <2>1
  <2> HIDE DEF t2
  <2> QED
    BY <2>1, <2>2, <2>3, <2>4
<1>3. \A k \in DOMAIN after : after[k] \in Record /\ after[k].id \in Ids /\ after[k].n \in {0, 1}
  BY RecordFields
<1>4. \A k \in DOMAIN rs : rs[k] \in Record /\ rs[k].n \in {0, 1}
  BY RecordFields
<1>5. ASSUME NEW k \in DOMAIN after, after[k].n = 0
      PROVE  t.won[after[k].id] < t.given[after[k].id] \/ after[k].id \in ids
  <2>1. CASE k \notin DOMAIN rs
    BY <1>5, <2>1 DEF GivenIds
  <2>2. CASE k \in DOMAIN rs /\ rs[k].n = 0
    BY <1>5, <2>2 DEF GivesOnly, Claimed
  <2>3. CASE k \in DOMAIN rs /\ rs[k].n = 1
    <3>1. set = [n |-> 0]
      BY <1>5, <2>3 DEF GivesOnly
    <3> QED
      BY <1>5, <2>3, <3>1 DEF GivenIds
  <2> QED
    BY <1>4, <2>1, <2>2, <2>3
<1> HIDE DEF ids, t2
<1>6. t2 \in Tallies
  <2>1. t2.given \in [Ids -> Nat]
    BY <1>1, <1>2
  <2> QED
    BY <1>1, <1>2, <2>1 DEF Tallies
<1>7. \A i \in Ids : /\ t.won[i] \in Nat /\ t.given[i] \in Nat /\ t.won[i] <= t.given[i]
                     /\ t2.given[i] = IF i \in ids THEN t.given[i] + 1 ELSE t.given[i]
  BY <1>1, <1>2 DEF Claimed
<1>8. \A i \in Ids : t2.won[i] <= t2.given[i]
  BY <1>2, <1>7
<1>9. \A k \in DOMAIN after : after[k].n = 0 => t2.won[after[k].id] < t2.given[after[k].id]
  BY <1>2, <1>3, <1>5, <1>7
<1>10. Claimed(after, t2)
  BY <1>8, <1>9 DEF Claimed
<1> QED
  BY <1>6, <1>10 DEF t2, ids

\* The changes of rows: all of them are made, or none on a conflict.
LEMMA UpdatedGives ==
  ASSUME NEW rs \in Seq(Record), NEW S, NEW set \in Values,
         NEW after \in {rs, Updated(rs, S, set)}
  PROVE  after \in Seq(Record) /\ GivesOnly(rs, after, set)
<1>1. /\ Updated(rs, S, set) \in Seq(Record)
      /\ \A i \in DOMAIN rs :
           /\ rs[i] \in Record
           /\ Updated(rs, S, set)[i] = IF i \in S THEN Merge(rs[i], set) ELSE rs[i]
           /\ Updated(rs, S, set)[i].id = rs[i].id
  BY UpdatedRows
<1>2. GivesOnly(rs, Updated(rs, S, set), set)
  BY <1>1, Merged DEF GivesOnly
<1>3. GivesOnly(rs, rs, set)
  BY DEF GivesOnly
<1> QED
  BY <1>1, <1>2, <1>3

\* A row that is made, or refused.
LEMMA CreatedGives ==
  ASSUME NEW rs \in Seq(Record), NEW r \in Record, NEW after \in {rs, Append(rs, r)}, NEW set
  PROVE  after \in Seq(Record) /\ GivesOnly(rs, after, set)
<1>1. \A k \in DOMAIN after \cap DOMAIN rs : after[k] = rs[k]
  OBVIOUS
<1> QED
  BY <1>1 DEF GivesOnly

LEMMA ClaimedWithout ==
  ASSUME NEW rs \in Seq(Record), NEW S, NEW t, Claimed(rs, t)
  PROVE  Claimed(Without(rs, S), t)
<1>1. PICK at : Left(Without(rs, S), rs, S, at)
  BY WithoutRows
<1> QED
  BY <1>1 DEF Left, Claimed

\* The compare-and-set itself: the row that the caller wins had a turn left, which
\* is taken with it.
LEMMA ClaimedSet ==
  ASSUME NEW rs \in Seq(Record), DistinctIds(rs), NEW t \in Tallies, Claimed(rs, t),
         NEW id \in Ids
  PROVE  LET S == Unclaimed(rs, id)
             t2 == [t EXCEPT !.won[id] = @ + Cardinality(S)]
         IN  t2 \in Tallies /\ Claimed(Updated(rs, S, [n |-> 1]), t2)
<1> DEFINE S == Unclaimed(rs, id)
           t2 == [t EXCEPT !.won[id] = @ + Cardinality(S)]
           set == [n |-> 1]
           after == Updated(rs, S, set)
<1>1. Cardinality(S) \in {0, 1} /\ (Cardinality(S) = 0 <=> S = {})
  BY UnclaimedCount
<1>2. \A i \in DOMAIN rs : i \in S <=> rs[i].id = id /\ rs[i].n = 0
  BY DEF Unclaimed
<1>3. S # {} => t.won[id] < t.given[id]
  <2>1. ASSUME NEW i \in S PROVE t.won[id] < t.given[id]
    <3>1. i \in DOMAIN rs /\ rs[i].id = id /\ rs[i].n = 0
      BY DEF Unclaimed
    <3> QED
      BY <3>1 DEF Claimed
  <2> QED
    BY <2>1
<1> HIDE DEF S
<1>4. /\ t.given \in [Ids -> Nat] /\ t.won \in [Ids -> Nat]
      /\ \A i \in Ids : t.won[i] <= t.given[i]
  BY DEF Tallies, Claimed
<1>5. /\ t2 = [given |-> t.given, won |-> t2.won]
      /\ t2.won = [t.won EXCEPT ![id] = @ + Cardinality(S)]
      /\ t2.given = t.given
  <2>1. PICK g, w : t = [given |-> g, won |-> w]
    BY DEF Tallies
  <2>2. PICK more : more = [t.won EXCEPT ![id] = @ + Cardinality(S)]
    OBVIOUS
  <2>3. t2 = [given |-> g, won |-> more]
    BY <2>1, <2>2
  <2> QED
    BY <2>1, <2>2, <2>3
<1> HIDE DEF t2
<1>6. /\ t2.won \in [Ids -> Nat] /\ t2.won[id] = t.won[id] + Cardinality(S)
      /\ \A j \in Ids : j # id => t2.won[j] = t.won[j]
  BY <1>1, <1>4, <1>5
<1>7. t2 \in Tallies
  BY <1>4, <1>5, <1>6 DEF Tallies
<1>8. \A i \in Ids : t2.won[i] <= t2.given[i]
  BY <1>1, <1>3, <1>4, <1>5, <1>6
<1>9. set \in Values
  BY DEF Values
<1>10. /\ DOMAIN after = DOMAIN rs
       /\ \A i \in DOMAIN rs :
            /\ rs[i] \in Record
            /\ after[i] = IF i \in S THEN Merge(rs[i], set) ELSE rs[i]
            /\ after[i].id = rs[i].id
  BY <1>9, UpdatedRows
<1>11. \A i \in DOMAIN rs : Merge(rs[i], set).n = 1
  BY <1>9, <1>10, Merged
<1> HIDE DEF after, set
<1>12. ASSUME NEW i \in DOMAIN rs, after[i].n = 0
       PROVE  t2.won[after[i].id] < t2.given[after[i].id]
  <2>1. i \notin S /\ after[i] = rs[i] /\ rs[i].id \in Ids
    BY <1>10, <1>11, <1>12, RecordFields
  <2>2. rs[i].n = 0 /\ rs[i].id # id
    BY <1>2, <1>12, <2>1
  <2> QED
    BY <1>5, <1>6, <2>1, <2>2 DEF Claimed
<1>13. Claimed(after, t2)
  BY <1>8, <1>10, <1>12 DEF Claimed
<1> QED
  BY <1>7, <1>13 DEF S, t2, after, set

-----------------------------------------------------------------------------
(* Storage: the memory adapter *)

\* What an operation gives is counted with it.
MemoryGives(h, t, after, set) ==
  LET t2 == Gives(t, GivenIds(h.rows, after.rows, set))
  IN  t2 \in Tallies /\ MemoryKeeps(after, t2)

LEMMA MemoryCreateKeeps ==
  ASSUME NEW h, NEW t \in Tallies, MemoryKeeps(h, t), NEW r \in Record
  PROVE  MemoryGives(h, t, MemoryCreate(h, r), <<>>)
<1> DEFINE h2 == MemoryCreate(h, r)
<1>1. /\ h = [rows |-> h.rows, index |-> h.index] /\ Sound(h.rows, h.index)
      /\ Claimed(h.rows, t) /\ h.rows \in Seq(Record)
  BY DEF MemoryKeeps, Sound
<1>2. Sound(h2.rows, h2.index) /\ h2.rows \in {h.rows, Append(h.rows, r)}
  BY <1>1, CreateSound
<1>3. h2 = [rows |-> h2.rows, index |-> h2.index]
  BY <1>1 DEF MemoryCreate
<1> HIDE DEF h2
<1>4. h2.rows \in Seq(Record) /\ GivesOnly(h.rows, h2.rows, <<>>)
  BY <1>1, <1>2, CreatedGives
<1>5. LET t2 == Gives(t, GivenIds(h.rows, h2.rows, <<>>))
      IN  t2 \in Tallies /\ Claimed(h2.rows, t2)
  BY <1>1, <1>4, GivenClaimed
<1>6. MemoryGives(h, t, h2, <<>>)
  BY <1>2, <1>3, <1>5 DEF MemoryGives, MemoryKeeps
<1> QED
  BY <1>6 DEF h2

\* The first of the rows that match.
LEMMA FirstMatch ==
  ASSUME NEW h, h.rows \in Seq(Record), NEW where, Matching(h, where) # {}
  PROVE  Min(Matching(h, where)) \in DOMAIN h.rows
<1> DEFINE M == Matching(h, where)
<1>1. M \subseteq DOMAIN h.rows /\ M # {}
  BY DEF Matching
<1>2. DOMAIN h.rows \subseteq Nat
  OBVIOUS
<1> HIDE DEF M
<1>3. \E m \in M : \A n \in M : m <= n
  BY <1>1, <1>2, Least
<1>4. Min(M) \in M
  BY <1>3 DEF Min
<1> QED
  BY <1>1, <1>4 DEF M

LEMMA MemoryUpdateKeeps ==
  ASSUME NEW h, NEW t \in Tallies, MemoryKeeps(h, t), NEW where, NEW set \in Values
  PROVE  MemoryGives(h, t, MemoryUpdate(h, where, set), set)
<1> DEFINE h2 == MemoryUpdate(h, where, set)
<1>1. /\ h = [rows |-> h.rows, index |-> h.index] /\ Sound(h.rows, h.index)
      /\ Claimed(h.rows, t) /\ h.rows \in Seq(Record)
  BY DEF MemoryKeeps, Sound
<1>2. /\ Sound(h2.rows, h2.index) /\ h2 = [rows |-> h2.rows, index |-> h2.index]
      /\ \E S : h2.rows \in {h.rows, Updated(h.rows, S, set)}
  <2>1. CASE h2 = h
    BY <1>1, <2>1
  <2>2. CASE h2 # h
    <3>1. PICK i : i = Min(Matching(h, where))
      OBVIOUS
    <3>2. /\ Matching(h, where) # {}
          /\ ~ violatesUnique(h, Merge(h.rows[i], set), h.rows[i].id)
          /\ h2 = Write(h, {i}, set)
      BY <2>2, <3>1 DEF MemoryUpdate
    <3>3. i \in DOMAIN h.rows
      BY <1>1, <3>1, <3>2, FirstMatch
    <3>4. Sound(Write(h, {i}, set).rows, Write(h, {i}, set).index)
      BY <1>1, <3>2, <3>3, WriteOneSound
    <3>5. Write(h, {i}, set).rows = Updated(h.rows, {i}, set)
      BY DEF Write
    <3>6. h2 = [rows |-> h2.rows, index |-> h2.index]
      <4>1. Write(h, {i}, set) = [rows |-> Write(h, {i}, set).rows, index |-> Write(h, {i}, set).index]
        BY DEF Write
      <4> QED
        BY <3>2, <4>1
    <3> HIDE DEF h2
    <3> QED
      BY <3>2, <3>4, <3>5, <3>6
  <2> QED
    BY <2>1, <2>2
<1> HIDE DEF h2
<1>3. h2.rows \in Seq(Record) /\ GivesOnly(h.rows, h2.rows, set)
  BY <1>1, <1>2, UpdatedGives
<1>4. LET t2 == Gives(t, GivenIds(h.rows, h2.rows, set))
      IN  t2 \in Tallies /\ Claimed(h2.rows, t2)
  BY <1>1, <1>3, GivenClaimed
<1>5. MemoryGives(h, t, h2, set)
  BY <1>2, <1>4 DEF MemoryGives, MemoryKeeps
<1> QED
  BY <1>5 DEF h2

LEMMA RemoveKeeps ==
  ASSUME NEW h, NEW t, MemoryKeeps(h, t), NEW S, S \subseteq DOMAIN h.rows
  PROVE  MemoryKeeps(RemoveRows(h, S), t)
<1>1. Sound(h.rows, h.index) /\ Claimed(h.rows, t) /\ h.rows \in Seq(Record)
  BY DEF MemoryKeeps, Sound
<1>2. Sound(RemoveRows(h, S).rows, RemoveRows(h, S).index)
  BY <1>1, RemoveSound
<1>3. Claimed(Without(h.rows, S), t)
  BY <1>1, ClaimedWithout
<1> QED
  BY <1>2, <1>3 DEF MemoryKeeps, RemoveRows

LEMMA MemoryDeleteKeeps ==
  ASSUME NEW h, NEW t, MemoryKeeps(h, t), NEW where
  PROVE  MemoryKeeps(MemoryDelete(h, where), t) /\ MemoryKeeps(MemoryDeleteMany(h, where), t)
<1>1. h.rows \in Seq(Record)
  BY DEF MemoryKeeps, Sound
<1>2. MemoryKeeps(MemoryDeleteMany(h, where), t)
  <2>1. Matching(h, where) \subseteq DOMAIN h.rows
    BY DEF Matching
  <2> QED
    BY <2>1, RemoveKeeps DEF MemoryDeleteMany
<1>3. CASE Matching(h, where) = {}
  BY <1>2, <1>3 DEF MemoryDelete
<1>4. CASE Matching(h, where) # {}
  <2>1. PICK i : i = Min(Matching(h, where))
    OBVIOUS
  <2>2. i \in DOMAIN h.rows
    BY <1>1, <1>4, <2>1, FirstMatch
  <2>3. PICK S : S = {i}
    OBVIOUS
  <2>4. S \subseteq DOMAIN h.rows
    BY <2>2, <2>3
  <2>5. MemoryKeeps(RemoveRows(h, S), t)
    BY <2>4, RemoveKeeps
  <2> QED
    BY <1>2, <1>4, <2>1, <2>3, <2>5 DEF MemoryDelete
<1> QED
  BY <1>3, <1>4

\* UpdateMany as a compare-and-set on the memory adapter.
LEMMA MemorySetKeeps ==
  ASSUME NEW h, NEW t \in Tallies, MemoryKeeps(h, t), NEW id \in Ids
  PROVE  LET where == <<Is("id", id), Is("n", 0)>>
             t2 == [t EXCEPT !.won[id] = @ + Cardinality(Matching(h, where))]
         IN  /\ t2 \in Tallies
             /\ MemoryKeeps(MemoryUpdateMany(h, where, [n |-> 1]), t2)
<1> DEFINE where == <<Is("id", id), Is("n", 0)>>
           S == Unclaimed(h.rows, id)
           t2 == [t EXCEPT !.won[id] = @ + Cardinality(S)]
<1>1. /\ Sound(h.rows, h.index) /\ Claimed(h.rows, t)
      /\ h.rows \in Seq(Record) /\ DistinctIds(h.rows)
  BY DEF MemoryKeeps, Sound
<1>2. Matching(h, where) = S
  <2>1. \A i \in DOMAIN h.rows : h.rows[i] \in Record
    BY <1>1
  <2>2. \A i \in DOMAIN h.rows :
          Matches(h.rows[i], where) <=> h.rows[i].id = id /\ h.rows[i].n = 0
    BY <2>1, SetSelects
  <2> HIDE DEF where
  <2> QED
    BY <2>2 DEF Matching, Unclaimed
<1>3. t2 \in Tallies /\ Claimed(Updated(h.rows, S, [n |-> 1]), t2)
  BY <1>1, ClaimedSet
<1>4. S \subseteq DOMAIN h.rows
  BY DEF Unclaimed
<1> HIDE DEF S, where
<1>5. Sound(Write(h, S, [n |-> 1]).rows, Write(h, S, [n |-> 1]).index)
  BY <1>1, <1>4, WriteCountSound
<1>6. MemoryUpdateMany(h, where, [n |-> 1]) = Write(h, S, [n |-> 1])
  BY <1>2 DEF MemoryUpdateMany
<1> HIDE DEF t2
<1>7. MemoryKeeps(Write(h, S, [n |-> 1]), t2)
  BY <1>3, <1>5 DEF MemoryKeeps, Write
<1> QED
  BY <1>2, <1>3, <1>6, <1>7 DEF where, t2

-----------------------------------------------------------------------------
(* Storage: the engines *)

LEMMA ClashBoth ==
  ASSUME NEW r \in Record, NEW s \in Record, Clash(r, s)
  PROVE  Clash(s, r)
<1>1. CASE \E f \in UniqueFields : r[f] # Null /\ s[f] = r[f]
  BY <1>1 DEF Clash
<1>2. CASE Indexed(r) /\ \A i \in DOMAIN Constraint : s[Constraint[i]] = r[Constraint[i]]
  <2>1. Indexed(s)
    BY <1>2 DEF Indexed
  <2> QED
    BY <1>2, <2>1 DEF Clash
<1> QED
  BY <1>1, <1>2 DEF Clash

\* Rows that an engine keeps side by side have an id each.
LEMMA EngineIds ==
  ASSUME NEW rs \in Seq(Record), NoClash(rs)
  PROVE  DistinctIds(rs)
<1>1. ASSUME NEW i \in DOMAIN rs, NEW j \in DOMAIN rs, rs[i].id = rs[j].id, i # j PROVE FALSE
  <2>1. rs[i] \in Record /\ rs[j] \in Record
    OBVIOUS
  <2>2. rs[i]["id"] # Null /\ rs[j]["id"] = rs[i]["id"]
    BY <1>1, <2>1, RecordFields
  <2>3. Clash(rs[i], rs[j])
    BY <2>2 DEF Clash, UniqueFields
  <2> QED
    BY <1>1, <2>3 DEF NoClash
<1> QED
  BY <1>1 DEF DistinctIds

\* What a statement gives is counted with it.
EngineGives(rs, t, after, set) ==
  LET t2 == Gives(t, GivenIds(rs, after, set))
  IN  t2 \in Tallies /\ EngineKeeps(after, t2)

LEMMA InsertKeeps ==
  ASSUME NEW rs, NEW t \in Tallies, EngineKeeps(rs, t), NEW r \in Record
  PROVE  EngineGives(rs, t, DbInsert(rs, r), <<>>)
<1> DEFINE after == DbInsert(rs, r)
<1>1. rs \in Seq(Record) /\ NoClash(rs) /\ Claimed(rs, t)
  BY DEF EngineKeeps
<1>2. PICK n \in Nat : n = Len(rs) /\ DOMAIN rs = 1 .. n
  BY <1>1
<1>3. \A i \in 1 .. n : rs[i] \in Range(rs) /\ rs[i] \in Record
  BY <1>1, <1>2 DEF Range
<1>4. after \in {rs, Append(rs, r)}
  BY DEF DbInsert
<1>5. after # rs => after = Append(rs, r) /\ \A s \in Range(rs) : ~ Clash(r, s)
  BY DEF DbInsert
<1> HIDE DEF after
<1>6. after \in Seq(Record) /\ GivesOnly(rs, after, <<>>)
  BY <1>1, <1>4, CreatedGives
<1>7. LET t2 == Gives(t, GivenIds(rs, after, <<>>))
      IN  t2 \in Tallies /\ Claimed(after, t2)
  BY <1>1, <1>6, GivenClaimed
<1>8. NoClash(after)
  <2>1. CASE after = rs
    BY <1>1, <2>1
  <2>2. CASE after # rs
    <3>1. after = Append(rs, r) /\ \A s \in Range(rs) : ~ Clash(r, s)
      BY <1>5, <2>2
    <3>2. /\ DOMAIN after = 1 .. n + 1 /\ after[n + 1] = r
          /\ \A i \in 1 .. n : after[i] = rs[i]
      BY <1>1, <1>2, <3>1
    <3>3. ASSUME NEW i \in 1 .. n + 1, NEW j \in 1 .. n + 1, i # j
          PROVE  ~ Clash(after[i], after[j])
      <4>1. CASE i = n + 1
        <5>1. j \in 1 .. n
          BY <3>3, <4>1
        <5> QED
          BY <1>3, <3>1, <3>2, <4>1, <5>1
      <4>2. CASE j = n + 1
        <5>1. i \in 1 .. n
          BY <3>3, <4>2
        <5>2. ~ Clash(r, rs[i]) /\ rs[i] \in Record
          BY <1>3, <3>1, <5>1
        <5>3. ~ Clash(rs[i], r)
          BY <5>2, ClashBoth
        <5> QED
          BY <3>2, <4>2, <5>1, <5>3
      <4>3. CASE i # n + 1 /\ j # n + 1
        <5>1. i \in 1 .. n /\ j \in 1 .. n
          BY <4>3
        <5> QED
          BY <1>1, <1>2, <3>2, <3>3, <5>1 DEF NoClash
      <4> QED
        BY <4>1, <4>2, <4>3
    <3> QED
      BY <3>2, <3>3 DEF NoClash
  <2> QED
    BY <2>1, <2>2
<1>9. EngineGives(rs, t, after, <<>>)
  BY <1>6, <1>7, <1>8 DEF EngineGives, EngineKeeps
<1> QED
  BY <1>9 DEF after

\* An UPDATE of some rows, all of them or none.
LEMMA UpdateKeeps ==
  ASSUME NEW rs \in Seq(Record), NoClash(rs), NEW S, NEW set \in Values
  PROVE  /\ DbUpdate(rs, S, set) \in {rs, Updated(rs, S, set)}
         /\ DbUpdate(rs, S, set) \in Seq(Record) /\ NoClash(DbUpdate(rs, S, set))
<1> DEFINE after == Updated(rs, S, set)
<1>2. /\ after \in Seq(Record) /\ DOMAIN after = DOMAIN rs
      /\ \A i \in DOMAIN rs : i \notin S => after[i] = rs[i]
  BY UpdatedRows
<1>4. DbUpdate(rs, S, set) = IF \E i \in S, j \in DOMAIN rs : i # j /\ Clash(after[i], after[j])
                             THEN rs ELSE after
  BY DEF DbUpdate
<1>3. DbUpdate(rs, S, set) \in {rs, Updated(rs, S, set)}
  BY <1>4
<1> HIDE DEF after
<1>5. CASE \E i \in S, j \in DOMAIN rs : i # j /\ Clash(after[i], after[j])
  BY <1>3, <1>4, <1>5
<1>6. CASE ~ \E i \in S, j \in DOMAIN rs : i # j /\ Clash(after[i], after[j])
  <2>1. ASSUME NEW i \in DOMAIN rs, NEW j \in DOMAIN rs, i # j PROVE ~ Clash(after[i], after[j])
    <3>1. CASE i \in S
      BY <1>6, <2>1, <3>1
    <3>2. CASE j \in S
      <4>1. after[i] \in Record /\ after[j] \in Record
        BY <1>2
      <4>2. ~ Clash(after[j], after[i])
        BY <1>6, <2>1, <3>2
      <4> QED
        BY <4>1, <4>2, ClashBoth
    <3>3. CASE i \notin S /\ j \notin S
      BY <1>2, <2>1, <3>3 DEF NoClash
    <3> QED
      BY <3>1, <3>2, <3>3
  <2>2. NoClash(after)
    BY <1>2, <2>1 DEF NoClash
  <2> QED
    BY <1>2, <1>3, <1>4, <1>6, <2>2
<1> QED
  BY <1>5, <1>6

LEMMA UpdateGives ==
  ASSUME NEW rs, NEW t \in Tallies, EngineKeeps(rs, t), NEW S, NEW set \in Values
  PROVE  EngineGives(rs, t, DbUpdate(rs, S, set), set)
<1> DEFINE after == DbUpdate(rs, S, set)
<1>1. rs \in Seq(Record) /\ NoClash(rs) /\ Claimed(rs, t)
  BY DEF EngineKeeps
<1>2. after \in {rs, Updated(rs, S, set)} /\ after \in Seq(Record) /\ NoClash(after)
  BY <1>1, UpdateKeeps
<1> HIDE DEF after
<1>3. GivesOnly(rs, after, set)
  BY <1>1, <1>2, UpdatedGives
<1>4. LET t2 == Gives(t, GivenIds(rs, after, set))
      IN  t2 \in Tallies /\ Claimed(after, t2)
  BY <1>1, <1>2, <1>3, GivenClaimed
<1>5. EngineGives(rs, t, after, set)
  BY <1>2, <1>4 DEF EngineGives, EngineKeeps
<1> QED
  BY <1>5 DEF after

LEMMA DeleteKeeps ==
  ASSUME NEW rs, NEW t, EngineKeeps(rs, t), NEW S
  PROVE  EngineKeeps(DbDelete(rs, S), t)
<1>1. rs \in Seq(Record) /\ NoClash(rs) /\ Claimed(rs, t)
  BY DEF EngineKeeps
<1>2. PICK at : Left(Without(rs, S), rs, S, at)
  BY <1>1, WithoutRows
<1>3. Without(rs, S) \in Seq(Record) /\ NoClash(Without(rs, S))
  BY <1>1, <1>2 DEF Left, NoClash
<1>4. Claimed(Without(rs, S), t)
  BY <1>1, ClaimedWithout
<1> QED
  BY <1>3, <1>4 DEF EngineKeeps, DbDelete

\* UpdateMany as a compare-and-set on an engine: n is under no constraint, so that
\* no row clashes that did not.
LEMMA EngineSetKeeps ==
  ASSUME NEW rs, NEW t \in Tallies, EngineKeeps(rs, t), NEW id \in Ids
  PROVE  LET S == Unclaimed(rs, id)
             t2 == [t EXCEPT !.won[id] = @ + Cardinality(S)]
         IN  /\ t2 \in Tallies
             /\ EngineKeeps(DbUpdate(rs, S, [n |-> 1]), t2)
<1> DEFINE S == Unclaimed(rs, id)
           set == [n |-> 1]
           t2 == [t EXCEPT !.won[id] = @ + Cardinality(S)]
           after == Updated(rs, S, set)
<1>1. rs \in Seq(Record) /\ NoClash(rs) /\ Claimed(rs, t) /\ DistinctIds(rs)
  BY EngineIds DEF EngineKeeps
<1>2. t2 \in Tallies /\ Claimed(after, t2)
  BY <1>1, ClaimedSet
<1>3. set \in Values /\ S \subseteq DOMAIN rs
  BY DEF Values, Unclaimed
<1>4. NoClash(DbUpdate(rs, S, set))
  BY <1>1, <1>3, UpdateKeeps
<1>5. /\ after \in Seq(Record) /\ DOMAIN after = DOMAIN rs
      /\ \A i \in DOMAIN rs : rs[i] \in Record
                              /\ after[i] = IF i \in S THEN Merge(rs[i], set) ELSE rs[i]
  BY <1>1, <1>3, UpdatedRows
<1>6. ASSUME NEW i \in DOMAIN rs
      PROVE  /\ after[i]["id"] = rs[i]["id"] /\ after[i]["key"] = rs[i]["key"]
             /\ after[i]["a"] = rs[i]["a"] /\ after[i]["b"] = rs[i]["b"]
  <2> HIDE DEF after, S
  <2>1. rs[i] \in Record
    BY <1>5
  <2>2. /\ Merge(rs[i], set).id = rs[i].id /\ Merge(rs[i], set).key = rs[i].key
        /\ Merge(rs[i], set).a = rs[i].a /\ Merge(rs[i], set).b = rs[i].b
    BY <1>3, <2>1, Merged
  <2> HIDE DEF set
  <2> QED
    BY <1>5, <2>2
<1> HIDE DEF t2, after, S, set
<1>7. ASSUME NEW i \in DOMAIN rs, NEW j \in DOMAIN rs, i # j PROVE ~ Clash(after[i], after[j])
  <2>1. ~ Clash(rs[i], rs[j])
    BY <1>1, <1>7 DEF NoClash
  <2>2. \A f \in UniqueFields : after[i][f] = rs[i][f] /\ after[j][f] = rs[j][f]
    BY <1>6 DEF UniqueFields
  <2>3. \A k \in DOMAIN Constraint : /\ after[i][Constraint[k]] = rs[i][Constraint[k]]
                                     /\ after[j][Constraint[k]] = rs[j][Constraint[k]]
    <3>1. DOMAIN Constraint = {1, 2} /\ Constraint[1] = "a" /\ Constraint[2] = "b"
      BY DEF Constraint
    <3> QED
      BY <1>6, <3>1
  <2>4. Indexed(after[i]) <=> Indexed(rs[i])
    BY <2>3 DEF Indexed
  <2> QED
    BY <2>1, <2>2, <2>3, <2>4 DEF Clash
<1>8. DbUpdate(rs, S, set) = after
  <2>1. ~ \E i \in S, j \in DOMAIN rs : i # j /\ Clash(after[i], after[j])
    BY <1>3, <1>7
  <2>2. DbUpdate(rs, S, set) = IF \E i \in S, j \in DOMAIN rs : i # j /\ Clash(after[i], after[j])
                               THEN rs ELSE after
    BY DEF DbUpdate, after
  <2> QED
    BY <2>1, <2>2
<1>9. EngineKeeps(after, t2)
  BY <1>2, <1>4, <1>5, <1>8 DEF EngineKeeps
<1> QED
  BY <1>2, <1>8, <1>9 DEF t2, S, set

-----------------------------------------------------------------------------
(* Storage: the invariant *)

\* What holds before the first row.
LEMMA EmptyKeeps ==
  /\ NoTally \in Tallies /\ MemoryKeeps(Empty, NoTally)
  /\ NoTx = [by |-> Null, heap |-> Empty, tally |-> NoTally]
  /\ Empty.rows = <<>> /\ Empty = [rows |-> Empty.rows, index |-> Empty.index]
<1>1. NoTally \in Tallies /\ \A i \in Ids : NoTally.won[i] = 0 /\ NoTally.given[i] = 0
  BY DEF NoTally, Tallies
<1>2. Empty.rows = <<>> /\ Empty = [rows |-> Empty.rows, index |-> Empty.index]
  BY DEF Empty
<1>3. Claimed(Empty.rows, NoTally)
  BY <1>1, <1>2 DEF Claimed
<1> QED
  BY <1>1, <1>2, <1>3, EmptySound DEF MemoryKeeps, NoTx

LEMMA InitStoreIInv == StorageInit => StoreIInv
<1> SUFFICES ASSUME StorageInit PROVE StoreIInv
  OBVIOUS
<1> USE DEF StorageInit
<1>1. /\ heap = Empty /\ tally = NoTally
      /\ tx.by = Null /\ tx.heap = Empty /\ tx.tally = NoTally /\ tx = NoTx
      /\ tx = [by |-> tx.by, heap |-> tx.heap, tally |-> tx.tally]
  BY EmptyKeeps
<1>2. Inv_Types
  <2>1. NoUpdate \in Updates /\ NoUpdate.step = "none"
    BY DEF NoUpdate, Updates
  <2>2. update \in [Callers -> Updates] /\ \A c \in Callers : update[c].step = "none"
    BY <2>1
  <2>3. Writing(kind, update)
    BY <2>2 DEF Writing
  <2> QED
    BY <1>1, <2>2, <2>3, EmptyKeeps DEF Inv_Types
<1>3. Inv_Tx
  BY <1>1, EmptyKeeps DEF Inv_Tx
<1>4. Inv_Memory
  BY <1>1, EmptyKeeps DEF Inv_Memory
<1>5. Inv_Engine
  BY <1>1, EmptyKeeps DEF Inv_Engine, EngineKeeps, NoClash, MemoryKeeps
<1> QED
  BY <1>2, <1>3, <1>4, <1>5 DEF StoreIInv

\* The memory adapter: what an operation leaves where its caller works.
LEMMA MemoryStep ==
  ASSUME StoreIInv, kind = "memory", UNCHANGED <<kind, update, asked>>,
         NEW c \in Callers, NEW h, NEW t \in Tallies, PutCounted(c, h, t), MemoryKeeps(h, t)
  PROVE  StoreIInv'
<1> USE DEF StoreIInv
<1>1. kind' = "memory" /\ kind' = kind /\ update' = update /\ asked' = asked
  OBVIOUS
<1>2. CASE tx.by = c
  <2>1. tx' = [tx EXCEPT !.heap = h, !.tally = t] /\ heap' = heap /\ tally' = tally
    BY <1>2 DEF PutCounted
  <2>2. tx = [by |-> tx.by, heap |-> tx.heap, tally |-> tx.tally]
    BY DEF Inv_Tx
  <2>3. tx' = [by |-> tx.by, heap |-> h, tally |-> t]
    BY <2>1, <2>2
  <2>4. Inv_Tx'
    BY <1>1, <1>2, <2>3 DEF Inv_Tx
  <2>5. Inv_Memory'
    BY <1>2, <2>1, <2>3 DEF Inv_Memory
  <2>6. Inv_Types'
    BY <1>1, <2>1 DEF Inv_Types
  <2>7. Inv_Engine'
    BY <1>1 DEF Inv_Engine
  <2> QED
    BY <2>4, <2>5, <2>6, <2>7
<1>3. CASE tx.by # c
  <2>1. heap' = h /\ tally' = t /\ tx' = tx
    BY <1>3 DEF PutCounted
  <2>2. Inv_Tx'
    BY <1>1, <2>1 DEF Inv_Tx
  <2>3. Inv_Memory'
    BY <2>1 DEF Inv_Memory
  <2>4. Inv_Types'
    <3>1. heap' = [rows |-> h.rows, index |-> h.index]
      BY <2>1 DEF MemoryKeeps
    <3> QED
      BY <1>1, <2>1, <3>1 DEF Inv_Types
  <2>5. Inv_Engine'
    BY <1>1 DEF Inv_Engine
  <2> QED
    BY <2>2, <2>3, <2>4, <2>5
<1> QED
  BY <1>2, <1>3

\* What caller c works on: its transaction's copy, or the store.
LEMMA OwnKeeps ==
  ASSUME StoreIInv, NEW c \in Callers
  PROVE  /\ OwnTally(c) \in Tallies
         /\ kind = "memory" => MemoryKeeps(Own(c), OwnTally(c))
         /\ kind # "memory" => /\ tx.by # c /\ Own(c) = heap /\ OwnTally(c) = tally
                               /\ EngineKeeps(heap.rows, tally)
                               /\ heap = [rows |-> heap.rows, index |-> heap.index]
<1>1. tally \in Tallies /\ tx.tally \in Tallies
  BY DEF StoreIInv, Inv_Types, Inv_Tx
<1>2. kind = "memory" => MemoryKeeps(Own(c), OwnTally(c))
  BY DEF StoreIInv, Inv_Memory, Own, OwnTally
<1>3. ASSUME kind # "memory" PROVE tx.by # c /\ EngineKeeps(heap.rows, tally)
  <2>1. tx.by = Null
    BY <1>3, EmptyKeeps DEF StoreIInv, Inv_Tx
  <2> QED
    BY <1>3, <2>1, StorageAssumption DEF StoreIInv, Inv_Engine
<1> QED
  BY <1>1, <1>2, <1>3 DEF Own, OwnTally, StoreIInv, Inv_Types

\* An engine: what a statement or a command leaves of the rows.
LEMMA EngineStep ==
  ASSUME StoreIInv, kind # "memory", UNCHANGED <<kind, asked, tx>>,
         NEW rs, heap' = [heap EXCEPT !.rows = rs], tally' \in Tallies, EngineKeeps(rs, tally'),
         update' \in [Callers -> Updates], Writing(kind, update')
  PROVE  StoreIInv'
<1> USE DEF StoreIInv
<1>1. heap = [rows |-> heap.rows, index |-> heap.index]
  BY DEF Inv_Types
<1>2. heap' = [rows |-> rs, index |-> heap.index]
  BY <1>1
<1>3. Inv_Types'
  <2>1. heap' = [rows |-> heap'.rows, index |-> heap'.index]
    BY <1>2
  <2>2. Writing(kind', update')
    OBVIOUS
  <2> QED
    BY <2>1, <2>2 DEF Inv_Types, Writing
<1>4. Inv_Tx'
  BY DEF Inv_Tx
<1>5. Inv_Memory'
  BY DEF Inv_Memory
<1>6. Inv_Engine'
  <2>1. heap'.rows = rs
    BY <1>2
  <2>2. NoClash(heap.rows)'
    BY <2>1 DEF EngineKeeps, NoClash, Clash, Indexed
  <2> QED
    BY <2>1, <2>2 DEF Inv_Engine, EngineKeeps, Claimed
<1> QED
  BY <1>3, <1>4, <1>5, <1>6

\* A command that is counted.
LEMMA EngineCounted ==
  ASSUME StoreIInv, kind # "memory", UNCHANGED <<kind, update, asked>>,
         NEW c \in Callers, NEW rs, NEW t \in Tallies,
         PutCounted(c, [heap EXCEPT !.rows = rs], t), EngineKeeps(rs, t)
  PROVE  StoreIInv'
<1>1. tx.by # c
  BY OwnKeeps
<1>2. heap' = [heap EXCEPT !.rows = rs] /\ tally' = t /\ tx' = tx
  BY <1>1 DEF PutCounted
<1>3. update' \in [Callers -> Updates] /\ Writing(kind, update')
  BY DEF StoreIInv, Inv_Types
<1> QED
  BY <1>2, <1>3, EngineStep

LEMMA CreateIInv ==
  ASSUME StoreIInv, NEW c \in Callers, NEW r \in Record, Create(c, r)
  PROVE  StoreIInv'
<1>1. UNCHANGED <<kind, update, asked>>
  BY DEF Create, Call
<1>2. CASE kind = "memory"
  <2>1. PICK h : h = MemoryCreate(Own(c), r)
    OBVIOUS
  <2>2. PICK t : t = Gives(OwnTally(c), GivenIds(Own(c).rows, h.rows, <<>>))
    OBVIOUS
  <2>3. PutCounted(c, h, t)
    BY <1>2, <2>1, <2>2 DEF Create
  <2>4. OwnTally(c) \in Tallies /\ MemoryKeeps(Own(c), OwnTally(c))
    BY <1>2, OwnKeeps
  <2>5. MemoryGives(Own(c), OwnTally(c), h, <<>>)
    BY <2>1, <2>4, MemoryCreateKeeps
  <2>6. t \in Tallies /\ MemoryKeeps(h, t)
    BY <2>2, <2>5 DEF MemoryGives
  <2> QED
    BY <1>1, <1>2, <2>3, <2>6, MemoryStep
<1>3. CASE kind # "memory"
  <2>1. /\ EngineKeeps(heap.rows, tally) /\ Own(c) = heap /\ OwnTally(c) = tally
        /\ tally \in Tallies /\ heap = [rows |-> heap.rows, index |-> heap.index]
    BY <1>3, OwnKeeps DEF StoreIInv, Inv_Types
  <2>2. PICK rs : rs = DbInsert(heap.rows, r)
    OBVIOUS
  <2>3. PICK t : t = Gives(tally, GivenIds(heap.rows, rs, <<>>))
    OBVIOUS
  <2>4. [heap EXCEPT !.rows = rs].rows = rs
    BY <2>1
  <2>5. PutCounted(c, [heap EXCEPT !.rows = rs], t)
    BY <1>3, <2>1, <2>2, <2>3, <2>4 DEF Create
  <2>6. EngineGives(heap.rows, tally, rs, <<>>)
    BY <2>1, <2>2, InsertKeeps
  <2>7. t \in Tallies /\ EngineKeeps(rs, t)
    BY <2>3, <2>6 DEF EngineGives
  <2> QED
    BY <1>1, <1>3, <2>5, <2>7, EngineCounted
<1> QED
  BY <1>2, <1>3

LEMMA UpdateIInv ==
  ASSUME StoreIInv, NEW c \in Callers, NEW where, NEW set \in Values, Update(c, where, set)
  PROVE  StoreIInv'
<1>1. UNCHANGED <<kind, update, asked>>
  BY DEF Update, Call
<1>2. CASE kind = "memory"
  <2>1. PICK h : h = MemoryUpdate(Own(c), where, set)
    OBVIOUS
  <2>2. PICK t : t = Gives(OwnTally(c), GivenIds(Own(c).rows, h.rows, set))
    OBVIOUS
  <2>3. PutCounted(c, h, t)
    BY <1>2, <2>1, <2>2 DEF Update
  <2>4. OwnTally(c) \in Tallies /\ MemoryKeeps(Own(c), OwnTally(c))
    BY <1>2, OwnKeeps
  <2>5. MemoryGives(Own(c), OwnTally(c), h, set)
    BY <2>1, <2>4, MemoryUpdateKeeps
  <2>6. t \in Tallies /\ MemoryKeeps(h, t)
    BY <2>2, <2>5 DEF MemoryGives
  <2> QED
    BY <1>1, <1>2, <2>3, <2>6, MemoryStep
<1>3. CASE kind # "memory"
  <2>1. /\ EngineKeeps(heap.rows, tally) /\ Own(c) = heap /\ OwnTally(c) = tally
        /\ tally \in Tallies /\ heap = [rows |-> heap.rows, index |-> heap.index]
    BY <1>3, OwnKeeps DEF StoreIInv, Inv_Types
  <2>2. PICK i \in DbSelected(where) :
          LET h == [heap EXCEPT !.rows = DbUpdate(heap.rows, {i}, set)]
          IN  PutCounted(c, h, Gives(tally, GivenIds(heap.rows, h.rows, set)))
    BY <1>3, <2>1 DEF Update
  <2>3. PICK rs : rs = DbUpdate(heap.rows, {i}, set)
    OBVIOUS
  <2>4. PICK t : t = Gives(tally, GivenIds(heap.rows, rs, set))
    OBVIOUS
  <2>5. [heap EXCEPT !.rows = rs].rows = rs
    BY <2>1
  <2>6. PutCounted(c, [heap EXCEPT !.rows = rs], t)
    BY <2>2, <2>3, <2>4, <2>5
  <2>7. EngineGives(heap.rows, tally, rs, set)
    BY <2>1, <2>3, UpdateGives
  <2>8. t \in Tallies /\ EngineKeeps(rs, t)
    BY <2>4, <2>7 DEF EngineGives
  <2> QED
    BY <1>1, <1>3, <2>6, <2>8, EngineCounted
<1> QED
  BY <1>2, <1>3

LEMMA SqlUpdateIInv ==
  ASSUME StoreIInv, NEW c \in Callers, NEW where, NEW set \in Values,
         SqlUpdateFind(c, where, set) \/ SqlUpdateWrite(c) \/ SqlUpdateRead(c)
  PROVE  StoreIInv'
<1>1. /\ tally \in Tallies /\ update \in [Callers -> Updates] /\ Writing(kind, update)
      /\ heap = [rows |-> heap.rows, index |-> heap.index]
  BY DEF StoreIInv, Inv_Types
<1>2. NoUpdate \in Updates /\ NoUpdate.step = "none"
  BY DEF NoUpdate, Updates
<1>3. kind = "sql"
  BY <1>1 DEF SqlUpdateFind, SqlUpdateWrite, SqlUpdateRead, Writing
<1>4. EngineKeeps(heap.rows, tally)
  BY <1>3 DEF StoreIInv, Inv_Engine
<1>5. CASE SqlUpdateWrite(c)
  <2>1. PICK u : u = update[c] /\ u \in Updates /\ u.step = "write" /\ u.set \in Values
    BY <1>1, <1>5 DEF SqlUpdateWrite, Writing
  <2>2. PICK S : S = DbSelected(<<Is("id", u.row.id)>>)
    OBVIOUS
  <2>3. PICK rs : rs = DbUpdate(heap.rows, S, u.set)
    OBVIOUS
  <2>4. /\ heap' = [heap EXCEPT !.rows = rs]
        /\ tally' = Gives(tally, GivenIds(heap.rows, rs, u.set))
        /\ update' = [update EXCEPT ![c].step = "read"] /\ UNCHANGED <<kind, tx, asked>>
    BY <1>5, <2>1, <2>2, <2>3 DEF SqlUpdateWrite
  <2>5. EngineGives(heap.rows, tally, rs, u.set)
    BY <1>1, <1>4, <2>1, <2>3, UpdateGives
  <2>6. tally' \in Tallies /\ EngineKeeps(rs, tally')
    BY <2>4, <2>5 DEF EngineGives
  <2>7. PICK w \in Updates : update' = [update EXCEPT ![c] = w] /\ w.step = "read"
    <3>1. [u EXCEPT !.step = "read"] \in Updates /\ [u EXCEPT !.step = "read"].step = "read"
      BY <2>1 DEF Updates
    <3> QED
      BY <2>1, <2>4, <3>1
  <2>8. update' \in [Callers -> Updates] /\ Writing(kind, update')
    <3>1. update'[c] = w /\ \A d \in Callers : d # c => update'[d] = update[d]
      BY <1>1, <2>7
    <3> QED
      BY <1>1, <1>3, <2>7, <3>1 DEF Writing
  <2> QED
    BY <1>3, <2>4, <2>6, <2>8, EngineStep
<1>6. CASE SqlUpdateFind(c, where, set) \/ SqlUpdateRead(c)
  <2>1. UNCHANGED <<kind, heap, tx, tally, asked>>
    BY <1>6 DEF SqlUpdateFind, SqlUpdateRead, Call
  <2>2. PICK u \in Updates : /\ update' = [update EXCEPT ![c] = u]
                             /\ u.step = "write" => u.set \in Values
    <3>1. CASE SqlUpdateFind(c, where, set)
      <4>1. PICK i \in SqlFindMany(where) :
              update' = [update EXCEPT ![c] = [step |-> "write", set |-> set, row |-> heap.rows[i]]]
        BY <3>1 DEF SqlUpdateFind
      <4>2. heap.rows[i] \in Record
        BY <1>4 DEF SqlFindMany, EngineKeeps
      <4>3. [step |-> "write", set |-> set, row |-> heap.rows[i]] \in Updates
        BY <4>2 DEF Updates
      <4> QED
        BY <4>1, <4>3
    <3>2. CASE SqlUpdateRead(c)
      BY <1>2, <3>2 DEF SqlUpdateRead
    <3> QED
      BY <1>6, <3>1, <3>2
  <2>3. update' \in [Callers -> Updates] /\ Writing(kind, update')
    <3>1. update'[c] = u /\ \A d \in Callers : d # c => update'[d] = update[d]
      BY <1>1, <2>2
    <3>2. update' \in [Callers -> Updates]
      BY <1>1, <2>2
    <3> QED
      BY <1>1, <1>3, <2>2, <3>1, <3>2 DEF Writing
  <2>4. PICK rs : rs = heap.rows
    OBVIOUS
  <2>5. heap' = [heap EXCEPT !.rows = rs] /\ EngineKeeps(rs, tally') /\ tally' \in Tallies
    BY <1>1, <1>4, <2>1, <2>4
  <2>6. kind # "memory" /\ UNCHANGED <<kind, asked, tx>>
    BY <1>3, <2>1
  <2> QED
    BY <2>3, <2>5, <2>6, EngineStep
<1> QED
  BY <1>5, <1>6

LEMMA SetIInv ==
  ASSUME StoreIInv, NEW c \in Callers, NEW id \in Ids, CompareAndSet(c, id)
  PROVE  StoreIInv'
<1> DEFINE where == <<Is("id", id), Is("n", 0)>>
           matched == IF kind = "memory" THEN Matching(Own(c), where) ELSE DbSelected(where)
           t2 == [OwnTally(c) EXCEPT !.won[id] = @ + Cardinality(matched)]
<1>1. OwnTally(c) \in Tallies
  BY OwnKeeps
<1>2. /\ UNCHANGED <<kind, update, asked>>
      /\ PutCounted(c, IF kind = "memory" THEN MemoryUpdateMany(Own(c), where, [n |-> 1])
                       ELSE [heap EXCEPT !.rows = DbUpdate(heap.rows, matched, [n |-> 1])], t2)
  BY DEF CompareAndSet, Call
<1> HIDE DEF where
<1>3. CASE kind = "memory"
  <2>1. MemoryKeeps(Own(c), OwnTally(c))
    BY <1>3, OwnKeeps
  <2>2. PICK h, t : h = Own(c) /\ t = OwnTally(c)
    OBVIOUS
  <2>3. LET t3 == [t EXCEPT !.won[id] = @ + Cardinality(Matching(h, where))]
        IN  t3 \in Tallies /\ MemoryKeeps(MemoryUpdateMany(h, where, [n |-> 1]), t3)
    BY <1>1, <2>1, <2>2, MemorySetKeeps DEF where
  <2>4. t2 = [t EXCEPT !.won[id] = @ + Cardinality(Matching(h, where))]
    BY <1>3, <2>2
  <2> HIDE DEF t2
  <2>5. t2 \in Tallies /\ MemoryKeeps(MemoryUpdateMany(h, where, [n |-> 1]), t2)
    BY <2>3, <2>4
  <2>6. PutCounted(c, MemoryUpdateMany(h, where, [n |-> 1]), t2)
    BY <1>2, <1>3, <2>2
  <2> QED
    BY <1>2, <1>3, <2>5, <2>6, MemoryStep
<1>4. CASE kind # "memory"
  <2>1. EngineKeeps(heap.rows, tally) /\ OwnTally(c) = tally /\ tally \in Tallies
    BY <1>1, <1>4, OwnKeeps
  <2>2. matched = Unclaimed(heap.rows, id)
    <3>1. \A i \in DOMAIN heap.rows : heap.rows[i] \in Record
      BY <2>1 DEF EngineKeeps
    <3>2. \A i \in DOMAIN heap.rows :
            /\ SqlMatches(heap.rows[i], where) <=> heap.rows[i].id = id /\ heap.rows[i].n = 0
            /\ MongoMatches(heap.rows[i], where) <=> heap.rows[i].id = id /\ heap.rows[i].n = 0
      BY <3>1, SetSelects DEF where
    <3> QED
      BY <1>4, <3>2 DEF DbSelected, SqlFindMany, MongoFindMany, Unclaimed
  <2> HIDE DEF matched
  <2>3. t2 \in Tallies /\ EngineKeeps(DbUpdate(heap.rows, matched, [n |-> 1]), t2)
    BY <2>1, <2>2, EngineSetKeeps
  <2>4. PutCounted(c, [heap EXCEPT !.rows = DbUpdate(heap.rows, matched, [n |-> 1])], t2)
    BY <1>2, <1>4
  <2> HIDE DEF t2
  <2> QED
    BY <1>2, <1>4, <2>3, <2>4, EngineCounted
<1> QED
  BY <1>3, <1>4

LEMMA DeleteIInv ==
  ASSUME StoreIInv, NEW c \in Callers, NEW where, Delete(c, where) \/ DeleteMany(c, where)
  PROVE  StoreIInv'
<1>1. UNCHANGED <<kind, update, asked>>
  BY DEF Delete, DeleteMany, Call
<1>2. CASE kind = "memory"
  <2>1. OwnTally(c) \in Tallies /\ MemoryKeeps(Own(c), OwnTally(c))
    BY <1>2, OwnKeeps
  <2>2. PICK h : /\ Put(c, h)
                 /\ h \in {MemoryDelete(Own(c), where), MemoryDeleteMany(Own(c), where)}
    BY <1>2 DEF Delete, DeleteMany
  <2>3. MemoryKeeps(h, OwnTally(c))
    BY <2>1, <2>2, MemoryDeleteKeeps
  <2>4. PutCounted(c, h, OwnTally(c))
    <3>1. tx = [by |-> tx.by, heap |-> tx.heap, tally |-> tx.tally]
      BY DEF StoreIInv, Inv_Tx
    <3>2. [tx EXCEPT !.heap = h] = [tx EXCEPT !.heap = h, !.tally = tx.tally]
      BY <3>1
    <3> QED
      BY <2>2, <3>2 DEF Put, PutCounted, OwnTally
  <2> QED
    BY <1>1, <1>2, <2>1, <2>3, <2>4, MemoryStep
<1>3. CASE kind # "memory"
  <2>1. EngineKeeps(heap.rows, tally)
    BY <1>3 DEF StoreIInv, Inv_Engine
  <2>2. PICK S : PutRows(DbDelete(heap.rows, S))
    BY <1>3 DEF Delete, DeleteMany
  <2>3. EngineKeeps(DbDelete(heap.rows, S), tally)
    BY <2>1, DeleteKeeps
  <2>4. /\ tally' \in Tallies /\ tally' = tally /\ tx' = tx
        /\ update' \in [Callers -> Updates] /\ Writing(kind, update')
    BY <1>1, <2>2 DEF PutRows, StoreIInv, Inv_Types
  <2> QED
    BY <1>1, <1>3, <2>2, <2>3, <2>4, EngineStep DEF PutRows
<1> QED
  BY <1>2, <1>3

LEMMA TransactionIInv ==
  ASSUME StoreIInv, NEW c \in Callers, Begin(c) \/ Commit(c) \/ Rollback(c)
  PROVE  StoreIInv'
<1>1. UNCHANGED <<kind, update, asked>>
  BY DEF Begin, Commit, Rollback, Call
<1>2. kind = "memory"
  BY StorageAssumption, EmptyKeeps DEF Begin, Commit, Rollback, StoreIInv, Inv_Tx
<1>3. /\ MemoryKeeps(heap, tally) /\ MemoryKeeps(tx.heap, tx.tally)
      /\ tally \in Tallies /\ tx.tally \in Tallies
  BY <1>2 DEF StoreIInv, Inv_Memory, Inv_Types, Inv_Tx
<1>4. /\ NoTx = [by |-> NoTx.by, heap |-> NoTx.heap, tally |-> NoTx.tally]
      /\ NoTx.tally \in Tallies /\ MemoryKeeps(NoTx.heap, NoTx.tally)
  BY EmptyKeeps
<1>5. MemoryKeeps(heap', tally') /\ MemoryKeeps(tx'.heap, tx'.tally) /\ tally' \in Tallies /\ Inv_Tx'
  <2>1. CASE Begin(c)
    <3>1. PICK h : h = [rows |-> heap.rows, index |-> addToIndex(NoIndex, heap.rows, DOMAIN heap.rows)]
      OBVIOUS
    <3>2. tx' = [by |-> c, heap |-> h, tally |-> tally] /\ heap' = heap /\ tally' = tally
      BY <2>1, <3>1 DEF Begin
    <3>3. MemoryKeeps(h, tally)
      <4>1. Sound(heap.rows, heap.index) /\ Claimed(heap.rows, tally)
        BY <1>3 DEF MemoryKeeps
      <4>2. Sound(heap.rows, addToIndex(NoIndex, heap.rows, DOMAIN heap.rows))
        BY <4>1, CopySound
      <4> QED
        BY <3>1, <4>1, <4>2 DEF MemoryKeeps
    <3>4. Inv_Tx'
      BY <1>1, <1>2, <1>3, <3>2 DEF Inv_Tx
    <3> QED
      BY <1>3, <3>2, <3>3, <3>4
  <2>2. CASE Commit(c)
    <3>1. heap' = tx.heap /\ tally' = tx.tally /\ tx' = NoTx
      BY <2>2 DEF Commit
    <3> QED
      BY <1>3, <1>4, <3>1 DEF Inv_Tx
  <2>3. CASE Rollback(c)
    <3>1. heap' = heap /\ tally' = tally /\ tx' = NoTx
      BY <2>3 DEF Rollback
    <3> QED
      BY <1>3, <1>4, <3>1 DEF Inv_Tx
  <2> QED
    BY <2>1, <2>2, <2>3
<1>6. Inv_Types'
  <2>1. heap' = [rows |-> heap'.rows, index |-> heap'.index]
    BY <1>5 DEF MemoryKeeps
  <2> QED
    BY <1>1, <1>5, <2>1 DEF StoreIInv, Inv_Types
<1> QED
  BY <1>1, <1>2, <1>5, <1>6 DEF StoreIInv, Inv_Memory, Inv_Engine

LEMMA AskIInv ==
  ASSUME StoreIInv, Ask
  PROVE  StoreIInv'
<1>1. PICK r \in Record, where \in Queries : asked' = [record |-> r, where |-> where]
  BY DEF Ask
<1>2. /\ UNCHANGED <<kind, heap, tx, update, calls, tally>> /\ kind = "memory"
  BY DEF Ask
<1>3. asked'.record \in Record /\ asked'.where \in Queries
  BY <1>1
<1>4. Inv_Types'
  BY <1>2, <1>3 DEF StoreIInv, Inv_Types
<1> QED
  BY <1>2, <1>4 DEF StoreIInv, Inv_Tx, Inv_Memory, Inv_Engine

LEMMA NextStoreIInv == StoreIInv /\ [StorageNext]_storageVars => StoreIInv'
<1> SUFFICES ASSUME StoreIInv, [StorageNext]_storageVars PROVE StoreIInv'
  OBVIOUS
<1>1. CASE UNCHANGED storageVars
  <2>1. UNCHANGED <<kind, heap, tx, update, tally, asked>>
    BY <1>1 DEF storageVars
  <2>2. Inv_Types' /\ Inv_Tx' /\ Inv_Memory'
    BY <2>1 DEF StoreIInv, Inv_Types, Inv_Tx, Inv_Memory
  <2>3. Inv_Engine'
    BY <2>1 DEF StoreIInv, Inv_Engine, EngineKeeps, NoClash, Clash, Indexed
  <2> QED
    BY <2>2, <2>3 DEF StoreIInv
<1>2. CASE Ask
  BY <1>2, AskIInv
<1>3. ASSUME NEW c \in Callers, NEW r \in Record, Create(c, r) PROVE StoreIInv'
  BY <1>3, CreateIInv
<1>4. ASSUME NEW c \in Callers, NEW where \in Filters, Delete(c, where) \/ DeleteMany(c, where)
      PROVE  StoreIInv'
  BY <1>4, DeleteIInv
<1>5. ASSUME NEW c \in Callers, NEW where \in Filters, NEW set \in Values,
             Update(c, where, set) \/ SqlUpdateFind(c, where, set)
      PROVE  StoreIInv'
  BY <1>5, UpdateIInv, SqlUpdateIInv
<1>6. ASSUME NEW c \in Callers, SqlUpdateWrite(c) \/ SqlUpdateRead(c) PROVE StoreIInv'
  <2>1. [b |-> 1] \in Values
    BY DEF Values
  <2> QED
    BY <1>6, <2>1, SqlUpdateIInv
<1>7. ASSUME NEW c \in Callers, NEW id \in Ids, CompareAndSet(c, id) PROVE StoreIInv'
  BY <1>7, SetIInv
<1>8. ASSUME NEW c \in Callers, Begin(c) \/ Commit(c) \/ Rollback(c) PROVE StoreIInv'
  BY <1>8, TransactionIInv
<1> QED
  BY <1>1, <1>2, <1>3, <1>4, <1>5, <1>6, <1>7, <1>8 DEF StorageNext

LEMMA StoreInvariant == StorageSpec => []StoreIInv
<1> QED
  BY InitStoreIInv, NextStoreIInv, PTL DEF StorageSpec

\* A lookup through the memory adapter's index answers what a scan of the rows
\* would, in the store and in a transaction's copy.
THEOREM IndexHolds == StorageSpec => []IndexAgrees
<1>1. ASSUME StoreIInv, kind = "memory", NEW h \in {heap, tx.heap}, NEW f \in UniqueFields,
             NEW v \in DOMAIN h.index[f]
      PROVE  {r.id : r \in {s \in Rows(h) : s[f] = v}} = {lookupUnique(h, f, v)} \ {0}
  <2>1. Sound(h.rows, h.index)
    BY <1>1 DEF StoreIInv, Inv_Memory, MemoryKeeps
  <2>2. /\ h.rows \in Seq(Record) /\ v \in Indexable(f)
        /\ Entered(h.rows, h.index) /\ Pointing(h.rows, h.index)
    BY <1>1, <2>1 DEF Sound
  <2>3. v # Null
    BY <2>2, StorageAssumption DEF UniqueFields, Indexable
  <2>4. \A i \in DOMAIN h.rows : h.rows[i] \in Record /\ h.rows[i].id # 0
    BY <2>2, RecordFields
  <2>5. ASSUME NEW i \in DOMAIN h.rows, h.rows[i][f] = v
        PROVE  h.index[f][v] = h.rows[i].id
    BY <2>2, <2>3, <2>5 DEF Entered
  <2>6. h.index[f][v] # 0 => \E i \in DOMAIN h.rows : h.rows[i][f] = v
    BY <2>2 DEF Pointing
  <2>7. ASSUME NEW id \in {r.id : r \in {s \in Rows(h) : s[f] = v}}
        PROVE  id = h.index[f][v] /\ id # 0
    <3>1. PICK i \in DOMAIN h.rows : h.rows[i][f] = v /\ id = h.rows[i].id
      BY DEF Rows, Range
    <3> QED
      BY <2>4, <2>5, <3>1
  <2>8. ASSUME h.index[f][v] # 0
        PROVE  h.index[f][v] \in {r.id : r \in {s \in Rows(h) : s[f] = v}}
    <3>1. PICK i \in DOMAIN h.rows : h.rows[i][f] = v
      BY <2>6, <2>8
    <3>2. h.rows[i] \in Rows(h) /\ h.index[f][v] = h.rows[i].id
      BY <2>5, <3>1 DEF Rows, Range
    <3> QED
      BY <3>1, <3>2
  <2> QED
    BY <2>7, <2>8 DEF lookupUnique
<1>2. StoreIInv => IndexAgrees
  BY <1>1 DEF IndexAgrees
<1> QED
  BY <1>2, StoreInvariant, PTL

\* No two rows agree on a unique field or on a whole composite constraint, NULLs
\* aside, on any of the adapters.
THEOREM UniqueHolds == StorageSpec => []UniqueKept
<1> DEFINE KeysApart(rs) ==
      \A i, j \in DOMAIN rs : i # j =>
        /\ \A f \in UniqueFields : rs[i][f] = rs[j][f] => rs[i][f] = Null
        /\ \E k \in DOMAIN Constraint :
             LET v == rs[i][Constraint[k]] IN v = Null \/ v # rs[j][Constraint[k]]
<1>1. DOMAIN Constraint = {1, 2} /\ Constraint[1] = "a" /\ Constraint[2] = "b"
  BY DEF Constraint
<1>2. ASSUME NEW rs, NEW ix, Sound(rs, ix)
      PROVE  KeysApart(rs)
  <2> SUFFICES ASSUME NEW i \in DOMAIN rs, NEW j \in DOMAIN rs, i # j
               PROVE  /\ \A f \in UniqueFields : rs[i][f] = rs[j][f] => rs[i][f] = Null
                      /\ \E k \in DOMAIN Constraint :
                           rs[i][Constraint[k]] = Null
                           \/ rs[i][Constraint[k]] # rs[j][Constraint[k]]
    OBVIOUS
  <2>1. /\ rs \in Seq(Record) /\ DistinctIds(rs) /\ Apart(rs) /\ Entered(rs, ix)
    BY <1>2 DEF Sound
  <2>2. rs[i] \in Record /\ rs[j] \in Record /\ rs[i].id # rs[j].id
    BY <2>1 DEF DistinctIds
  <2>3. ASSUME NEW f \in UniqueFields, rs[i][f] = rs[j][f], rs[i][f] # Null PROVE FALSE
    BY <2>1, <2>2, <2>3 DEF Entered
  <2>4. \/ rs[i]["a"] = Null \/ rs[i]["b"] = Null
        \/ rs[i]["a"] # rs[j]["a"] \/ rs[i]["b"] # rs[j]["b"]
    BY <2>1, <2>2, RecordFields DEF Apart
  <2> QED
    BY <1>1, <2>3, <2>4
<1>3. ASSUME NEW rs, NoClash(rs)
      PROVE  KeysApart(rs)
  <2> SUFFICES ASSUME NEW i \in DOMAIN rs, NEW j \in DOMAIN rs, i # j
               PROVE  /\ \A f \in UniqueFields : rs[i][f] = rs[j][f] => rs[i][f] = Null
                      /\ \E k \in DOMAIN Constraint :
                           rs[i][Constraint[k]] = Null
                           \/ rs[i][Constraint[k]] # rs[j][Constraint[k]]
    OBVIOUS
  <2>1. ~ Clash(rs[i], rs[j])
    BY <1>3 DEF NoClash
  <2> QED
    BY <1>1, <2>1 DEF Clash, Indexed
<1>4. StoreIInv => KeysApart(heap.rows) /\ KeysApart(tx.heap.rows)
  <2>1. ASSUME StoreIInv, kind = "memory" PROVE KeysApart(heap.rows) /\ KeysApart(tx.heap.rows)
    <3>1. Sound(heap.rows, heap.index) /\ Sound(tx.heap.rows, tx.heap.index)
      BY <2>1 DEF StoreIInv, Inv_Memory, MemoryKeeps
    <3> HIDE DEF KeysApart
    <3> QED
      BY <1>2, <3>1
  <2>2. ASSUME StoreIInv, kind # "memory" PROVE KeysApart(heap.rows) /\ KeysApart(tx.heap.rows)
    <3>1. NoClash(heap.rows) /\ tx = NoTx
      BY <2>2 DEF StoreIInv, Inv_Engine, Inv_Tx, EngineKeeps
    <3>2. tx.heap.rows = Empty.rows /\ Sound(Empty.rows, Empty.index)
      BY <3>1, EmptySound DEF NoTx
    <3> HIDE DEF KeysApart
    <3> QED
      BY <1>2, <1>3, <3>1, <3>2
  <2> HIDE DEF KeysApart
  <2> QED
    BY <2>1, <2>2
<1>5. StoreIInv => UniqueKept
  BY <1>4 DEF UniqueKept
<1> QED
  BY <1>5, StoreInvariant, PTL

\* Of any number of callers that race for a row, UpdateMany tells no more that the
\* row was theirs than there were times that it was given at 0, in a transaction or
\* out of one, and whatever Updates of other columns are under way beside it.
THEOREM ClaimHolds == StorageSpec => []ClaimedOnce
<1>1. StoreIInv => ClaimedOnce
  <2>1. ASSUME StoreIInv, kind = "memory", NEW t \in {tally, tx.tally}, NEW i \in Ids
        PROVE  t.won[i] <= t.given[i]
    BY <2>1 DEF StoreIInv, Inv_Memory, MemoryKeeps, Claimed
  <2>2. ASSUME StoreIInv, kind # "memory", NEW t \in {tally, tx.tally}, NEW i \in Ids
        PROVE  t.won[i] <= t.given[i]
    <3>1. tx = NoTx
      BY <2>2 DEF StoreIInv, Inv_Tx
    <3>2. tx.tally = NoTally
      BY <3>1, EmptyKeeps
    <3> QED
      BY <2>2, <3>2, EmptyKeeps DEF StoreIInv, Inv_Engine, EngineKeeps, MemoryKeeps, Claimed
  <2> QED
    BY <2>1, <2>2 DEF ClaimedOnce
<1> QED
  BY <1>1, StoreInvariant, PTL

\* storage.Matches, SQL and MongoDB select the same records, for every record and
\* every list of clauses that is asked.
THEOREM FiltersHold == StorageSpec => []FiltersAgree
<1>1. StoreIInv => FiltersAgree
  <2> SUFFICES ASSUME StoreIInv, asked # NoQuestion,
                      \A k \in DOMAIN asked.where : ~ Ambiguous(asked.record, asked.where[k])
               PROVE  /\ Matches(asked.record, asked.where) = Meaning(asked.record, asked.where)
                      /\ SqlMatches(asked.record, asked.where) = Meaning(asked.record, asked.where)
                      /\ MongoMatches(asked.record, asked.where) = Meaning(asked.record, asked.where)
    BY DEF FiltersAgree
  <2>1. asked.record \in Record /\ asked.where \in Queries
    BY DEF StoreIInv, Inv_Types
  <2>2. PICK r, where : r = asked.record /\ where = asked.where
    OBVIOUS
  <2>3. where \in Seq(Range(where)) /\ \A k \in DOMAIN where : Askable(where[k])
    BY <2>1, <2>2, QueriesAssumption
  <2>4. \A k \in DOMAIN where : Askable(where[k]) /\ ~ Ambiguous(r, where[k])
    BY <2>2, <2>3
  <2>5. /\ Matches(r, where) = Meaning(r, where)
        /\ SqlMatches(r, where) = Meaning(r, where)
        /\ MongoMatches(r, where) = Meaning(r, where)
    BY <2>1, <2>2, <2>3, <2>4, AdaptersAgree
  <2> QED
    BY <2>2, <2>5
<1> QED
  BY <1>1, StoreInvariant, PTL

-----------------------------------------------------------------------------
(* Migrations: statements and batches *)

Ops == {"createTable", "addColumn", "addForeignKey", "index", "indexIfNotExists",
        "uniqueIfNotExists", "composite", "compositeIfNotExists"}
FieldNames == {""} \cup UNION {FieldsOf(t) : t \in Range(Tables)}
Statement == [op : Ops, table : Range(Tables), field : FieldNames]
NeedsColumn(s) == s.op \in {"index", "indexIfNotExists", "uniqueIfNotExists", "addForeignKey"}
ColumnOf(s) == Column(s.table, s.field)

\* A statement about a whole table names no field.
LEMMA Blank == "" \in FieldNames
BY DEF FieldNames

\* Objects are told apart by their parts.
LEMMA Parts ==
  /\ \A t : Table(t).kind = "table" /\ Table(t).table = t
  /\ \A t : CompositeOn(t).kind = "composite" /\ CompositeOn(t).table = t
  /\ \A t, f : /\ Column(t, f).kind = "column" /\ Column(t, f).table = t
              /\ Column(t, f).field = f
  /\ \A k, t, f : /\ Object(k, t, f).kind = k /\ Object(k, t, f).table = t
                 /\ Object(k, t, f).field = f
BY DEF Table, Column, CompositeOn, Object

\* A statement makes its target; all but two make nothing else.
LEMMA Effects ==
  ASSUME NEW e, NEW s \in Statement
  PROVE  /\ Target(s) \in Makes(e, s)
         /\ s.op \notin {"createTable", "addColumn"} => Makes(e, s) = {Target(s)}
<1>1. s.op \in Ops
  BY DEF Statement
<1>2. CASE s.op = "createTable"
  BY <1>2 DEF Target, Makes, CreatedWith
<1>3. CASE s.op = "addColumn"
  BY <1>3 DEF Target, Makes
<1>4. CASE s.op \notin {"createTable", "addColumn"}
  BY <1>1, <1>4 DEF Makes
<1> QED
  BY <1>2, <1>3, <1>4

\* What a batch goes through, one statement after the other.
Runs(e, d, q, f) ==
  /\ f = BatchStates(e, d, q)
  /\ f[0] = d
  /\ \A i \in 1 .. Len(q) : f[i] = After(e, f[i - 1], q[i])

\* BatchStates is what the recursion says it is.
LEMMA BatchRuns ==
  ASSUME NEW e, NEW d, NEW q \in Seq(Statement)
  PROVE  Runs(e, d, q, BatchStates(e, d, q))
<1> DEFINE n == Len(q)
           U == d \cup UNION {Makes(e, q[i]) : i \in 1 .. n}
           V == SUBSET U
           step == [i \in 1 .. n |-> [x \in V |-> After(e, x, q[i])]]
           G(f) == [i \in 0 .. n |-> IF i = 0 THEN d ELSE After(e, f[i - 1], q[i])]
           states == CHOOSE f : f = G(f)
<1>1. BatchStates(e, d, q) = states
  BY DEF BatchStates
<1>2. n \in Nat /\ d \in V
  OBVIOUS
<1>3. step \in [1 .. n -> [V -> V]]
  <2>1. ASSUME NEW i \in 1 .. n, NEW x \in V PROVE After(e, x, q[i]) \in V
    <3>1. Makes(e, q[i]) \subseteq U
      OBVIOUS
    <3> HIDE DEF U
    <3> QED
      BY <3>1 DEF After
  <2> HIDE DEF V, n
  <2> QED
    BY <2>1
<1>4. \A i \in 1 .. n, x \in V : step[i][x] = After(e, x, q[i])
  OBVIOUS
<1> HIDE DEF V, step, n
<1>5. PICK f : Recurs(f, n, V, d, step)
  BY <1>2, <1>3, Recursion
<1>6. f = G(f)
  <2>1. f \in [0 .. n -> V] /\ f[0] = d
    BY <1>5 DEF Recurs
  <2>2. ASSUME NEW i \in 0 .. n PROVE f[i] = IF i = 0 THEN d ELSE After(e, f[i - 1], q[i])
    <3>1. CASE i = 0
      BY <2>1, <3>1
    <3>2. CASE i # 0
      <4>1. i \in 1 .. n /\ i - 1 \in 0 .. n
        BY <1>2, <3>2
      <4>2. f[i - 1] \in V
        BY <2>1, <4>1
      <4>3. f[i] = step[i][f[i - 1]]
        BY <1>5, <4>1 DEF Recurs
      <4> QED
        BY <1>4, <3>2, <4>1, <4>2, <4>3
    <3> QED
      BY <3>1, <3>2
  <2> QED
    BY <2>1, <2>2
<1>7. states = G(states)
  <2> HIDE DEF G
  <2> QED
    BY <1>6
<1>8. \A i \in 0 .. n : states[i] = IF i = 0 THEN d ELSE After(e, states[i - 1], q[i])
  <2> HIDE DEF states
  <2> QED
    BY <1>7
<1> HIDE DEF states
<1>9. states[0] = d
  BY <1>2, <1>8
<1>10. ASSUME NEW i \in 1 .. n PROVE states[i] = After(e, states[i - 1], q[i])
  <2>1. i \in 0 .. n /\ i # 0
    BY <1>2
  <2> QED
    BY <1>8, <2>1
<1> QED
  BY <1>1, <1>9, <1>10 DEF Runs, n

\* What is there after i statements: what was, the targets of those statements,
\* and nothing that none of them makes.
Grown(e, d, q, f, i) ==
  /\ d \subseteq f[i]
  /\ \A h \in 1 .. i : Target(q[h]) \in f[i]
  /\ \A h \in 0 .. i : f[h] \subseteq f[i]
  /\ \A o \in f[i] : o \in d \/ \E h \in 1 .. i : o \in Makes(e, q[h])

\* A batch only adds, and adds what it is about.
LEMMA BatchGrows ==
  ASSUME NEW e, NEW d, NEW q \in Seq(Statement), NEW f, Runs(e, d, q, f)
  PROVE  \A i \in 0 .. Len(q) : Grown(e, d, q, f, i)
<1> DEFINE n == Len(q)
           T == {i \in 0 .. n : Grown(e, d, q, f, i)}
<1>1. n \in Nat
  OBVIOUS
<1>2. 0 \in T
  <2>1. f[0] = d
    BY DEF Runs
  <2> QED
    BY <1>1, <2>1 DEF Grown
<1>3. ASSUME NEW i \in 0 .. n, i \in T, i + 1 \in 0 .. n
      PROVE  i + 1 \in T
  <2>1. i + 1 \in 1 .. n /\ (i + 1) - 1 = i
    BY <1>1, <1>3
  <2>2. f[i + 1] = After(e, f[i], q[i + 1])
    BY <2>1 DEF Runs
  <2>3. q[i + 1] \in Statement
    BY <2>1
  <2>4. /\ Target(q[i + 1]) \in f[i + 1] /\ f[i] \subseteq f[i + 1]
        /\ \A o \in f[i + 1] : o \in f[i] \/ o \in Makes(e, q[i + 1])
    BY <2>2, <2>3, Effects DEF After
  <2>5. Grown(e, d, q, f, i)
    BY <1>3
  <2>6. \A h \in 1 .. i + 1 : h = i + 1 \/ h \in 1 .. i
    BY <1>1
  <2>7. \A h \in 0 .. i + 1 : h = i + 1 \/ h \in 0 .. i
    BY <1>1
  <2>8. \A h \in 1 .. i : h \in 1 .. i + 1
    BY <1>1
  <2>9. i + 1 \in 1 .. i + 1
    BY <1>1
  <2> HIDE DEF n
  <2>10. d \subseteq f[i + 1]
    BY <2>4, <2>5 DEF Grown
  <2>11. \A h \in 1 .. i + 1 : Target(q[h]) \in f[i + 1]
    BY <2>4, <2>5, <2>6 DEF Grown
  <2>12. \A h \in 0 .. i + 1 : f[h] \subseteq f[i + 1]
    BY <2>4, <2>5, <2>7 DEF Grown
  <2>13. \A o \in f[i + 1] : o \in d \/ \E h \in 1 .. i + 1 : o \in Makes(e, q[h])
    BY <2>4, <2>5, <2>8, <2>9 DEF Grown
  <2> QED
    BY <1>3, <2>10, <2>11, <2>12, <2>13 DEF Grown
<1> HIDE DEF T, n
<1>4. 0 .. n \subseteq T
  BY <1>1, <1>2, <1>3, Induction
<1> QED
  BY <1>4 DEF T, n

\* The statement at j makes something new, whatever the ones before it do.
New(e, d, q, j) ==
  Target(q[j]) \notin d /\ \A i \in 1 .. j - 1 : Target(q[j]) \notin Makes(e, q[i])

\* A list of statements that meets nothing in its way: what is not IF NOT EXISTS
\* is new, and a column is there when it is needed, or is made before.
Safe(e, d, q) ==
  \A j \in 1 .. Len(q) :
    /\ ~Idempotent(q[j]) => New(e, d, q, j)
    /\ NeedsColumn(q[j]) =>
         \/ ColumnOf(q[j]) \in d
         \/ \E i \in 1 .. j - 1 : ColumnOf(q[j]) \in Makes(e, q[i]) /\ New(e, d, q, i)

\* No statement of p makes what one of q is about.
Separate(e, p, q) ==
  \A i \in 1 .. Len(p), j \in 1 .. Len(q) : Target(q[j]) \notin Makes(e, p[i])

\* How one statement finds the database when nothing is in its way.
Clear(d, s) ==
  /\ Idempotent(s) \/ Target(s) \notin d
  /\ NeedsColumn(s) => ColumnOf(s) \in d

\* Each statement of a safe batch has nothing in its way when its turn comes.
LEMMA SafeRuns ==
  ASSUME NEW e, NEW d, NEW q \in Seq(Statement), NEW f, Runs(e, d, q, f), Safe(e, d, q),
         NEW j \in 1 .. Len(q)
  PROVE  Clear(f[j - 1], q[j])
<1> DEFINE n == Len(q)
<1>1. n \in Nat /\ j \in 1 .. n /\ j - 1 \in 0 .. n
  OBVIOUS
<1>2. Grown(e, d, q, f, j - 1)
  BY <1>1, BatchGrows
<1>3. ASSUME NEW i \in 1 .. j, New(e, d, q, i) PROVE Target(q[i]) \notin f[i - 1]
  <2>1. i - 1 \in 0 .. n
    BY <1>1
  <2>2. Grown(e, d, q, f, i - 1)
    BY <2>1, BatchGrows
  <2> QED
    BY <1>3, <2>2 DEF Grown, New
<1>4. ~Idempotent(q[j]) => Target(q[j]) \notin f[j - 1]
  <2>1. j \in 1 .. j
    BY <1>1
  <2> QED
    BY <1>1, <1>3, <2>1 DEF Safe
<1>5. ASSUME NeedsColumn(q[j]) PROVE ColumnOf(q[j]) \in f[j - 1]
  <2>1. CASE ColumnOf(q[j]) \in d
    BY <1>2, <2>1 DEF Grown
  <2>2. CASE ColumnOf(q[j]) \notin d
    <3>1. PICK i \in 1 .. j - 1 : ColumnOf(q[j]) \in Makes(e, q[i]) /\ New(e, d, q, i)
      BY <1>5, <2>2 DEF Safe
    <3>2. i \in 1 .. n /\ i \in 1 .. j /\ i \in 0 .. j - 1
      BY <1>1
    <3>3. f[i] = After(e, f[i - 1], q[i])
      BY <3>2 DEF Runs
    <3>4. ColumnOf(q[j]) \in f[i]
      BY <1>3, <3>1, <3>2, <3>3 DEF After
    <3>5. f[i] \subseteq f[j - 1]
      BY <1>2, <3>2 DEF Grown
    <3> QED
      BY <3>4, <3>5
  <2> QED
    BY <2>1, <2>2
<1> QED
  BY <1>4, <1>5 DEF Clear

\* Then only rows can refuse it.
LEMMA ClearAnswer ==
  ASSUME NEW d, NEW s, Clear(d, s)
  PROVE  Answer(d, s) \in {"ok", "duplicates"}
<1>1. CASE Target(s) \in d
  BY <1>1 DEF Answer, Clear
<1>2. CASE Target(s) \notin d /\ Target(s) \in dups
  BY <1>2 DEF Answer
<1>3. CASE Target(s) \notin d /\ Target(s) \notin dups
  BY <1>3 DEF Answer, Clear, NeedsColumn, ColumnOf
<1> QED
  BY <1>1, <1>2, <1>3

\* The answer of a batch is that of one of its statements, or "ok".
LEMMA FirstAnswer ==
  ASSUME NEW d, NEW q \in Seq(Statement), NEW S, "ok" \in S,
         \A i \in 1 .. Len(q) : Answer(BatchStates(dialect, d, q)[i - 1], q[i]) \in S
  PROVE  BatchAnswer(d, q) \in S
<1> DEFINE states == BatchStates(dialect, d, q)
           answer(i) == Answer(states[i - 1], q[i])
           bad == {i \in DOMAIN q : answer(i) # "ok"}
           first == CHOOSE i \in bad : \A j \in bad : i <= j
<1>1. \A i \in DOMAIN q : answer(i) \in S
  OBVIOUS
<1>2. BatchAnswer(d, q) = IF bad = {} THEN "ok" ELSE answer(first)
  BY DEF BatchAnswer
<1>3. bad # {} => first \in bad
  <2> SUFFICES ASSUME bad # {} PROVE first \in bad
    OBVIOUS
  <2>1. bad \subseteq Nat
    OBVIOUS
  <2> HIDE DEF bad
  <2>2. PICK i \in bad : \A j \in bad : i <= j
    BY <2>1, Least
  <2> QED
    BY <2>2
<1>4. \A i \in bad : i \in DOMAIN q
  OBVIOUS
<1> HIDE DEF bad, first, answer
<1> QED
  BY <1>1, <1>2, <1>3, <1>4

\* And so the batch.
LEMMA SafeAnswer ==
  ASSUME NEW d, NEW q \in Seq(Statement), Safe(dialect, d, q)
  PROVE  BatchAnswer(d, q) \in {"ok", "duplicates"}
<1> DEFINE f == BatchStates(dialect, d, q)
<1>1. Runs(dialect, d, q, f)
  BY BatchRuns
<1> HIDE DEF f
<1>2. ASSUME NEW i \in 1 .. Len(q) PROVE Answer(f[i - 1], q[i]) \in {"ok", "duplicates"}
  <2>1. Clear(f[i - 1], q[i])
    BY <1>1, SafeRuns
  <2> QED
    BY <2>1, ClearAnswer
<1> DEFINE S == {"ok", "duplicates"}
<1>3. "ok" \in S /\ \A i \in 1 .. Len(q) : Answer(BatchStates(dialect, d, q)[i - 1], q[i]) \in S
  BY <1>2 DEF f
<1> HIDE DEF S
<1>4. BatchAnswer(d, q) \in S
  BY <1>3, FirstAnswer
<1> QED
  BY <1>4 DEF S

\* What CREATE TABLE makes, piece by piece.
LEMMA Created ==
  ASSUME NEW e, NEW t, NEW o \in CreatedWith(e, t)
  PROVE  \/ o = Table(t) \/ o = CompositeOn(t)
         \/ \E f \in FieldsOf(t) : \/ o = Column(t, f) \/ o = Object("unique", t, f)
                                  \/ o = Object("fk", t, f) \/ o = Object("index", t, f)
<1> DEFINE C == IF Composite[t] # {} THEN {CompositeOn(t)} ELSE {}
           I == {Object("index", t, f) : f \in {g \in FieldsOf(t) : <<t, g>> \in Index \ Unique}}
<1>1. \/ o \in {Table(t)} \/ o \in {Column(t, f) : f \in FieldsOf(t)}
      \/ o \in {Object("unique", t, f) : f \in {g \in FieldsOf(t) : <<t, g>> \in Unique}}
      \/ o \in {Object("fk", t, f) : f \in {g \in FieldsOf(t) : <<t, g>> \in References}}
      \/ o \in C \/ o \in (IF e # "mysql" THEN {} ELSE I)
  BY DEF CreatedWith
<1>2. o \in C => o = CompositeOn(t)
  OBVIOUS
<1>3. o \in (IF e # "mysql" THEN {} ELSE I) => o \in I
  OBVIOUS
<1> HIDE DEF C
<1> QED
  BY <1>1, <1>2, <1>3

\* What the other statements make.
LEMMA AddedThings ==
  ASSUME NEW e, NEW s \in Statement, s.op # "createTable", NEW o \in Makes(e, s)
  PROVE  \/ o = Target(s)
         \/ s.op = "addColumn" /\ o = Object("unique", s.table, s.field)
         \/ s.op = "addColumn" /\ e # "mysql" /\ o = Object("fk", s.table, s.field)
<1>1. CASE s.op = "addColumn"
  <2> DEFINE A == IF <<s.table, s.field>> \in Unique /\ e # "sqlite"
                  THEN {Object("unique", s.table, s.field)} ELSE {}
             B == IF <<s.table, s.field>> \in References /\ e # "mysql"
                  THEN {Object("fk", s.table, s.field)} ELSE {}
  <2>1. Makes(e, s) = ({Target(s)} \cup A) \cup B
    BY <1>1 DEF Makes
  <2>2. o \in A => o = Object("unique", s.table, s.field)
    OBVIOUS
  <2>3. o \in B => e # "mysql" /\ o = Object("fk", s.table, s.field)
    OBVIOUS
  <2> HIDE DEF A, B
  <2> QED
    BY <1>1, <2>1, <2>2, <2>3
<1>2. CASE s.op # "addColumn"
  BY <1>2, Effects
<1> QED
  BY <1>1, <1>2

\* What each statement is about.
LEMMA Targets ==
  ASSUME NEW s \in Statement
  PROVE  /\ s.op = "createTable" => Target(s) = Table(s.table)
         /\ s.op = "addColumn" => Target(s) = Column(s.table, s.field)
         /\ s.op = "addForeignKey" => Target(s) = Object("fk", s.table, s.field)
         /\ s.op \in {"index", "indexIfNotExists"} => Target(s) = Object("index", s.table, s.field)
         /\ s.op = "uniqueIfNotExists" => Target(s) = Object("unique", s.table, s.field)
         /\ s.op \in {"composite", "compositeIfNotExists"} => Target(s) = CompositeOn(s.table)
         /\ s.op \in Ops
BY DEF Target, Statement

\* Which statements make a column, and which a table.
LEMMA MakesColumn ==
  ASSUME NEW e, NEW s \in Statement, NEW t, NEW f, Column(t, f) \in Makes(e, s)
  PROVE  /\ t = s.table
         /\ \/ s.op = "createTable" /\ f \in FieldsOf(t)
            \/ s.op = "addColumn" /\ f = s.field
<1>1. CASE s.op = "createTable"
  <2>1. Column(t, f) \in CreatedWith(e, s.table)
    BY <1>1 DEF Makes
  <2>2. \E g \in FieldsOf(s.table) : Column(t, f) = Column(s.table, g)
    BY <2>1, Created, Parts
  <2> QED
    BY <1>1, <2>2, Parts
<1>2. CASE s.op # "createTable"
  <2>1. Column(t, f) = Target(s)
    BY <1>2, AddedThings, Parts
  <2>2. s.op = "addColumn"
    BY <1>2, <2>1, Targets, Parts DEF Ops
  <2> QED
    BY <2>1, <2>2, Targets, Parts
<1> QED
  BY <1>1, <1>2

LEMMA MakesTable ==
  ASSUME NEW e, NEW s \in Statement, NEW t, Table(t) \in Makes(e, s)
  PROVE  s.op = "createTable" /\ t = s.table
<1>1. CASE s.op = "createTable"
  <2>1. Table(t) \in CreatedWith(e, s.table)
    BY <1>1 DEF Makes
  <2>2. Table(t) = Table(s.table)
    BY <2>1, Created, Parts
  <2> QED
    BY <1>1, <2>2, Parts
<1>2. CASE s.op # "createTable"
  <2>1. Table(t) = Target(s)
    BY <1>2, AddedThings, Parts
  <2> QED
    BY <1>2, <2>1, Targets, Parts DEF Ops
<1> QED
  BY <1>1, <1>2

\* On MySQL an index or a foreign key is made with its column or needs it.
LEMMA MakesKey ==
  ASSUME NEW s \in Statement, NEW o \in Makes("mysql", s), o.kind \in {"index", "fk"}
  PROVE  \/ s.op = "createTable" /\ o.table = s.table /\ o.field \in FieldsOf(s.table)
         \/ NeedsColumn(s) /\ o.table = s.table /\ o.field = s.field
<1>1. CASE s.op = "createTable"
  <2>1. o \in CreatedWith("mysql", s.table)
    BY <1>1 DEF Makes
  <2> QED
    BY <1>1, <2>1, Created, Parts
<1>2. CASE s.op # "createTable"
  <2>1. o = Target(s) \/ o = Object("unique", s.table, s.field)
    BY <1>2, AddedThings
  <2>2. o = Target(s)
    BY <2>1, Parts
  <2>3. s.op \notin {"addColumn", "composite", "compositeIfNotExists"}
    BY <2>2, Targets, Parts
  <2>4. s.op \in {"addForeignKey", "index", "indexIfNotExists", "uniqueIfNotExists"}
    BY <1>2, <2>3, Targets DEF Ops
  <2> QED
    BY <2>2, <2>3, <2>4, Targets, Parts DEF NeedsColumn
<1> QED
  BY <1>1, <1>2

\* The databases that a deploy comes to: a unique column without its constraint was
\* found that way.
DeployedOn(e, d) ==
  /\ LeftBehind(e, d)
  /\ e # "sqlite" =>
       \A p \in Unique : Column(p[1], p[2]) \in d => Object("unique", p[1], p[2]) \in d \cup NeverMade

\* A statement with nothing in its way leaves such a database.
LEMMA Leaves ==
  ASSUME NEW e, NEW d, NEW s \in Statement, DeployedOn(e, d),
         NeedsColumn(s) => ColumnOf(s) \in d
  PROVE  DeployedOn(e, After(e, d, s))
<1> DEFINE a == After(e, d, s)
<1>1. CASE Target(s) \in d
  BY <1>1 DEF After
<1>2. CASE Target(s) \notin d
  <2>1. a = d \cup Makes(e, s) /\ s.op \in Ops /\ s.table \in Range(Tables)
    BY <1>2 DEF After, Statement
  <2> HIDE DEF a
  <2>2. ASSUME e # "sqlite", NEW p \in Unique, Column(p[1], p[2]) \in a
        PROVE  Object("unique", p[1], p[2]) \in a \cup NeverMade
    <3>1. CASE Column(p[1], p[2]) \in d
      BY <2>1, <2>2, <3>1 DEF DeployedOn, LeftBehind
    <3>2. CASE Column(p[1], p[2]) \in Makes(e, s)
      <4>1. /\ p[1] = s.table /\ p = <<p[1], p[2]>>
            /\ \/ s.op = "createTable" /\ p[2] \in FieldsOf(s.table)
               \/ s.op = "addColumn" /\ p[2] = s.field
        BY <3>2, MakesColumn, SchemaAssumption
      <4>2. CASE s.op = "createTable"
        <5>1. Object("unique", p[1], p[2]) \in CreatedWith(e, s.table)
          BY <4>1, <4>2 DEF CreatedWith
        <5> QED
          BY <2>1, <4>2, <5>1 DEF Makes
      <4>3. CASE s.op = "addColumn"
        BY <2>1, <2>2, <4>1, <4>3 DEF Makes
      <4> QED
        BY <4>1, <4>2, <4>3
    <3> QED
      BY <2>1, <2>2, <3>1, <3>2
  <2>3. ASSUME e = "mysql", NEW o \in a, o.kind \in {"index", "fk"}
        PROVE  Column(o.table, o.field) \in a
    <3>1. CASE o \in d
      BY <2>1, <2>3, <3>1 DEF DeployedOn, LeftBehind
    <3>2. CASE o \in Makes(e, s)
      <4>1. CASE s.op = "createTable" /\ o.table = s.table /\ o.field \in FieldsOf(s.table)
        <5>1. Column(o.table, o.field) \in CreatedWith(e, s.table)
          BY <4>1 DEF CreatedWith
        <5> QED
          BY <2>1, <4>1, <5>1 DEF Makes
      <4>2. CASE NeedsColumn(s) /\ o.table = s.table /\ o.field = s.field
        BY <2>1, <4>2 DEF ColumnOf
      <4> QED
        BY <2>3, <3>2, <4>1, <4>2, MakesKey
    <3> QED
      BY <2>1, <3>1, <3>2
  <2>4. ASSUME e = "postgres", NEW u \in Range(Tables), Table(u) \in a,
               NEW f \in FieldsOf(u), <<u, f>> \in Index \ Unique
        PROVE  Column(u, f) \in a
    <3>1. CASE Table(u) \in d
      BY <2>1, <2>4, <3>1 DEF DeployedOn, LeftBehind
    <3>2. CASE Table(u) \in Makes(e, s)
      <4>1. s.op = "createTable" /\ u = s.table
        BY <3>2, MakesTable
      <4>2. Column(u, f) \in CreatedWith(e, s.table)
        BY <4>1 DEF CreatedWith
      <4> QED
        BY <2>1, <4>1, <4>2 DEF Makes
    <3> QED
      BY <2>1, <2>4, <3>1, <3>2
  <2> QED
    BY <2>2, <2>3, <2>4 DEF DeployedOn, LeftBehind, a
<1> QED
  BY <1>1, <1>2

\* So does a batch; on SQLite there is nothing to leave behind.
LEMMA SafeLeaves ==
  ASSUME NEW e, NEW d, NEW q \in Seq(Statement), DeployedOn(e, d),
         e # "sqlite" => Safe(e, d, q)
  PROVE  DeployedOn(e, BatchAfter(e, d, q))
<1> DEFINE n == Len(q)
           f == BatchStates(e, d, q)
           T == {i \in 0 .. n : DeployedOn(e, f[i])}
<1>1. n \in Nat /\ BatchAfter(e, d, q) = f[n]
  BY DEF BatchAfter
<1>2. Runs(e, d, q, f)
  BY BatchRuns
<1> HIDE DEF f
<1>3. CASE e = "sqlite"
  BY <1>1, <1>3 DEF DeployedOn, LeftBehind
<1>4. CASE e # "sqlite"
  <2>1. 0 \in T
    BY <1>1, <1>2 DEF Runs
  <2>2. ASSUME NEW i \in 0 .. n, i \in T, i + 1 \in 0 .. n PROVE i + 1 \in T
    <3>1. i + 1 \in 1 .. n /\ (i + 1) - 1 = i
      BY <1>1, <2>2
    <3>2. f[i + 1] = After(e, f[i], q[i + 1]) /\ q[i + 1] \in Statement
      BY <1>2, <3>1 DEF Runs
    <3>3. Clear(f[(i + 1) - 1], q[i + 1])
      BY <1>2, <1>4, <3>1, SafeRuns
    <3>4. DeployedOn(e, f[i])
      BY <2>2
    <3>5. DeployedOn(e, f[i + 1])
      BY <3>1, <3>2, <3>3, <3>4, Leaves DEF Clear
    <3> QED
      BY <2>2, <3>5
  <2> HIDE DEF T, n
  <2>3. 0 .. n \subseteq T
    BY <1>1, <2>1, <2>2, Induction
  <2> QED
    BY <1>1, <2>3 DEF T
<1> QED
  BY <1>3, <1>4

-----------------------------------------------------------------------------
(* Migrations: what a look at the database makes a boot do *)

\* A list of the members of S, each once.
Lists(fs, S) ==
  /\ fs \in Seq(S)
  /\ \A k, l \in 1 .. Len(fs) : fs[k] = fs[l] => k = l
  /\ \A x \in S : \E k \in 1 .. Len(fs) : fs[k] = x

\* FieldsIn is one.
LEMMA FieldsInLists ==
  ASSUME NEW t \in Range(Tables), NEW F \in SUBSET FieldsOf(t)
  PROVE  Lists(FieldsIn(t, F), F)
<1> DEFINE s == Fields[t]
           n == Len(s)
           at == {i \in DOMAIN s : s[i] \in F}
           rank(i) == Cardinality({j \in at : j < i})
           m == Cardinality(at)
           pos == [k \in 1 .. m |-> CHOOSE i \in at : rank(i) = k - 1]
           fs == FieldsIn(t, F)
<1>1. s \in Seq(FieldsOf(t)) /\ n \in Nat /\ DOMAIN s = 1 .. n /\ IsInjective(s)
  BY SchemaAssumption
<1>2. at \subseteq 1 .. n
  BY <1>1
<1>3. /\ m \in Nat
      /\ \A i \in at : rank(i) + 1 \in 1 .. m
      /\ \A k \in 1 .. m : \E i \in at : rank(i) = k - 1
      /\ \A i, j \in at : rank(i) = rank(j) => i = j
  <2> HIDE DEF at
  <2> QED
    BY <1>1, <1>2, Ranks
<1>4. fs = [k \in 1 .. m |-> s[CHOOSE i \in at : rank(i) = k - 1]]
  BY DEF FieldsIn
<1>12. \A i \in at : rank(i) \in Nat
  <2>1. ASSUME NEW i \in at PROVE rank(i) \in Nat
    <3>1. IsFiniteSet(1 .. n) /\ {j \in at : j < i} \subseteq 1 .. n
      BY <1>1, <1>2, FS_Interval
    <3> QED
      BY <3>1, FS_Subset, FS_CardinalityType
  <2> QED
    BY <2>1
<1> HIDE DEF rank, m
<1>5. \A k \in 1 .. m : pos[k] \in at /\ rank(pos[k]) = k - 1
  BY <1>3
<1>6. DOMAIN fs = 1 .. m /\ \A k \in 1 .. m : fs[k] = s[pos[k]]
  BY <1>4
<1>7. \A i \in at : s[i] \in F /\ i \in DOMAIN s
  OBVIOUS
<1> HIDE DEF pos
<1>8. fs \in [1 .. m -> F]
  <2>1. fs = [k \in 1 .. m |-> s[pos[k]]]
    BY <1>4 DEF pos
  <2> QED
    BY <1>5, <1>7, <2>1
<1>9. fs \in Seq(F) /\ Len(fs) = m
  <2> HIDE DEF fs
  <2> QED
    BY <1>3, <1>8
<1>10. ASSUME NEW k \in 1 .. m, NEW l \in 1 .. m, fs[k] = fs[l] PROVE k = l
  <2>1. s[pos[k]] = s[pos[l]] /\ pos[k] \in DOMAIN s /\ pos[l] \in DOMAIN s
    BY <1>5, <1>6, <1>7, <1>10
  <2>2. pos[k] = pos[l]
    BY <1>1, <2>1 DEF IsInjective
  <2>3. k - 1 = l - 1
    BY <1>5, <2>2
  <2> QED
    BY <1>3, <2>3
<1>11. ASSUME NEW x \in F PROVE \E k \in 1 .. m : fs[k] = x
  <2>1. PICK i \in DOMAIN s : s[i] = x
    BY DEF FieldsOf, Range
  <2>2. i \in at
    BY <2>1
  <2> DEFINE k == rank(i) + 1
  <2>3. k \in 1 .. m /\ rank(i) = k - 1
    BY <1>3, <1>12, <2>2
  <2> HIDE DEF k
  <2>4. pos[k] = i
    BY <1>3, <1>5, <2>2, <2>3
  <2> QED
    BY <1>6, <2>1, <2>3, <2>4
<1> QED
  BY <1>9, <1>10, <1>11 DEF Lists

\* A statement for each field of a list.
LEMMA EachStatement ==
  ASSUME NEW op \in Ops, NEW t \in Range(Tables), NEW F \in SUBSET FieldsOf(t), NEW fs, Lists(fs, F)
  PROVE  /\ Each(op, t, fs) \in Seq(Statement) /\ Len(Each(op, t, fs)) = Len(fs)
         /\ \A k \in 1 .. Len(fs) : Each(op, t, fs)[k] = Stmt(op, t, fs[k])
<1>1. Len(fs) \in Nat /\ DOMAIN fs = 1 .. Len(fs) /\ \A k \in 1 .. Len(fs) : fs[k] \in F
  BY DEF Lists
<1>2. \A f \in F : f \in FieldNames
  BY DEF FieldNames
<1>3. \A k \in 1 .. Len(fs) : Stmt(op, t, fs[k]) \in Statement
  BY <1>1, <1>2 DEF Statement, Stmt
<1>4. Each(op, t, fs) = [k \in 1 .. Len(fs) |-> Stmt(op, t, fs[k])]
  BY <1>1 DEF Each
<1> QED
  BY <1>1, <1>3, <1>4

\* The batch that adds a column: the column first, and then what needs it, each
\* only once; of that, what is not IF NOT EXISTS is for MySQL.
Adds(e, t, f, q) ==
  /\ q \in Seq(Statement) /\ Len(q) >= 1 /\ q[1] = Stmt("addColumn", t, f)
  /\ \A j \in 1 .. Len(q) : q[j].table = t /\ q[j].field = f
  /\ \A j \in 2 .. Len(q) :
       /\ NeedsColumn(q[j])
       /\ ~Idempotent(q[j]) => e = "mysql" /\ q[j].op \in {"addForeignKey", "index"}
  /\ \A i, j \in 1 .. Len(q) : Target(q[i]).kind = Target(q[j]).kind => i = j

\* AddColumnSQL is one, on every engine.
LEMMA AddColumnAdds ==
  ASSUME NEW t \in Range(Tables), NEW f \in FieldsOf(t)
  PROVE  Adds(dialect, t, f, AddColumnSQL(t, f))
<1> DEFINE c == Stmt("addColumn", t, f)
           k == Stmt("addForeignKey", t, f)
           u == Stmt("uniqueIfNotExists", t, f)
           i == addIndexSQL(t, f)
           q == AddColumnSQL(t, f)
<1>1. c \in Statement /\ k \in Statement /\ u \in Statement /\ i \in Statement
  BY DEF Statement, Stmt, FieldNames, Ops, addIndexSQL
<1>2. /\ c.op = "addColumn" /\ k.op = "addForeignKey" /\ u.op = "uniqueIfNotExists"
      /\ i.op \in {"index", "indexIfNotExists"} /\ (i.op = "index" => dialect = "mysql")
  BY DEF Stmt, addIndexSQL
<1>3. \A s \in {c, k, u, i} : s.table = t /\ s.field = f
  BY DEF Stmt, addIndexSQL
<1>4. NeedsColumn(k) /\ NeedsColumn(u) /\ NeedsColumn(i) /\ Idempotent(u)
  BY <1>2 DEF NeedsColumn, Idempotent
<1>5. ~Idempotent(i) => i.op = "index"
  BY <1>2 DEF Idempotent
<1> HIDE DEF c, k, u, i
<1>6. /\ q \in Seq(Statement) /\ Len(q) >= 1 /\ q[1] = c
      /\ \A j \in 2 .. Len(q) :
           (q[j] = k /\ j = 2 /\ dialect = "mysql") \/ (q[j] \in {u, i} /\ j = Len(q))
  <2> DEFINE A == IF <<t, f>> \in References /\ dialect = "mysql" THEN <<k>> ELSE <<>>
             B == IF <<t, f>> \in Unique /\ dialect = "sqlite" THEN <<u>>
                  ELSE IF <<t, f>> \in Index /\ <<t, f>> \notin Unique THEN <<i>> ELSE <<>>
             X == <<c>> \o A
  <2>1. q = X \o B
    BY DEF AddColumnSQL, c, k, u, i
  <2>2. A = <<>> \/ (A = <<k>> /\ dialect = "mysql")
    OBVIOUS
  <2>3. B = <<>> \/ B = <<u>> \/ B = <<i>>
    OBVIOUS
  <2> HIDE DEF A, B, q
  <2>4. /\ A \in Seq(Statement) /\ Len(A) \in {0, 1}
        /\ Len(A) = 1 => A[1] = k /\ dialect = "mysql"
    <3>1. CASE A = <<>>
      BY <3>1
    <3>2. CASE A = <<k>> /\ dialect = "mysql"
      BY <1>1, <3>2
    <3> QED
      BY <2>2, <3>1, <3>2
  <2>5. /\ B \in Seq(Statement) /\ Len(B) \in {0, 1}
        /\ Len(B) = 1 => B[1] \in {u, i}
    <3>1. CASE B = <<>>
      BY <3>1
    <3>2. CASE B = <<u>>
      BY <1>1, <3>2
    <3>3. CASE B = <<i>>
      BY <1>1, <3>3
    <3> QED
      BY <2>3, <3>1, <3>2, <3>3
  <2>6. <<c>> \in Seq(Statement) /\ Len(<<c>>) = 1 /\ <<c>>[1] = c
    BY <1>1
  <2>7. /\ X \in Seq(Statement) /\ Len(X) = 1 + Len(A) /\ X[1] = c
        /\ Len(A) = 1 => X[2] = k
    BY <2>4, <2>6, ConcatProperties
  <2> HIDE DEF X
  <2>8. /\ q \in Seq(Statement) /\ Len(q) = Len(X) + Len(B)
        /\ \A j \in 1 .. Len(q) : q[j] = IF j <= Len(X) THEN X[j] ELSE B[j - Len(X)]
    BY <2>1, <2>5, <2>7, ConcatProperties
  <2>9. Len(q) >= 1 /\ q[1] = c
    BY <2>4, <2>5, <2>7, <2>8
  <2>10. ASSUME NEW j \in 2 .. Len(q)
         PROVE  (q[j] = k /\ j = 2 /\ dialect = "mysql") \/ (q[j] \in {u, i} /\ j = Len(q))
    <3>1. CASE j <= Len(X)
      <4> DEFINE n == Len(A)
      <4>3. n \in {0, 1} /\ j \in Int /\ 2 <= j /\ j <= 1 + n
        BY <2>4, <2>5, <2>7, <2>8, <3>1
      <4> HIDE DEF n
      <4>4. n = 1 /\ j = 2
        BY <4>3
      <4>1. Len(A) = 1 /\ j = 2
        BY <4>4 DEF n
      <4>2. q[j] = X[2]
        BY <2>5, <2>7, <2>8, <3>1, <4>1
      <4> QED
        BY <2>4, <2>7, <4>1, <4>2
    <3>2. CASE ~(j <= Len(X))
      <4> DEFINE x == Len(X)
                 n == Len(B)
      <4>4. n \in {0, 1} /\ x \in Int /\ j \in Int /\ j <= x + n /\ ~(j <= x) /\ Len(q) = x + n
        BY <2>4, <2>5, <2>7, <2>8, <3>2
      <4> HIDE DEF x, n
      <4>5. n = 1 /\ j = Len(q) /\ j - x = 1
        BY <4>4
      <4>1. Len(B) = 1 /\ j = Len(q) /\ j - Len(X) = 1
        BY <4>5 DEF x, n
      <4>2. j \in 1 .. Len(q)
        BY <2>8
      <4>3. q[j] = B[1]
        BY <2>8, <3>2, <4>1, <4>2
      <4> QED
        BY <2>5, <4>1, <4>3
    <3> QED
      BY <3>1, <3>2
  <2> QED
    BY <2>8, <2>9, <2>10
<1> HIDE DEF q
<1>7. Len(q) \in Nat /\ \A j \in 1 .. Len(q) : j = 1 \/ j \in 2 .. Len(q)
  BY <1>6
<1>8. \A j \in 1 .. Len(q) : q[j].table = t /\ q[j].field = f
  BY <1>3, <1>6, <1>7
<1>9. \A j \in 2 .. Len(q) : NeedsColumn(q[j])
  BY <1>4, <1>6
<1>10. \A j \in 2 .. Len(q) :
         ~Idempotent(q[j]) => dialect = "mysql" /\ q[j].op \in {"addForeignKey", "index"}
  BY <1>2, <1>4, <1>5, <1>6
<1>13. /\ Target(c).kind = "column" /\ Target(k).kind = "fk" /\ Target(u).kind = "unique"
       /\ Target(i).kind = "index"
  BY <1>1, <1>2, Targets, Parts
<1>14. \A j \in 1 .. Len(q) :
         \/ j = 1 /\ Target(q[j]).kind = "column"
         \/ j = 2 /\ Target(q[j]).kind = "fk"
         \/ j = Len(q) /\ Target(q[j]).kind \in {"unique", "index"}
  BY <1>6, <1>7, <1>13
<1>11. ASSUME NEW j \in 1 .. Len(q), NEW l \in 1 .. Len(q), Target(q[j]).kind = Target(q[l]).kind
       PROVE  j = l
  BY <1>11, <1>14
<1>12. Adds(dialect, t, f, q)
  BY <1>6, <1>8, <1>9, <1>10, <1>11 DEF Adds, c
<1> QED
  BY <1>12 DEF q

-----------------------------------------------------------------------------
(* Migrations: what a pass is for, and what it does for it *)

\* What a pass of Migrate sees to at table t.
Goal(e, p, t) ==
  CASE p = 1 -> {Table(t)}
    [] p = 2 -> {Column(t, f) : f \in FieldsOf(t)}
    [] p = 3 -> IF e = "sqlite"
                THEN {Object("unique", t, f) : f \in {g \in FieldsOf(t) : <<t, g>> \in Unique}}
                ELSE {}
    [] p = 4 -> IF Composite[t] # {} THEN {CompositeOn(t)} ELSE {}

Owes(todo, o) ==
  \E k \in 1 .. Len(todo) : \E j \in 1 .. Len(todo[k]) : Target(todo[k][j]) = o

\* Batches that meet nothing in their way, one after the other.
Sure(e, d, todo) ==
  /\ \A k \in 1 .. Len(todo) : Safe(e, d, todo[k])
  /\ \A k, l \in 1 .. Len(todo) : k < l => Separate(e, todo[k], todo[l])

\* Batches that reach the goal of the pass.
Planned(e, d, p, t, todo) ==
  /\ todo \in Seq(Seq(Statement))
  /\ \A k \in 1 .. Len(todo) : todo[k] # <<>>
  /\ \A o \in Goal(e, p, t) : o \in d \/ Owes(todo, o)
  /\ e # "sqlite" => Sure(e, d, todo)

\* The same, when the constraints in trusted are taken to be there.
PlannedBut(e, d, p, t, todo, trusted) ==
  /\ todo \in Seq(Seq(Statement))
  /\ \A k \in 1 .. Len(todo) : todo[k] # <<>>
  /\ \A o \in Goal(e, p, t) : o \in d \cup trusted \/ Owes(todo, o)
  /\ e # "sqlite" => Sure(e, d, todo)

LEMMA PlannedSo ==
  ASSUME NEW e, NEW d, NEW p, NEW t, NEW todo, NEW trusted, Planned(e, d, p, t, todo)
  PROVE  PlannedBut(e, d, p, t, todo, trusted)
BY DEF Planned, PlannedBut

\* A pass with nothing to do, and one with one batch.
LEMMA NoBatch ==
  ASSUME NEW e, NEW d, NEW p, NEW t, \A o \in Goal(e, p, t) : o \in d
  PROVE  Planned(e, d, p, t, <<>>)
BY DEF Planned, Sure

LEMMA OneBatch ==
  ASSUME NEW e, NEW d, NEW p, NEW t, NEW q \in Seq(Statement), Len(q) >= 1,
         \A o \in Goal(e, p, t) : o \in d \/ \E j \in 1 .. Len(q) : Target(q[j]) = o,
         e # "sqlite" => Safe(e, d, q)
  PROVE  Planned(e, d, p, t, <<q>>)
<1> DEFINE todo == <<q>>
<1>1. todo \in Seq(Seq(Statement)) /\ Len(todo) = 1 /\ todo[1] = q /\ q # <<>>
  OBVIOUS
<1>2. \A k \in 1 .. Len(todo) : k = 1
  BY <1>1
<1> HIDE DEF todo
<1>3. \A o \in Goal(e, p, t) : o \in d \/ Owes(todo, o)
  BY <1>1 DEF Owes
<1>4. e # "sqlite" => Sure(e, d, todo)
  BY <1>1, <1>2 DEF Sure
<1>5. Planned(e, d, p, t, todo)
  BY <1>1, <1>2, <1>3, <1>4 DEF Planned
<1> QED
  BY <1>5 DEF todo

Engine == dialect \in {"postgres", "mysql", "sqlite"}

\* Pass one.
CreateBatch(t) == <<Stmt("createTable", t, "")>> \o CreateIndexSQL(t)

LEMMA PlanTable ==
  ASSUME Engine, DeployedOn(dialect, db), NEW t \in Range(Tables)
  PROVE  Planned(dialect, db, 1, t, <<CreateBatch(t)>>)
<1> DEFINE c == Stmt("createTable", t, "")
           F == {f \in FieldsOf(t) : <<t, f>> \in Index \ Unique}
           I == CreateIndexSQL(t)
           q == CreateBatch(t)
<1>1. c \in Statement /\ Target(c) = Table(t) /\ c.op = "createTable" /\ c.table = t
  <2>1. c \in Statement /\ c.op = "createTable" /\ c.table = t
    <3>1. "" \in FieldNames
      BY Blank
    <3>2. "createTable" \in Ops
      BY DEF Ops
    <3> QED
      BY <3>1, <3>2 DEF Statement, Stmt
  <2> QED
    BY <2>1, Targets
<1>2. /\ I \in Seq(Statement)
      /\ dialect = "mysql" => Len(I) = 0
      /\ \A k \in 1 .. Len(I) : /\ I[k].op = "indexIfNotExists" /\ I[k].table = t
                               /\ I[k].field \in F
  <2>1. CASE dialect = "mysql"
    <3>1. I = <<>>
      BY <2>1 DEF CreateIndexSQL
    <3> QED
      BY <3>1
  <2>2. CASE dialect # "mysql"
    <3> DEFINE fs == FieldsIn(t, F)
    <3>1. I = Each("indexIfNotExists", t, fs)
      BY <2>2 DEF CreateIndexSQL
    <3>2. F \in SUBSET FieldsOf(t)
      OBVIOUS
    <3> HIDE DEF F
    <3>3. Lists(fs, F)
      BY <3>2, FieldsInLists
    <3> HIDE DEF fs, I
    <3>4. "indexIfNotExists" \in Ops
      BY DEF Ops
    <3>5. /\ I \in Seq(Statement) /\ Len(I) = Len(fs)
          /\ \A k \in 1 .. Len(fs) : I[k] = Stmt("indexIfNotExists", t, fs[k])
      BY <3>1, <3>2, <3>3, <3>4, EachStatement
    <3>6. \A k \in 1 .. Len(fs) : fs[k] \in F
      BY <3>3 DEF Lists
    <3>7. \A f : LET s == Stmt("indexIfNotExists", t, f) IN
            s.op = "indexIfNotExists" /\ s.table = t /\ s.field = f
      BY DEF Stmt
    <3> QED
      BY <2>2, <3>5, <3>6, <3>7
  <2> QED
    BY <2>1, <2>2
<1> HIDE DEF I, c, F
<1>3. q = <<c>> \o I
  BY DEF CreateBatch, c, I
<1> HIDE DEF q
<1>5. /\ q \in Seq(Statement) /\ Len(q) = 1 + Len(I) /\ Len(I) \in Nat
      /\ \A j \in 1 .. Len(q) : q[j] = IF j = 1 THEN c ELSE I[j - 1]
  <2>1. I \in Seq(Statement)
    BY <1>2
  <2>2. /\ q \in Seq(Statement) /\ Len(q) = 1 + Len(I) /\ Len(I) \in Nat
        /\ \A j \in 1 .. Len(I) + 1 : q[j] = IF j = 1 THEN c ELSE I[j - 1]
    BY <1>1, <1>3, <2>1, Prepend
  <2> QED
    BY <2>2
<1>6. 1 \in 1 .. Len(q) /\ q[1] = c /\ Len(q) >= 1
  BY <1>5
<1>7. \A j \in 1 .. Len(q) : j # 1 =>
        /\ dialect # "mysql"
        /\ q[j].op = "indexIfNotExists" /\ q[j].table = t /\ q[j].field \in F
        /\ 1 \in 1 .. j - 1
  <2> SUFFICES ASSUME NEW j \in 1 .. Len(q), j # 1
               PROVE  /\ dialect # "mysql"
                      /\ q[j].op = "indexIfNotExists" /\ q[j].table = t /\ q[j].field \in F
                      /\ 1 \in 1 .. j - 1
    OBVIOUS
  <2>1. j - 1 \in 1 .. Len(I) /\ 1 \in 1 .. j - 1
    BY <1>5
  <2>2. q[j] = I[j - 1]
    BY <1>5, <2>1
  <2>3. dialect # "mysql"
    BY <1>2, <2>1
  <2> QED
    BY <1>2, <2>1, <2>2, <2>3
<1>8. \A o \in Goal(dialect, 1, t) : o \in db \/ \E j \in 1 .. Len(q) : Target(q[j]) = o
  BY <1>1, <1>6 DEF Goal
<1>9. ASSUME dialect # "sqlite" PROVE Safe(dialect, db, q)
  <2>1. ASSUME NEW j \in 1 .. Len(q) PROVE Idempotent(q[j])
    BY <1>1, <1>6, <1>7 DEF Idempotent
  <2>2. ASSUME NEW j \in 1 .. Len(q), NeedsColumn(q[j])
        PROVE  \/ ColumnOf(q[j]) \in db
               \/ \E i \in 1 .. j - 1 : ColumnOf(q[j]) \in Makes(dialect, q[i]) /\ New(dialect, db, q, i)
    <3>1. j # 1
      BY <1>1, <1>6, <2>2 DEF NeedsColumn
    <3>2. q[j].table = t /\ q[j].field \in F /\ 1 \in 1 .. j - 1 /\ dialect = "postgres"
      BY <1>7, <1>9, <3>1 DEF Engine
    <3>3. ColumnOf(q[j]) = Column(t, q[j].field) /\ q[j].field \in FieldsOf(t)
          /\ <<t, q[j].field>> \in Index \ Unique
      BY <3>2 DEF ColumnOf, F
    <3>4. CASE Table(t) \in db
      BY <3>2, <3>3, <3>4 DEF DeployedOn, LeftBehind
    <3>5. CASE Table(t) \notin db
      <4>1. New(dialect, db, q, 1)
        BY <1>1, <1>6, <3>5 DEF New
      <4>2. ColumnOf(q[j]) \in CreatedWith(dialect, t)
        BY <3>3 DEF CreatedWith
      <4>3. ColumnOf(q[j]) \in Makes(dialect, q[1])
        BY <1>1, <1>6, <4>2 DEF Makes
      <4> QED
        BY <3>2, <4>1, <4>3
    <3> QED
      BY <3>4, <3>5
  <2> QED
    BY <2>1, <2>2 DEF Safe
<1>10. Planned(dialect, db, 1, t, <<q>>)
  BY <1>5, <1>6, <1>8, <1>9, OneBatch
<1> QED
  BY <1>10 DEF q

\* The batch that adds a column is about that field only.
LEMMA AddsField ==
  ASSUME NEW e, NEW t, NEW f, NEW q, Adds(e, t, f, q), NEW j \in 1 .. Len(q)
  PROVE  /\ Target(q[j]).field = f
         /\ \A o \in Makes(e, q[j]) : o.field = f
<1>1. q[j] \in Statement /\ q[j].field = f /\ Len(q) \in Nat
  BY DEF Adds
<1>2. q[j].op = "addColumn" \/ NeedsColumn(q[j])
  <2>1. j = 1 \/ j \in 2 .. Len(q)
    BY <1>1
  <2>2. q[1].op = "addColumn"
    BY DEF Adds, Stmt
  <2> QED
    BY <2>1, <2>2 DEF Adds
<1>3. q[j].op # "createTable" /\ Target(q[j]).field = f
  BY <1>1, <1>2, Targets, Parts DEF NeedsColumn
<1>4. ASSUME NEW o \in Makes(e, q[j]) PROVE o.field = f
  BY <1>1, <1>3, AddedThings, Parts
<1> QED
  BY <1>3, <1>4

\* It is safe where the column is missing: what a migration left behind has no
\* key of a column without the column.
LEMMA AddsSafe ==
  ASSUME NEW e, NEW d, NEW t, NEW f, NEW q, Adds(e, t, f, q), DeployedOn(e, d), Column(t, f) \notin d
  PROVE  Safe(e, d, q)
<1>1. Len(q) \in Nat /\ Len(q) >= 1 /\ \A j \in 1 .. Len(q) : q[j] \in Statement
  BY DEF Adds
<1>2. q[1].op = "addColumn" /\ Target(q[1]) = Column(t, f) /\ 1 \in 1 .. Len(q)
  <2>1. q[1].op = "addColumn" /\ q[1].table = t /\ q[1].field = f /\ 1 \in 1 .. Len(q)
    BY <1>1 DEF Adds, Stmt
  <2> QED
    BY <1>1, <2>1, Targets
<1>3. New(e, d, q, 1)
  BY <1>2 DEF New
<1>4. Column(t, f) \in Makes(e, q[1])
  BY <1>1, <1>2, Effects
<1>5. ASSUME NEW j \in 2 .. Len(q), ~Idempotent(q[j]) PROVE New(e, d, q, j)
  <2> DEFINE o == Target(q[j])
  <2>1. /\ e = "mysql" /\ q[j].op \in {"addForeignKey", "index"}
        /\ j \in 1 .. Len(q) /\ q[j].table = t /\ q[j].field = f
    BY <1>1, <1>5 DEF Adds
  <2>2. o.kind \in {"fk", "index"} /\ o.table = t /\ o.field = f
    BY <1>1, <2>1, Targets, Parts
  <2> HIDE DEF o
  <2>3. o \notin d
    BY <2>1, <2>2 DEF DeployedOn, LeftBehind
  <2>4. ASSUME NEW i \in 1 .. j - 1, o \in Makes(e, q[i]) PROVE FALSE
    <3>1. i \in 1 .. Len(q) /\ i # j /\ q[i] \in Statement
      BY <1>1, <2>1
    <3>2. q[i].op = "addColumn" \/ NeedsColumn(q[i])
      <4>1. i = 1 \/ i \in 2 .. Len(q)
        BY <3>1
      <4> QED
        BY <1>2, <4>1 DEF Adds
    <3>3. q[i].op # "createTable"
      BY <3>2 DEF NeedsColumn
    <3>4. o = Target(q[i])
      <4>1. o # Object("unique", q[i].table, q[i].field)
        BY <2>2, Parts
      <4> QED
        BY <2>1, <2>4, <3>1, <3>3, <4>1, AddedThings
    <3>5. Target(q[i]).kind = Target(q[j]).kind
      BY <3>4 DEF o
    <3> QED
      BY <2>1, <3>1, <3>5 DEF Adds
  <2> QED
    BY <2>3, <2>4 DEF New, o
<1>6. ASSUME NEW j \in 1 .. Len(q), ~Idempotent(q[j]) PROVE New(e, d, q, j)
  <2>1. j = 1 \/ j \in 2 .. Len(q)
    BY <1>1
  <2> QED
    BY <1>3, <1>5, <1>6, <2>1
<1>7. ASSUME NEW j \in 1 .. Len(q), NeedsColumn(q[j])
      PROVE  \E i \in 1 .. j - 1 : ColumnOf(q[j]) \in Makes(e, q[i]) /\ New(e, d, q, i)
  <2>1. j # 1
    BY <1>2, <1>7 DEF NeedsColumn
  <2>2. 1 \in 1 .. j - 1
    BY <1>1, <2>1
  <2>3. ColumnOf(q[j]) = Column(t, f)
    BY DEF Adds, ColumnOf
  <2> QED
    BY <1>3, <1>4, <2>2, <2>3
<1> QED
  BY <1>6, <1>7 DEF Safe

\* Pass two.
LEMMA PlanColumns ==
  ASSUME DeployedOn(dialect, db), NEW t \in Range(Tables)
  PROVE  Planned(dialect, db, 2, t,
                 [i \in DOMAIN eachMissing(t) |-> AddColumnSQL(t, eachMissing(t)[i])])
<1> DEFINE F == {f \in FieldsOf(t) : Column(t, f) \notin db}
           m == eachMissing(t)
           todo == [i \in DOMAIN m |-> AddColumnSQL(t, m[i])]
<1>1. F \in SUBSET FieldsOf(t) /\ \A f \in F : Column(t, f) \notin db
  OBVIOUS
<1>2. \A f \in FieldsOf(t) : Column(t, f) \in db \/ f \in F
  OBVIOUS
<1>3. m = FieldsIn(t, F)
  BY DEF eachMissing
<1> HIDE DEF F, m
<1>4. Lists(m, F)
  BY <1>1, <1>3, FieldsInLists
<1>5. Len(m) \in Nat /\ DOMAIN m = 1 .. Len(m) /\ \A k \in 1 .. Len(m) : m[k] \in F
  BY <1>4 DEF Lists
<1>6. DOMAIN todo = 1 .. Len(m) /\ \A k \in 1 .. Len(m) : todo[k] = AddColumnSQL(t, m[k])
  BY <1>5
<1>7. \A k \in 1 .. Len(m) : Adds(dialect, t, m[k], AddColumnSQL(t, m[k]))
  BY <1>1, <1>5, AddColumnAdds
<1>8. \A k \in 1 .. Len(m) : AddColumnSQL(t, m[k]) \in Seq(Statement)
  BY <1>7 DEF Adds
<1>9. todo \in Seq(Seq(Statement)) /\ Len(todo) = Len(m)
  <2>1. todo = [k \in 1 .. Len(m) |-> AddColumnSQL(t, m[k])]
    BY <1>5
  <2> DEFINE A(k) == AddColumnSQL(t, m[k])
  <2> HIDE DEF todo
  <2>2. todo \in [1 .. Len(m) -> Seq(Statement)]
    BY <1>8, <2>1
  <2> QED
    BY <1>5, <2>2
<1>10. \A k \in 1 .. Len(m) : Adds(dialect, t, m[k], todo[k])
  BY <1>6, <1>7
<1> HIDE DEF todo
<1>11. \A k \in 1 .. Len(todo) : todo[k] # <<>>
  <2>1. ASSUME NEW k \in 1 .. Len(m) PROVE todo[k] # <<>>
    <3>1. Len(todo[k]) >= 1
      BY <1>10 DEF Adds
    <3> QED
      BY <3>1
  <2> QED
    BY <1>9, <2>1
<1>12. ASSUME NEW o \in Goal(dialect, 2, t), o \notin db PROVE Owes(todo, o)
  <2>1. PICK f \in FieldsOf(t) : o = Column(t, f)
    BY DEF Goal
  <2>2. PICK k \in 1 .. Len(m) : m[k] = f
    BY <1>2, <1>4, <1>12, <2>1 DEF Lists
  <2>3. /\ Len(todo[k]) \in Nat /\ Len(todo[k]) >= 1 /\ todo[k][1] \in Statement
        /\ todo[k][1] = Stmt("addColumn", t, f)
    BY <1>10, <2>2 DEF Adds
  <2>4. todo[k][1].op = "addColumn" /\ todo[k][1].table = t /\ todo[k][1].field = f
    BY <2>3 DEF Stmt
  <2>5. Target(todo[k][1]) = o
    BY <2>1, <2>3, <2>4, Targets
  <2>6. 1 \in 1 .. Len(todo[k]) /\ k \in 1 .. Len(todo)
    BY <1>9, <2>3
  <2> QED
    BY <2>5, <2>6 DEF Owes
<1>13. Sure(dialect, db, todo)
  <2>1. ASSUME NEW k \in 1 .. Len(todo) PROVE Safe(dialect, db, todo[k])
    BY <1>1, <1>5, <1>9, <1>10, AddsSafe
  <2>2. ASSUME NEW k \in 1 .. Len(todo), NEW l \in 1 .. Len(todo), k < l
        PROVE  Separate(dialect, todo[k], todo[l])
    <3>1. m[k] # m[l] /\ Adds(dialect, t, m[k], todo[k]) /\ Adds(dialect, t, m[l], todo[l])
      BY <1>4, <1>5, <1>9, <1>10, <2>2 DEF Lists
    <3>2. ASSUME NEW i \in 1 .. Len(todo[k]), NEW j \in 1 .. Len(todo[l])
          PROVE  Target(todo[l][j]) \notin Makes(dialect, todo[k][i])
      <4>1. Target(todo[l][j]).field = m[l]
        BY <3>1, AddsField
      <4>2. \A o \in Makes(dialect, todo[k][i]) : o.field = m[k]
        BY <3>1, AddsField
      <4> QED
        BY <3>1, <4>1, <4>2
    <3> QED
      BY <3>2 DEF Separate
  <2> QED
    BY <2>1, <2>2 DEF Sure
<1>14. Planned(dialect, db, 2, t, todo)
  BY <1>9, <1>11, <1>12, <1>13 DEF Planned
<1> QED
  BY <1>14 DEF todo, m

\* Pass three.
LEMMA PlanUniques ==
  ASSUME NEW t \in Range(Tables)
  PROVE  Planned(dialect, db, 3, t,
                 IF uniqueIndexSQL(t) = <<>> THEN <<>> ELSE <<uniqueIndexSQL(t)>>)
<1> DEFINE F == {f \in FieldsOf(t) : <<t, f>> \in Unique}
           q == uniqueIndexSQL(t)
<1>1. CASE dialect # "sqlite"
  <2>1. q = <<>>
    BY <1>1 DEF uniqueIndexSQL
  <2>2. \A o \in Goal(dialect, 3, t) : o \in db
    BY <1>1 DEF Goal
  <2> QED
    BY <2>1, <2>2, NoBatch
<1>2. CASE dialect = "sqlite"
  <2> DEFINE fs == FieldsIn(t, F)
  <2>1. q = Each("uniqueIfNotExists", t, fs)
    BY <1>2 DEF uniqueIndexSQL
  <2>2. \A o \in Goal(dialect, 3, t) : \E f \in F : o = Object("unique", t, f)
    BY <1>2 DEF Goal
  <2>3. F \in SUBSET FieldsOf(t)
    OBVIOUS
  <2> HIDE DEF F
  <2>4. Lists(fs, F)
    BY <2>3, FieldsInLists
  <2> HIDE DEF fs, q
  <2>5. "uniqueIfNotExists" \in Ops
    BY DEF Ops
  <2>6. /\ q \in Seq(Statement) /\ Len(q) = Len(fs)
        /\ \A k \in 1 .. Len(fs) : q[k] = Stmt("uniqueIfNotExists", t, fs[k])
    BY <2>1, <2>3, <2>4, <2>5, EachStatement
  <2>7. ASSUME NEW o \in Goal(dialect, 3, t) PROVE \E j \in 1 .. Len(q) : Target(q[j]) = o
    <3>1. PICK f \in F : o = Object("unique", t, f)
      BY <2>2
    <3>2. PICK k \in 1 .. Len(fs) : fs[k] = f
      BY <2>4 DEF Lists
    <3>3. q[k] \in Statement /\ q[k].op = "uniqueIfNotExists" /\ q[k].table = t /\ q[k].field = f
      <4>1. q[k] = Stmt("uniqueIfNotExists", t, f) /\ k \in 1 .. Len(q)
        BY <2>6, <3>2
      <4>2. q[k] \in Statement
        BY <2>6, <4>1
      <4> QED
        BY <4>1, <4>2 DEF Stmt
    <3>4. Target(q[k]) = o
      BY <3>1, <3>3, Targets
    <3> QED
      BY <2>6, <3>4
  <2>8. CASE q = <<>>
    <3>1. Len(q) = 0
      BY <2>8
    <3>2. \A o \in Goal(dialect, 3, t) : o \in db
      BY <2>7, <3>1
    <3>3. Planned(dialect, db, 3, t, <<>>)
      BY <3>2, NoBatch
    <3> QED
      BY <2>8, <3>3 DEF q
  <2>9. CASE q # <<>>
    <3>1. Len(q) >= 1
      BY <2>6, <2>9, EmptySeq
    <3>2. Planned(dialect, db, 3, t, <<q>>)
      BY <1>2, <2>6, <2>7, <3>1, OneBatch
    <3> QED
      BY <2>9, <3>2 DEF q
  <2> QED
    BY <2>8, <2>9
<1> QED
  BY <1>1, <1>2

\* Pass four.
LEMMA PlanComposite ==
  ASSUME Engine, NEW t \in Range(Tables), NEW failed
  PROVE  PlannedBut(dialect, db, 4, t, ensureCompositeUniques(t, failed), failed)
<1>1. Goal(dialect, 4, t) = IF Composite[t] # {} THEN {CompositeOn(t)} ELSE {}
  BY DEF Goal
<1>2. CASE Composite[t] = {} \/ (dialect \in {"sqlite", "mysql"} /\ CompositeOn(t) \in db \cup failed)
  <2>1. ensureCompositeUniques(t, failed) = <<>>
    BY <1>2 DEF ensureCompositeUniques, compositeUniqueIndexPresent
  <2>2. \A o \in Goal(dialect, 4, t) : o \in db \cup failed
    BY <1>1, <1>2
  <2> QED
    BY <2>1, <2>2 DEF PlannedBut, Sure
<1>3. CASE ~(Composite[t] = {} \/ (dialect \in {"sqlite", "mysql"} /\ CompositeOn(t) \in db \cup failed))
  <2> DEFINE s == compositeUniqueIndexSQL(t)
             q == <<s>>
  <2>1. ensureCompositeUniques(t, failed) = <<q>>
    BY <1>3 DEF ensureCompositeUniques, compositeUniqueIndexPresent
  <2>2. s \in Statement /\ s.table = t /\ s.op \in {"composite", "compositeIfNotExists"}
    BY Blank DEF compositeUniqueIndexSQL, Stmt, Statement, Ops
  <2>3. s.op = "composite" => dialect = "mysql"
    BY DEF compositeUniqueIndexSQL, Stmt
  <2> HIDE DEF s
  <2>4. Target(s) = CompositeOn(t)
    BY <2>2, Targets
  <2>5. q \in Seq(Statement) /\ Len(q) = 1 /\ q[1] = s
    BY <2>2
  <2> HIDE DEF q
  <2>6. Safe(dialect, db, q)
    <3>1. ~NeedsColumn(s)
      BY <2>2 DEF NeedsColumn
    <3>2. ~Idempotent(s) => CompositeOn(t) \notin db
      BY <1>3, <2>2, <2>3 DEF Idempotent
    <3>3. \A j \in 1 .. Len(q) : j = 1
      BY <2>5
    <3> QED
      BY <2>4, <2>5, <3>1, <3>2, <3>3 DEF Safe, New
  <2>7. \A o \in Goal(dialect, 4, t) : o \in db \/ \E j \in 1 .. Len(q) : Target(q[j]) = o
    BY <1>1, <2>4, <2>5
  <2>8. Planned(dialect, db, 4, t, <<q>>)
    BY <2>5, <2>6, <2>7, OneBatch
  <2> QED
    BY <2>1, <2>8, PlannedSo DEF q
<1> QED
  BY <1>2, <1>3

\* What a boot decides on when it looks at the database.
LEMMA Planning ==
  ASSUME Engine, DeployedOn(dialect, db), NEW b, At(b) \in Range(Tables), boot[b].pass \in 1 .. 4,
         NEW failed
  PROVE  PlannedBut(dialect, db, boot[b].pass, At(b), Batches(b, failed), failed)
<1>1. CASE boot[b].pass = 1
  <2> DEFINE t == At(b)
             q == <<Stmt("createTable", t, "")>> \o CreateIndexSQL(t)
  <2>3. q = CreateBatch(t)
    BY DEF CreateBatch
  <2>4. Batches(b, failed) = <<q>>
    <3> HIDE DEF q
    <3>1. Batches(b, failed) = CASE boot[b].pass = 1 -> <<q>>
      [] boot[b].pass = 2 -> [i \in DOMAIN eachMissing(t) |-> AddColumnSQL(t, eachMissing(t)[i])]
      [] boot[b].pass = 3 -> IF uniqueIndexSQL(t) = <<>> THEN <<>> ELSE <<uniqueIndexSQL(t)>>
      [] boot[b].pass = 4 -> ensureCompositeUniques(t, failed)
      BY DEF Batches, q
    <3> QED
      BY <1>1, <3>1
  <2>1. Batches(b, failed) = <<CreateBatch(t)>>
    BY <2>3, <2>4
  <2>2. Planned(dialect, db, 1, At(b), <<CreateBatch(At(b))>>)
    BY PlanTable
  <2> QED
    BY <1>1, <2>1, <2>2, PlannedSo
<1>2. CASE boot[b].pass = 2
  BY <1>2, PlanColumns, PlannedSo DEF Batches
<1>3. CASE boot[b].pass = 3
  BY <1>3, PlanUniques, PlannedSo DEF Batches
<1>4. CASE boot[b].pass = 4
  BY <1>4, PlanComposite DEF Batches
<1> QED
  BY <1>1, <1>2, <1>3, <1>4

-----------------------------------------------------------------------------
(* Migrations: what is left to do, when the next of it has been done *)

LEMMA Rests ==
  ASSUME NEW S, NEW s \in Seq(S), s # <<>>
  PROVE  /\ Len(s) \in Nat /\ Len(s) >= 1 /\ Head(s) = s[1] /\ s[1] \in S
         /\ Tail(s) \in Seq(S) /\ Len(Tail(s)) = Len(s) - 1
         /\ \A i \in 1 .. Len(s) - 1 : i + 1 \in 1 .. Len(s) /\ Tail(s)[i] = s[i + 1]
<1>1. Len(s) \in Nat /\ Len(s) >= 1
  BY EmptySeq
<1>2. Head(s) = s[1] /\ s[1] \in S
  BY <1>1
<1> QED
  BY <1>1, <1>2, HeadTailProperties

\* d2 is d with things that statements of p make.
MadeBy(e, d, p, d2) ==
  d \subseteq d2 /\ \A o \in d2 : o \in d \/ \E i \in 1 .. Len(p) : o \in Makes(e, p[i])

\* What another batch makes leaves a safe batch safe, when the two are separate.
LEMMA StillSafe ==
  ASSUME NEW e, NEW d, NEW d2, NEW p, NEW q \in Seq(Statement),
         MadeBy(e, d, p, d2), Separate(e, p, q), Safe(e, d, q)
  PROVE  Safe(e, d2, q)
<1>1. ASSUME NEW j \in 1 .. Len(q), New(e, d, q, j) PROVE New(e, d2, q, j)
  BY <1>1 DEF New, MadeBy, Separate
<1>2. ASSUME NEW j \in 1 .. Len(q), NeedsColumn(q[j]), ColumnOf(q[j]) \notin d2
      PROVE  \E i \in 1 .. j - 1 : ColumnOf(q[j]) \in Makes(e, q[i]) /\ New(e, d2, q, i)
  <2>1. PICK i \in 1 .. j - 1 : ColumnOf(q[j]) \in Makes(e, q[i]) /\ New(e, d, q, i)
    BY <1>2 DEF Safe, MadeBy
  <2>2. i \in 1 .. Len(q)
    OBVIOUS
  <2> QED
    BY <1>1, <2>1, <2>2
<1> QED
  BY <1>1, <1>2 DEF Safe

\* What follows the first statement of a safe batch is safe once that has run.
LEMMA StatementSafe ==
  ASSUME NEW e, NEW d, NEW q \in Seq(Statement), q # <<>>, Safe(e, d, q)
  PROVE  Safe(e, After(e, d, q[1]), Tail(q))
<1> DEFINE d2 == After(e, d, q[1])
           r == Tail(q)
<1>1. /\ Len(q) \in Nat /\ Len(q) >= 1 /\ q[1] \in Statement
      /\ r \in Seq(Statement) /\ Len(r) = Len(q) - 1
      /\ \A i \in 1 .. Len(q) - 1 : i + 1 \in 1 .. Len(q) /\ r[i] = q[i + 1]
  BY Rests
<1>2. /\ d \subseteq d2
      /\ \A o \in d2 : o \in d \/ o \in Makes(e, q[1])
      /\ Target(q[1]) \notin d => Makes(e, q[1]) \subseteq d2
  BY DEF After
<1> HIDE DEF d2, r
<1>3. ASSUME NEW j \in 1 .. Len(r), New(e, d, q, j + 1) PROVE New(e, d2, r, j)
  <2>1. r[j] = q[j + 1] /\ 1 \in 1 .. (j + 1) - 1
    BY <1>1
  <2>2. Target(r[j]) \notin d2
    BY <1>2, <1>3, <2>1 DEF New
  <2>3. ASSUME NEW i \in 1 .. j - 1 PROVE Target(r[j]) \notin Makes(e, r[i])
    <3>1. i + 1 \in 1 .. (j + 1) - 1 /\ r[i] = q[i + 1]
      BY <1>1
    <3> QED
      BY <1>3, <2>1, <3>1 DEF New
  <2> QED
    BY <2>2, <2>3 DEF New
<1>4. ASSUME NEW j \in 1 .. Len(r), ~Idempotent(r[j]) PROVE New(e, d2, r, j)
  <2>1. r[j] = q[j + 1] /\ j + 1 \in 1 .. Len(q)
    BY <1>1
  <2> QED
    BY <1>3, <1>4, <2>1 DEF Safe
<1>5. ASSUME NEW j \in 1 .. Len(r), NeedsColumn(r[j]), ColumnOf(r[j]) \notin d2
      PROVE  \E i \in 1 .. j - 1 : ColumnOf(r[j]) \in Makes(e, r[i]) /\ New(e, d2, r, i)
  <2>1. r[j] = q[j + 1] /\ j + 1 \in 1 .. Len(q) /\ (j + 1) - 1 = j
    BY <1>1
  <2>2. PICK i \in 1 .. j : ColumnOf(r[j]) \in Makes(e, q[i]) /\ New(e, d, q, i)
    BY <1>2, <1>5, <2>1 DEF Safe
  <2>3. i # 1
    BY <1>2, <1>5, <2>2 DEF New
  <2>4. i - 1 \in 1 .. j - 1 /\ i - 1 \in 1 .. Len(r) /\ (i - 1) + 1 = i
    BY <1>1, <2>3
  <2>5. r[i - 1] = q[i]
    BY <1>1, <2>4
  <2>6. New(e, d2, r, i - 1)
    BY <1>3, <2>2, <2>4
  <2> QED
    BY <2>2, <2>4, <2>5, <2>6
<1>6. Safe(e, d2, r)
  BY <1>4, <1>5 DEF Safe
<1> QED
  BY <1>6 DEF d2, r

\* What is done of todo is in the database, and what is left still meets nothing.
Carries(e, d, todo, d2, rest) ==
  /\ d \subseteq d2
  /\ rest \in Seq(Seq(Statement)) /\ \A k \in 1 .. Len(rest) : rest[k] # <<>>
  /\ \A o : Owes(todo, o) => o \in d2 \/ Owes(rest, o)
  /\ Sure(e, d, todo) => Sure(e, d2, rest)

Pending(todo) ==
  /\ todo \in Seq(Seq(Statement)) /\ todo # <<>>
  /\ \A k \in 1 .. Len(todo) : todo[k] # <<>>

\* What one more batch leaves to be done.
LEMMA OneDone ==
  ASSUME NEW e, NEW d, NEW todo, Pending(todo), NEW d2, MadeBy(e, d, todo[1], d2),
         \A j \in 1 .. Len(todo[1]) : Target(todo[1][j]) \in d2
  PROVE  Carries(e, d, todo, d2, Tail(todo))
<1> DEFINE rest == Tail(todo)
<1>1. /\ Len(todo) \in Nat /\ Len(todo) >= 1
      /\ rest \in Seq(Seq(Statement)) /\ Len(rest) = Len(todo) - 1
      /\ \A i \in 1 .. Len(todo) - 1 : i + 1 \in 1 .. Len(todo) /\ rest[i] = todo[i + 1]
  BY Rests DEF Pending
<1> HIDE DEF rest
<1>2. \A k \in 1 .. Len(rest) : rest[k] # <<>>
  BY <1>1 DEF Pending
<1>3. ASSUME NEW o, Owes(todo, o), o \notin d2 PROVE Owes(rest, o)
  <2>1. PICK k \in 1 .. Len(todo) : \E j \in 1 .. Len(todo[k]) : Target(todo[k][j]) = o
    BY <1>3 DEF Owes
  <2>2. k # 1
    BY <1>3, <2>1
  <2>3. k - 1 \in 1 .. Len(rest) /\ (k - 1) + 1 = k
    BY <1>1, <2>2
  <2>4. rest[k - 1] = todo[k]
    BY <1>1, <2>3
  <2> QED
    BY <2>1, <2>3, <2>4 DEF Owes
<1>4. ASSUME Sure(e, d, todo) PROVE Sure(e, d2, rest)
  <2>1. ASSUME NEW k \in 1 .. Len(rest) PROVE Safe(e, d2, rest[k])
    <3>1. k + 1 \in 1 .. Len(todo) /\ 1 \in 1 .. Len(todo) /\ 1 < k + 1 /\ rest[k] = todo[k + 1]
      BY <1>1
    <3>2. Safe(e, d, todo[k + 1]) /\ Separate(e, todo[1], todo[k + 1])
      BY <1>4, <3>1 DEF Sure
    <3>3. todo[k + 1] \in Seq(Statement)
      BY <3>1 DEF Pending
    <3> QED
      BY <3>1, <3>2, <3>3, StillSafe
  <2>2. ASSUME NEW k \in 1 .. Len(rest), NEW l \in 1 .. Len(rest), k < l
        PROVE  Separate(e, rest[k], rest[l])
    <3>1. /\ k + 1 \in 1 .. Len(todo) /\ l + 1 \in 1 .. Len(todo) /\ k + 1 < l + 1
          /\ rest[k] = todo[k + 1] /\ rest[l] = todo[l + 1]
      <4>1. \A i \in 1 .. Len(rest) : i + 1 \in 1 .. Len(todo) /\ rest[i] = todo[i + 1]
        BY <1>1
      <4>2. k \in Nat /\ l \in Nat
        BY <1>1
      <4>3. k + 1 < l + 1
        BY <2>2, <4>2
      <4> QED
        BY <4>1, <4>3
    <3> QED
      BY <1>4, <3>1 DEF Sure
  <2> QED
    BY <2>1, <2>2 DEF Sure
<1>5. Carries(e, d, todo, d2, rest)
  BY <1>1, <1>2, <1>3, <1>4 DEF Carries, MadeBy
<1> QED
  BY <1>5 DEF rest

LEMMA BatchApplied ==
  ASSUME NEW e, NEW d, NEW todo, Pending(todo)
  PROVE  Carries(e, d, todo, BatchAfter(e, d, Head(todo)), Tail(todo))
<1> DEFINE q == todo[1]
           f == BatchStates(e, d, q)
<1>1. q \in Seq(Statement) /\ Head(todo) = q /\ Len(q) \in Nat
  BY Rests DEF Pending
<1> HIDE DEF q, f
<1>2. Runs(e, d, q, f)
  BY <1>1, BatchRuns DEF f
<1>3. Grown(e, d, q, f, Len(q))
  BY <1>1, <1>2, BatchGrows
<1>4. BatchAfter(e, d, q) = f[Len(q)]
  BY DEF BatchAfter, f
<1>5. MadeBy(e, d, q, BatchAfter(e, d, q))
  BY <1>3, <1>4 DEF MadeBy, Grown
<1>6. \A j \in 1 .. Len(q) : Target(q[j]) \in BatchAfter(e, d, q)
  BY <1>3, <1>4 DEF Grown
<1> QED
  BY <1>1, <1>5, <1>6, OneDone DEF q

\* What one more statement leaves to be done.
Rest(todo) ==
  IF Len(Head(todo)) = 1 THEN Tail(todo) ELSE <<Tail(Head(todo))>> \o Tail(todo)

LEMMA StatementApplied ==
  ASSUME NEW e, NEW d, NEW todo, Pending(todo)
  PROVE  Carries(e, d, todo, After(e, d, Head(Head(todo))), Rest(todo))
<1> DEFINE q == todo[1]
           r == Tail(q)
           d2 == After(e, d, q[1])
           rest == <<r>> \o Tail(todo)
           tail == Tail(todo)
<1>1. /\ q \in Seq(Statement) /\ Head(todo) = q /\ q # <<>> /\ Len(todo) >= 1
      /\ Len(todo) \in Nat
      /\ tail \in Seq(Seq(Statement)) /\ Len(tail) = Len(todo) - 1
      /\ \A i \in 1 .. Len(todo) - 1 : i + 1 \in 1 .. Len(todo) /\ tail[i] = todo[i + 1]
  <2>1. Len(todo) >= 1
    BY Rests DEF Pending
  <2>2. 1 \in 1 .. Len(todo)
    BY <2>1, Rests DEF Pending
  <2> QED
    BY <2>2, Rests DEF Pending
<1> HIDE DEF q, tail
<1>2. /\ Len(q) \in Nat /\ Len(q) >= 1 /\ Head(q) = q[1] /\ q[1] \in Statement
      /\ r \in Seq(Statement) /\ Len(r) = Len(q) - 1
      /\ \A i \in 1 .. Len(q) - 1 : i + 1 \in 1 .. Len(q) /\ r[i] = q[i + 1]
  BY <1>1, Rests
<1>3. /\ d \subseteq d2 /\ Target(q[1]) \in d2
      /\ \A o \in d2 : o \in d \/ o \in Makes(e, q[1])
  BY <1>2, Effects DEF After
<1>4. MadeBy(e, d, q, d2)
  <2>1. 1 \in 1 .. Len(q)
    BY <1>2
  <2> QED
    BY <1>3, <2>1 DEF MadeBy
<1>5. Head(Head(todo)) = q[1]
  BY <1>1, <1>2
<1>6. CASE Len(q) = 1
  <2>1. \A j \in 1 .. Len(q) : Target(q[j]) \in d2
    BY <1>3, <1>6
  <2> HIDE DEF d2
  <2>2. Carries(e, d, todo, d2, Tail(todo))
    BY <1>4, <2>1, OneDone DEF q
  <2>3. Rest(todo) = Tail(todo)
    BY <1>1, <1>6 DEF Rest
  <2> QED
    BY <1>5, <2>2, <2>3 DEF d2
<1>7. CASE Len(q) # 1
  <2>1. Rest(todo) = rest
    BY <1>1, <1>7 DEF Rest
  <2> HIDE DEF r
  <2>2. /\ rest \in Seq(Seq(Statement)) /\ Len(rest) = Len(todo)
        /\ \A j \in 1 .. Len(todo) : rest[j] = IF j = 1 THEN r ELSE tail[j - 1]
    <3>1. /\ rest \in Seq(Seq(Statement)) /\ Len(rest) = 1 + Len(tail)
          /\ \A j \in 1 .. Len(tail) + 1 : rest[j] = IF j = 1 THEN r ELSE tail[j - 1]
      BY <1>1, <1>2, Prepend DEF tail
    <3>2. Len(tail) + 1 = Len(todo)
      BY <1>1
    <3> QED
      BY <3>1, <3>2
  <2> HIDE DEF rest
  <2>3. /\ 1 \in 1 .. Len(todo) /\ rest[1] = r
        /\ \A k \in 1 .. Len(todo) : k # 1 => rest[k] = todo[k]
    <3>1. 1 \in 1 .. Len(todo) /\ rest[1] = r
      BY <1>1, <2>2
    <3>2. ASSUME NEW k \in 1 .. Len(todo), k # 1 PROVE rest[k] = todo[k]
      <4>1. k - 1 \in 1 .. Len(todo) - 1 /\ (k - 1) + 1 = k
        BY <1>1, <3>2
      <4>2. rest[k] = tail[k - 1]
        BY <2>2, <3>2
      <4> QED
        BY <1>1, <4>1, <4>2
    <3> QED
      BY <3>1, <3>2
  <2>4. ASSUME NEW k \in 1 .. Len(rest) PROVE rest[k] # <<>>
    <3>1. CASE k = 1
      <4>1. Len(r) # 0
        BY <1>2, <1>7
      <4> QED
        BY <2>3, <3>1, <4>1
    <3>2. CASE k # 1
      BY <2>2, <2>3, <3>2 DEF Pending
    <3> QED
      BY <3>1, <3>2
  <2>5. ASSUME NEW o, Owes(todo, o), o \notin d2 PROVE Owes(rest, o)
    <3>1. PICK k \in 1 .. Len(todo) : \E j \in 1 .. Len(todo[k]) : Target(todo[k][j]) = o
      BY <2>5 DEF Owes
    <3>2. CASE k # 1
      <4>1. rest[k] = todo[k] /\ k \in 1 .. Len(rest)
        BY <2>2, <2>3, <3>2
      <4> QED
        BY <3>1, <4>1 DEF Owes
    <3>3. CASE k = 1
      <4>1. PICK j \in 1 .. Len(q) : Target(q[j]) = o
        BY <3>1, <3>3 DEF q
      <4>2. j # 1
        BY <1>3, <2>5, <4>1
      <4>3. j - 1 \in 1 .. Len(r) /\ (j - 1) + 1 = j
        BY <1>2, <4>2
      <4>4. r[j - 1] = q[j]
        BY <1>2, <4>3
      <4>5. 1 \in 1 .. Len(rest)
        BY <2>2, <2>3
      <4> QED
        BY <2>3, <4>1, <4>3, <4>4, <4>5 DEF Owes
    <3> QED
      BY <3>2, <3>3
  <2>6. ASSUME Sure(e, d, todo) PROVE Sure(e, d2, rest)
    <3>1. Safe(e, d2, r)
      <4>1. Safe(e, d, q)
        BY <2>3, <2>6 DEF Sure, q
      <4> QED
        BY <1>1, <4>1, StatementSafe DEF r
    <3>2. ASSUME NEW k \in 1 .. Len(rest) PROVE Safe(e, d2, rest[k])
      <4>1. CASE k = 1
        BY <2>3, <3>1, <4>1
      <4>2. CASE k # 1
        <5>1. rest[k] = todo[k] /\ k \in 1 .. Len(todo) /\ 1 < k
          BY <1>1, <2>2, <2>3, <4>2
        <5>2. Safe(e, d, todo[k]) /\ Separate(e, q, todo[k])
          BY <2>3, <2>6, <5>1 DEF Sure, q
        <5>3. todo[k] \in Seq(Statement)
          BY <5>1 DEF Pending
        <5> HIDE DEF d2
        <5> QED
          BY <1>4, <5>1, <5>2, <5>3, StillSafe
      <4> QED
        BY <4>1, <4>2
    <3>3. ASSUME NEW k \in 1 .. Len(rest), NEW l \in 1 .. Len(rest), k < l
          PROVE  Separate(e, rest[k], rest[l])
      <4>1. l # 1 /\ rest[l] = todo[l] /\ Separate(e, todo[k], todo[l])
        <5>1. l # 1 /\ k \in 1 .. Len(todo) /\ l \in 1 .. Len(todo)
          BY <2>2, <3>3
        <5> QED
          BY <2>3, <2>6, <3>3, <5>1 DEF Sure
      <4>2. CASE k # 1
        <5>1. rest[k] = todo[k]
          BY <2>2, <2>3, <4>2
        <5> QED
          BY <4>1, <5>1
      <4>3. CASE k = 1
        <5>1. rest[k] = r /\ Separate(e, q, todo[l])
          BY <2>3, <4>1, <4>3 DEF q
        <5>2. \A i \in 1 .. Len(r) : i + 1 \in 1 .. Len(q) /\ r[i] = q[i + 1]
          BY <1>2
        <5> QED
          BY <4>1, <5>1, <5>2 DEF Separate
      <4> QED
        BY <4>2, <4>3
    <3> QED
      BY <3>2, <3>3 DEF Sure
  <2>7. Carries(e, d, todo, d2, rest)
    BY <1>3, <2>2, <2>4, <2>5, <2>6 DEF Carries
  <2> QED
    BY <1>5, <2>1, <2>7
<1> QED
  BY <1>6, <1>7

-----------------------------------------------------------------------------
(* Migrations: the inductive invariant *)

Whys == {"ok", "exists", "missing", "duplicates", "timeout", "drift"}

BootType ==
  [state : {"idle", "migrating", "ready", "failed"}, pass : 0 .. 4, at : 1 .. Len(Tables),
   looked : BOOLEAN, todo : Seq(Seq(Statement)), trusted : SUBSET Constraints,
   why : Whys]

\* A boot has been through pass p at the i-th table.
Passed(x, p, i) == x.pass > p \/ (x.pass = p /\ x.at > i)

\* What a boot has passed is there, or it could not ask for it; where it is, it is
\* that or left to be done.
Progress(e, d, x) ==
  /\ \A p \in 1 .. 4, i \in 1 .. Len(Tables) :
       Passed(x, p, i) => \A o \in Goal(e, p, Tables[i]) : o \in d \cup x.trusted
  /\ x.looked =>
       \A o \in Goal(e, x.pass, Tables[x.at]) : o \in d \cup x.trusted \/ Owes(x.todo, o)

\* The schema is there, but the constraints that could not be asked for.
Complete(e, d, b, trusted) ==
  /\ Declared \subseteq d
  /\ b \notin Verifiers \/ e = "sqlite" => Constraints \subseteq d \cup trusted \cup NeverMade

\* What a boot knows of the database.
Fine(e, d, b, x) ==
  /\ x.state = "idle" => x = AtRest
  /\ x.state = "migrating" =>
       /\ x.pass \in 1 .. 4 /\ Progress(e, d, x)
       /\ \A k \in 1 .. Len(x.todo) : x.todo[k] # <<>>
  /\ x.state = "ready" => Complete(e, d, b, x.trusted)
  /\ e # "sqlite" => x.why \notin {"exists", "missing"}

BootsTyped == boot \in [Boots -> BootType]
BootsFine == \A b \in Boots : Fine(dialect, db, b, boot[b])

\* With an advisory lock, only its holder migrates, and what it has decided on
\* still meets nothing in its way.
LockHeld ==
  dialect # "sqlite" => \A b \in Boots : Migrating(b) => lock = b
StillSure ==
  dialect # "sqlite" =>
    \A b \in Boots : Migrating(b) /\ boot[b].looked => Sure(dialect, db, boot[b].todo)

MigrationsInv ==
  Engine /\ DeployedOn(dialect, db) /\ BootsTyped /\ BootsFine /\ LockHeld /\ StillSure

LEMMA Schema ==
  /\ Len(Tables) \in Nat /\ Len(Tables) >= 1
  /\ \A i \in 1 .. Len(Tables) : Tables[i] \in Range(Tables)
  /\ \A t \in Range(Tables) : \E i \in 1 .. Len(Tables) : Tables[i] = t
<1>1. Tables \in Seq(Range(Tables)) /\ Tables # <<>>
  BY SchemaAssumption
<1>2. Len(Tables) \in Nat /\ Len(Tables) >= 1 /\ DOMAIN Tables = 1 .. Len(Tables)
  BY <1>1, EmptySeq
<1>3. Range(Tables) = {Tables[i] : i \in DOMAIN Tables}
  BY DEF Range
<1> QED
  BY <1>2, <1>3

LEMMA Rested == AtRest \in BootType
BY Schema DEF AtRest, BootType, Whys

\* What a boot knows of the database stays true while it grows.
LEMMA FineGrows ==
  ASSUME NEW e, NEW d, NEW d2, NEW b, NEW x, Fine(e, d, b, x), d \subseteq d2
  PROVE  Fine(e, d2, b, x)
<1>1. Progress(e, d, x) => Progress(e, d2, x)
  BY DEF Progress
<1>2. Complete(e, d, b, x.trusted) => Complete(e, d2, b, x.trusted)
  BY DEF Complete
<1> QED
  BY <1>1, <1>2 DEF Fine

\* A boot whose passes are behind it leaves the schema complete.
LEMMA PassesComplete ==
  ASSUME NEW e, NEW d, NEW b, NEW trusted \in SUBSET Constraints, DeployedOn(e, d),
         \A p \in 1 .. 4, i \in 1 .. Len(Tables) :
           \A o \in Goal(e, p, Tables[i]) : o \in d \cup trusted
  PROVE  Complete(e, d, b, trusted)
<1>1. \A p \in 1 .. 4, t \in Range(Tables) : \A o \in Goal(e, p, t) : o \in d \cup trusted
  BY Schema
<1>2. \A c \in trusted : c.kind \in {"unique", "composite"}
  BY Parts DEF Constraints
<1>3. ASSUME NEW t \in Range(Tables) PROVE Table(t) \in d
  <2>1. Table(t) \in Goal(e, 1, t) /\ Table(t).kind = "table"
    BY Parts DEF Goal
  <2> QED
    BY <1>1, <1>2, <2>1
<1>4. ASSUME NEW t \in Range(Tables), NEW f \in FieldsOf(t) PROVE Column(t, f) \in d
  <2>1. Column(t, f) \in Goal(e, 2, t) /\ Column(t, f).kind = "column"
    BY Parts DEF Goal
  <2> QED
    BY <1>1, <1>2, <2>1
<1>5. Declared \subseteq d
  BY <1>3, <1>4 DEF Declared
<1>6. ASSUME NEW p \in Unique PROVE Object("unique", p[1], p[2]) \in d \cup trusted \cup NeverMade
  <2>1. p[1] \in Range(Tables) /\ p[2] \in FieldsOf(p[1]) /\ <<p[1], p[2]>> \in Unique
    BY SchemaAssumption
  <2>2. CASE e = "sqlite"
    <3>1. Object("unique", p[1], p[2]) \in Goal(e, 3, p[1])
      BY <2>1, <2>2 DEF Goal
    <3> QED
      BY <1>1, <2>1, <3>1
  <2>3. CASE e # "sqlite"
    BY <1>4, <2>1, <2>3 DEF DeployedOn
  <2> QED
    BY <2>2, <2>3
<1>7. ASSUME NEW t \in Range(Tables), Composite[t] # {} PROVE CompositeOn(t) \in d \cup trusted
  <2>1. CompositeOn(t) \in Goal(e, 4, t)
    BY <1>7 DEF Goal
  <2> QED
    BY <1>1, <2>1
<1>8. Constraints \subseteq d \cup trusted \cup NeverMade
  BY <1>6, <1>7 DEF Constraints
<1> QED
  BY <1>5, <1>8 DEF Complete

\* CheckSchema sees to the same.
LEMMA CheckedComplete ==
  ASSUME NEW failed, NoDrift(failed), NEW b \in Verifiers
  PROVE  Complete(dialect, db, b, failed)
<1>1. ASSUME dialect = "sqlite", NEW p \in Unique
      PROVE  Object("unique", p[1], p[2]) \in db \cup failed
  BY <1>1, SchemaAssumption DEF NoDrift, UniqueIndexPresent
<1>2. ASSUME dialect = "sqlite", NEW t \in Range(Tables), Composite[t] # {}
      PROVE  CompositeOn(t) \in db \cup failed
  BY <1>2 DEF NoDrift, compositeUniqueIndexPresent
<1>3. dialect = "sqlite" => Constraints \subseteq db \cup failed
  BY <1>1, <1>2 DEF Constraints
<1> QED
  BY <1>3 DEF NoDrift, Complete

\* One boot moves; the database only grows, and not beside a boot that holds the
\* lock.
LEMMA BootMoves ==
  ASSUME MigrationsInv, NEW b \in Boots,
         boot' \in [Boots -> BootType], \A c \in Boots : c # b => boot'[c] = boot[c],
         dialect' = dialect /\ found' = found, db \subseteq db', DeployedOn(dialect, db'),
         Fine(dialect, db', b, boot'[b]),
         \A c \in Boots : c # b /\ dialect # "sqlite" /\ Migrating(c) => lock' = c /\ db' = db,
         dialect # "sqlite" /\ boot'[b].state = "migrating" =>
           lock' = b /\ (boot'[b].looked => Sure(dialect, db', boot'[b].todo))
  PROVE  MigrationsInv'
<1>1. Engine' /\ DeployedOn(dialect, db)' /\ BootsTyped'
  <2>1. NeverMade' = NeverMade
    BY DEF NeverMade
  <2>2. DeployedOn(dialect, db)'
    BY <2>1 DEF DeployedOn
  <2> QED
    BY <2>2 DEF MigrationsInv, Engine, BootsTyped
<1>2. BootsFine'
  <2>1. ASSUME NEW c \in Boots PROVE Fine(dialect', db', c, boot'[c])
    <3>1. CASE c = b
      BY <3>1
    <3>2. CASE c # b
      <4>1. Fine(dialect, db, c, boot[c])
        BY DEF MigrationsInv, BootsFine
      <4>2. Fine(dialect, db', c, boot[c])
        BY <4>1, FineGrows
      <4> QED
        BY <3>2, <4>2
    <3> QED
      BY <3>1, <3>2
  <2>2. ASSUME NEW c \in Boots PROVE Fine(dialect, db, c, boot[c])'
    <3>1. NeverMade' = NeverMade
      BY DEF NeverMade
    <3> QED
      BY <2>1, <3>1 DEF Fine, Complete, Progress
  <2> QED
    BY <2>2 DEF BootsFine
<1>3. LockHeld'
  BY DEF LockHeld, Migrating
<1>4. StillSure'
  <2>1. ASSUME dialect # "sqlite", NEW c \in Boots, boot'[c].state = "migrating", boot'[c].looked
        PROVE  Sure(dialect, db', boot'[c].todo)
    <3>1. CASE c = b
      BY <2>1, <3>1
    <3>2. CASE c # b
      <4>1. boot'[c] = boot[c] /\ db' = db
        BY <2>1, <3>2 DEF Migrating
      <4>2. Sure(dialect, db, boot[c].todo)
        BY <2>1, <4>1 DEF MigrationsInv, StillSure, Migrating
      <4> QED
        BY <4>1, <4>2
    <3> QED
      BY <3>1, <3>2
  <2> QED
    BY <2>1 DEF StillSure, Migrating
<1> QED
  BY <1>1, <1>2, <1>3, <1>4 DEF MigrationsInv

\* A boot comes to rest, with the lock given back if it holds it.
LEMMA BootEnds ==
  ASSUME MigrationsInv, NEW b \in Boots,
         NEW x \in BootType, boot' = [boot EXCEPT ![b] = x],
         x.state # "migrating", Fine(dialect, db, b, x),
         lock' = IF lock = b THEN "free" ELSE lock, dialect' = dialect /\ found' = found, db' = db
  PROVE  MigrationsInv'
<1>1. boot \in [Boots -> BootType]
  BY DEF MigrationsInv, BootsTyped
<1>2. boot' \in [Boots -> BootType] /\ boot'[b] = x /\ \A c \in Boots : c # b => boot'[c] = boot[c]
  BY <1>1
<1>3. ASSUME NEW c \in Boots, c # b, dialect # "sqlite", Migrating(c) PROVE lock' = c
  BY <1>3 DEF MigrationsInv, LockHeld
<1>4. DeployedOn(dialect, db')
  BY DEF MigrationsInv
<1> QED
  BY <1>2, <1>3, <1>4, BootMoves

LEMMA BootFinishes ==
  ASSUME MigrationsInv, NEW b \in Boots, NEW state \in {"ready", "failed"}, NEW why \in Whys,
         NEW trusted \in SUBSET Constraints, Finish(b, state, why, trusted),
         dialect' = dialect /\ found' = found, db' = db,
         state = "ready" => Complete(dialect, db, b, trusted),
         dialect # "sqlite" => why \notin {"exists", "missing"}
  PROVE  MigrationsInv'
<1> DEFINE x == [AtRest EXCEPT !.state = state, !.why = why, !.trusted = trusted]
<1>1. x \in BootType /\ x.state = state /\ x.why = why /\ x.trusted = trusted
  BY Rested DEF BootType, AtRest
<1>2. boot' = [boot EXCEPT ![b] = x] /\ lock' = IF lock = b THEN "free" ELSE lock
  BY DEF Finish
<1> HIDE DEF x
<1>3. Fine(dialect, db, b, x) /\ x.state # "migrating"
  BY <1>1 DEF Fine
<1> QED
  BY <1>1, <1>2, <1>3, BootEnds

-----------------------------------------------------------------------------
(* Migrations: every action preserves the invariant *)

LEMMA LockKeeps ==
  ASSUME MigrationsInv, NEW b \in Boots, lockForMigration(b)
  PROVE  MigrationsInv'
<1> DEFINE x == [AtRest EXCEPT !.state = "migrating", !.pass = 1]
<1>1. boot \in [Boots -> BootType] /\ boot[b].state = "idle" /\ boot[b] = AtRest
  BY DEF MigrationsInv, BootsTyped, BootsFine, Fine, lockForMigration
<1>2. boot' = [boot EXCEPT ![b] = x]
  BY <1>1 DEF lockForMigration
<1>3. /\ x \in BootType /\ x.state = "migrating" /\ x.pass = 1 /\ x.at = 1 /\ x.looked = FALSE
      /\ x.todo = <<>> /\ x.why = "ok"
  <2>1. x \in BootType
    <3>1. 1 \in 0 .. 4 /\ "migrating" \in {"idle", "migrating", "ready", "failed"}
      OBVIOUS
    <3> QED
      BY <3>1, Rested DEF BootType
  <2> QED
    BY <2>1 DEF AtRest
<1> HIDE DEF x
<1>4. boot' \in [Boots -> BootType] /\ boot'[b] = x /\ \A c \in Boots : c # b => boot'[c] = boot[c]
  BY <1>1, <1>2, <1>3
<1>5. Fine(dialect, db, b, x)
  <2>1. \A p \in 1 .. 4, i \in 1 .. Len(Tables) : ~Passed(x, p, i)
    BY <1>3, Schema DEF Passed
  <2>2. Progress(dialect, db, x)
    BY <1>3, <2>1 DEF Progress
  <2>3. \A k \in 1 .. Len(x.todo) : x.todo[k] # <<>>
    BY <1>3
  <2> QED
    BY <1>3, <2>2, <2>3 DEF Fine
<1>6. dialect' = dialect /\ found' = found /\ db' = db /\ (dialect # "sqlite" => lock = "free" /\ lock' = b)
  BY DEF lockForMigration
<1>7. ASSUME NEW c \in Boots, dialect # "sqlite", Migrating(c) PROVE FALSE
  <2>1. c # "free"
    BY MigrationsAssumption
  <2> QED
    BY <1>6, <1>7, <2>1 DEF MigrationsInv, LockHeld
<1>8. DeployedOn(dialect, db')
  BY <1>6 DEF MigrationsInv
<1> QED
  BY <1>3, <1>4, <1>5, <1>6, <1>7, <1>8, BootMoves

LEMMA TimeoutKeeps ==
  ASSUME MigrationsInv, NEW b \in Boots, LockTimeout(b)
  PROVE  MigrationsInv'
<1>1. Finish(b, "failed", "timeout", {}) /\ dialect' = dialect /\ found' = found /\ db' = db
  BY DEF LockTimeout
<1>2. "timeout" \in Whys
  BY DEF Whys
<1> QED
  BY <1>1, <1>2, BootFinishes

\* A boot goes on with its migration, the database as it is or with what it did.
LEMMA BootGoesOn ==
  ASSUME MigrationsInv, NEW b \in Boots, Migrating(b),
         NEW x \in BootType, boot' = [boot EXCEPT ![b] = x], x.state = "migrating",
         Fine(dialect, db', b, x),
         lock' = lock, dialect' = dialect /\ found' = found, db \subseteq db', DeployedOn(dialect, db'),
         dialect # "sqlite" /\ x.looked => Sure(dialect, db', x.todo)
  PROVE  MigrationsInv'
<1>1. boot \in [Boots -> BootType]
  BY DEF MigrationsInv, BootsTyped
<1>2. boot' \in [Boots -> BootType] /\ boot'[b] = x /\ \A c \in Boots : c # b => boot'[c] = boot[c]
  BY <1>1
<1>3. dialect # "sqlite" => lock = b /\ \A c \in Boots : c # b => ~Migrating(c)
  BY DEF MigrationsInv, LockHeld
<1> QED
  BY <1>2, <1>3, BootMoves

LEMMA LookKeeps ==
  ASSUME MigrationsInv, NEW b \in Boots, Look(b)
  PROVE  MigrationsInv'
<1>0. PICK failed \in SUBSET Asked(b) :
         boot' = [boot EXCEPT ![b].looked = TRUE, ![b].todo = Batches(b, failed),
                              ![b].trusted = @ \cup failed]
  BY DEF Look
<1> DEFINE x == [boot[b] EXCEPT !.looked = TRUE, !.todo = Batches(b, failed),
                                !.trusted = boot[b].trusted \cup failed]
<1>1. /\ Migrating(b) /\ boot[b] \in BootType /\ Fine(dialect, db, b, boot[b])
      /\ Engine /\ DeployedOn(dialect, db)
  BY DEF Look, MigrationsInv, BootsTyped, BootsFine
<1>2. boot[b].pass \in 1 .. 4 /\ Progress(dialect, db, boot[b])
      /\ boot[b].state = "migrating" /\ boot[b].at \in 1 .. Len(Tables)
  BY <1>1 DEF Fine, Migrating, BootType
<1>3. At(b) = Tables[boot[b].at] /\ At(b) \in Range(Tables)
  BY <1>2, Schema DEF At
<1>4. PlannedBut(dialect, db, boot[b].pass, At(b), Batches(b, failed), failed)
  BY <1>1, <1>2, <1>3, Planning
<1>5. Batches(b, failed) \in Seq(Seq(Statement))
  BY <1>4 DEF PlannedBut
<1>6. /\ x \in BootType /\ x.state = "migrating" /\ x.pass = boot[b].pass /\ x.at = boot[b].at
      /\ x.looked = TRUE /\ x.todo = Batches(b, failed) /\ x.why = boot[b].why
      /\ x.trusted = boot[b].trusted \cup failed
  BY <1>1, <1>2, <1>5, <1>0 DEF BootType, Asked
<1>7. /\ boot' = [boot EXCEPT ![b] = x]
      /\ lock' = lock /\ dialect' = dialect /\ found' = found /\ db' = db
  BY <1>1, <1>0 DEF Look
<1> HIDE DEF x
<1>8. Fine(dialect, db, b, x)
  <2>1. Progress(dialect, db, x)
    <3>1. \A p \in 1 .. 4, i \in 1 .. Len(Tables) : Passed(x, p, i) => Passed(boot[b], p, i)
      BY <1>6 DEF Passed
    <3>2. \A o \in Goal(dialect, x.pass, Tables[x.at]) : o \in db \cup x.trusted \/ Owes(x.todo, o)
      BY <1>3, <1>4, <1>6 DEF PlannedBut
    <3>3. boot[b].trusted \subseteq x.trusted
      BY <1>6
    <3> QED
      BY <1>2, <3>1, <3>2, <3>3 DEF Progress
  <2>2. \A k \in 1 .. Len(x.todo) : x.todo[k] # <<>>
    BY <1>4, <1>6 DEF PlannedBut
  <2> QED
    BY <1>1, <1>2, <1>6, <2>1, <2>2 DEF Fine
<1>9. dialect # "sqlite" => Sure(dialect, db, x.todo)
  BY <1>4, <1>6 DEF PlannedBut
<1> QED
  BY <1>1, <1>6, <1>7, <1>8, <1>9, BootGoesOn

\* What has been applied leaves the boot where it was, with less to do.
LEMMA AppliedKeeps ==
  ASSUME MigrationsInv, NEW b \in Boots, Migrating(b), boot[b].looked, NEW rest,
         Carries(dialect, db, boot[b].todo, db', rest), DeployedOn(dialect, db'),
         boot' = [boot EXCEPT ![b].todo = rest], lock' = lock, dialect' = dialect /\ found' = found
  PROVE  MigrationsInv'
<1> DEFINE x == [boot[b] EXCEPT !.todo = rest]
<1>1. boot[b] \in BootType /\ Fine(dialect, db, b, boot[b]) /\ boot \in [Boots -> BootType]
  BY DEF MigrationsInv, BootsTyped, BootsFine
<1>2. boot[b].pass \in 1 .. 4 /\ Progress(dialect, db, boot[b]) /\ boot[b].state = "migrating"
  BY <1>1 DEF Fine, Migrating
<1>3. rest \in Seq(Seq(Statement)) /\ db \subseteq db'
  BY DEF Carries
<1>4. /\ x \in BootType /\ x.state = "migrating" /\ x.pass = boot[b].pass /\ x.at = boot[b].at
      /\ x.looked = boot[b].looked /\ x.todo = rest /\ x.why = boot[b].why
      /\ x.trusted = boot[b].trusted
  BY <1>1, <1>2, <1>3 DEF BootType
<1>5. boot' = [boot EXCEPT ![b] = x]
  BY <1>1
<1> HIDE DEF x
<1>6. Fine(dialect, db', b, x)
  <2>1. Progress(dialect, db', x)
    <3>1. \A p \in 1 .. 4, i \in 1 .. Len(Tables) : Passed(x, p, i) => Passed(boot[b], p, i)
      BY <1>4 DEF Passed
    <3>2. \A o \in Goal(dialect, x.pass, Tables[x.at]) : o \in db' \cup x.trusted \/ Owes(x.todo, o)
      BY <1>2, <1>3, <1>4 DEF Progress, Carries
    <3>3. \A p \in 1 .. 4, i \in 1 .. Len(Tables) :
            Passed(x, p, i) => \A o \in Goal(dialect, p, Tables[i]) : o \in db' \cup x.trusted
      BY <1>2, <1>3, <1>4, <3>1 DEF Progress
    <3> QED
      BY <3>2, <3>3 DEF Progress
  <2>2. \A k \in 1 .. Len(x.todo) : x.todo[k] # <<>>
    BY <1>4 DEF Carries
  <2> QED
    BY <1>1, <1>2, <1>4, <2>1, <2>2 DEF Fine
<1>7. dialect # "sqlite" => Sure(dialect, db', x.todo)
  <2>1. dialect # "sqlite" => Sure(dialect, db, boot[b].todo)
    BY DEF MigrationsInv, StillSure
  <2> QED
    BY <1>4, <2>1 DEF Carries
<1> QED
  BY <1>3, <1>4, <1>5, <1>6, <1>7, BootGoesOn

\* A boot with batches to apply.
LEMMA Applying ==
  ASSUME MigrationsInv, NEW b \in Boots, Migrating(b), boot[b].looked, boot[b].todo # <<>>
  PROVE  /\ Pending(boot[b].todo) /\ Head(boot[b].todo) \in Seq(Statement)
         /\ Head(boot[b].todo) # <<>>
         /\ dialect # "sqlite" => Safe(dialect, db, Head(boot[b].todo))
<1> DEFINE todo == boot[b].todo
<1>1. boot[b] \in BootType /\ Fine(dialect, db, b, boot[b])
  BY DEF MigrationsInv, BootsTyped, BootsFine
<1>2. todo \in Seq(Seq(Statement)) /\ \A k \in 1 .. Len(todo) : todo[k] # <<>>
  BY <1>1 DEF Fine, Migrating, BootType
<1>3. dialect # "sqlite" => Sure(dialect, db, todo)
  BY DEF MigrationsInv, StillSure
<1> HIDE DEF todo
<1>4. todo # <<>>
  BY DEF todo
<1>5. Head(todo) = todo[1] /\ todo[1] \in Seq(Statement) /\ 1 \in 1 .. Len(todo)
  BY <1>2, <1>4, Rests
<1>6. Pending(todo)
  BY <1>2, <1>4 DEF Pending
<1> QED
  BY <1>2, <1>3, <1>5, <1>6 DEF Sure, todo

\* The answers there are.
LEMMA SomeAnswer ==
  ASSUME NEW d, NEW q \in Seq(Statement)
  PROVE  BatchAnswer(d, q) \in Whys
<1>1. ASSUME NEW x, NEW s PROVE Answer(x, s) \in Whys
  BY DEF Answer, Whys
<1>2. "ok" \in Whys
  BY DEF Whys
<1> QED
  BY <1>1, <1>2, FirstAnswer

LEMMA ApplyBatchKeeps ==
  ASSUME MigrationsInv, NEW b \in Boots, ApplyBatch(b)
  PROVE  MigrationsInv'
<1> DEFINE todo == boot[b].todo
           q == Head(todo)
<1>1. Migrating(b) /\ boot[b].looked /\ todo # <<>> /\ dialect' = dialect /\ found' = found
  BY DEF ApplyBatch
<1>2. /\ Pending(todo) /\ q \in Seq(Statement)
      /\ dialect # "sqlite" => Safe(dialect, db, q)
  BY <1>1, Applying
<1>3. CASE BatchAnswer(db, q) = "ok"
  <2>1. db' = BatchAfter(dialect, db, q) /\ boot' = [boot EXCEPT ![b].todo = Tail(todo)] /\ lock' = lock
    <3>1. boot' = [boot EXCEPT ![b].todo = Tail(@)] /\ db' = BatchAfter(dialect, db, q) /\ lock' = lock
      BY <1>3 DEF ApplyBatch
    <3>2. boot \in [Boots -> BootType]
      BY DEF MigrationsInv, BootsTyped
    <3> QED
      BY <3>1, <3>2
  <2>2. Carries(dialect, db, todo, db', Tail(todo))
    BY <1>2, <2>1, BatchApplied
  <2>3. DeployedOn(dialect, db')
    BY <1>2, <2>1, SafeLeaves DEF MigrationsInv
  <2> QED
    BY <1>1, <2>1, <2>2, <2>3, AppliedKeeps
<1>4. CASE BatchAnswer(db, q) # "ok"
  <2>1. db' = db /\ Finish(b, "failed", BatchAnswer(db, q), {})
    BY <1>4 DEF ApplyBatch
  <2>2. BatchAnswer(db, q) \in Whys
    BY <1>2, SomeAnswer
  <2>3. dialect # "sqlite" => BatchAnswer(db, q) \notin {"exists", "missing"}
    BY <1>2, SafeAnswer
  <2> QED
    BY <1>1, <2>1, <2>2, <2>3, BootFinishes
<1> QED
  BY <1>3, <1>4

LEMMA ApplyStatementKeeps ==
  ASSUME MigrationsInv, NEW b \in Boots, ApplyStatement(b)
  PROVE  MigrationsInv'
<1> DEFINE todo == boot[b].todo
           q == Head(todo)
           s == Head(q)
<1>1. /\ Migrating(b) /\ boot[b].looked /\ todo # <<>>
      /\ dialect' = dialect /\ found' = found /\ dialect = "mysql"
  BY DEF ApplyStatement
<1>2. Pending(todo) /\ q \in Seq(Statement) /\ q # <<>> /\ Safe(dialect, db, q)
  BY <1>1, Applying
<1>3. s = q[1] /\ s \in Statement /\ 1 \in 1 .. Len(q)
  BY <1>2, Rests
<1>4. Clear(db, s)
  BY <1>2, <1>3 DEF Clear, Safe, New
<1>5. CASE Answer(db, s) = "ok"
  <2>1. db' = After(dialect, db, s) /\ boot' = [boot EXCEPT ![b].todo = Rest(todo)] /\ lock' = lock
    BY <1>5 DEF ApplyStatement, Rest
  <2>2. Carries(dialect, db, todo, db', Rest(todo))
    BY <1>2, <2>1, StatementApplied
  <2>3. DeployedOn(dialect, db')
    BY <1>3, <1>4, <2>1, Leaves DEF MigrationsInv, Clear
  <2> QED
    BY <1>1, <2>1, <2>2, <2>3, AppliedKeeps
<1>6. CASE Answer(db, s) # "ok"
  <2>1. db' = db /\ Finish(b, "failed", Answer(db, s), {})
    BY <1>6 DEF ApplyStatement
  <2>2. Answer(db, s) \in {"ok", "duplicates"}
    BY <1>4, ClearAnswer
  <2>3. Answer(db, s) \in Whys /\ Answer(db, s) \notin {"exists", "missing"}
    BY <2>2 DEF Whys
  <2> QED
    BY <1>1, <2>1, <2>3, BootFinishes
<1> QED
  BY <1>5, <1>6

LEMMA NextTableKeeps ==
  ASSUME MigrationsInv, NEW b \in Boots, NextTable(b)
  PROVE  MigrationsInv'
<1> DEFINE old == boot[b]
           n == Len(Tables)
<1>1. /\ Migrating(b) /\ old.looked /\ old.todo = <<>> /\ Advance(b)
      /\ dialect' = dialect /\ found' = found /\ db' = db
  BY DEF NextTable
<1>2. /\ old \in BootType /\ Fine(dialect, db, b, old) /\ boot \in [Boots -> BootType]
      /\ DeployedOn(dialect, db)
  BY DEF MigrationsInv, BootsTyped, BootsFine
<1>3. /\ old.pass \in 1 .. 4 /\ Progress(dialect, db, old) /\ old.state = "migrating"
      /\ old.at \in 1 .. n /\ n \in Nat /\ n >= 1
  BY <1>1, <1>2, Schema DEF Fine, Migrating, BootType
<1>4. \A o \in Goal(dialect, old.pass, Tables[old.at]) : o \in db \cup old.trusted
  BY <1>1, <1>3 DEF Progress, Owes
<1>5. ASSUME NEW x \in BootType, boot' = [boot EXCEPT ![b] = x], x.state = "migrating",
             x.why = old.why, x.todo = <<>>, x.trusted = old.trusted, x.looked = FALSE,
             x.pass \in 1 .. 4,
             \A p \in 1 .. 4, i \in 1 .. n :
               Passed(x, p, i) => Passed(old, p, i) \/ (p = old.pass /\ i = old.at),
             lock' = lock
      PROVE  MigrationsInv'
  <2>1. Progress(dialect, db, x)
    BY <1>3, <1>4, <1>5 DEF Progress
  <2>2. \A k \in 1 .. Len(x.todo) : x.todo[k] # <<>>
    BY <1>5
  <2>3. Fine(dialect, db, b, x)
    BY <1>2, <1>5, <2>1, <2>2 DEF Fine
  <2> QED
    BY <1>1, <1>2, <1>5, <2>3, BootGoesOn
<1>6. CASE old.at < n
  <2> DEFINE x == [old EXCEPT !.at = old.at + 1, !.looked = FALSE]
  <2>1. boot' = [boot EXCEPT ![b].at = @ + 1, ![b].looked = FALSE] /\ lock' = lock
    BY <1>1, <1>6 DEF Advance
  <2>2. boot' = [boot EXCEPT ![b] = x]
    BY <1>2, <2>1
  <2>3. old.at + 1 \in 1 .. n
    BY <1>3, <1>6
  <2>4. /\ x \in BootType /\ x.state = "migrating" /\ x.pass = old.pass /\ x.at = old.at + 1
        /\ x.looked = FALSE /\ x.todo = <<>> /\ x.why = old.why /\ x.trusted = old.trusted
    BY <1>1, <1>2, <1>3, <2>3 DEF BootType
  <2> HIDE DEF x
  <2>5. ASSUME NEW p \in 1 .. 4, NEW i \in 1 .. n, Passed(x, p, i)
        PROVE  Passed(old, p, i) \/ (p = old.pass /\ i = old.at)
    <3>1. x.pass > p \/ (x.pass = p /\ x.at > i)
      BY <2>5 DEF Passed
    <3>2. old.pass > p \/ (old.pass = p /\ old.at + 1 > i)
      BY <2>4, <3>1
    <3> HIDE DEF old
    <3>3. old.pass \in Int /\ old.at \in Int /\ p \in Int /\ i \in Int
      BY <1>3
    <3>4. old.pass > p \/ (p = old.pass /\ (old.at > i \/ i = old.at))
      BY <3>2, <3>3
    <3> QED
      BY <3>4 DEF Passed, old
  <2> QED
    BY <1>3, <1>5, <2>1, <2>2, <2>4, <2>5
<1>7. CASE ~(old.at < n) /\ old.pass < 4
  <2> DEFINE x == [old EXCEPT !.at = 1, !.looked = FALSE, !.pass = old.pass + 1]
  <2>1. boot' = [boot EXCEPT ![b].at = 1, ![b].looked = FALSE, ![b].pass = @ + 1] /\ lock' = lock
    BY <1>1, <1>7 DEF Advance
  <2>2. boot' = [boot EXCEPT ![b] = x]
    BY <1>2, <2>1
  <2>3. old.pass + 1 \in 1 .. 4 /\ 1 \in 1 .. n
    BY <1>3, <1>7
  <2>4. /\ x \in BootType /\ x.state = "migrating" /\ x.pass = old.pass + 1 /\ x.at = 1
        /\ x.looked = FALSE /\ x.todo = <<>> /\ x.why = old.why /\ x.trusted = old.trusted
    <3>1. old.pass + 1 \in 0 .. 4
      BY <2>3
    <3>2. x \in BootType
      BY <1>2, <2>3, <3>1 DEF BootType
    <3>3. DOMAIN old = {"state", "pass", "at", "looked", "todo", "trusted", "why"}
      BY <1>2 DEF BootType
    <3> QED
      BY <1>1, <1>3, <3>2, <3>3
  <2> HIDE DEF x
  <2>5. ASSUME NEW p \in 1 .. 4, NEW i \in 1 .. n, Passed(x, p, i)
        PROVE  Passed(old, p, i) \/ (p = old.pass /\ i = old.at)
    <3>1. x.pass > p \/ (x.pass = p /\ x.at > i)
      BY <2>5 DEF Passed
    <3>2. old.pass + 1 > p \/ (old.pass + 1 = p /\ 1 > i)
      BY <2>4, <3>1
    <3> HIDE DEF old
    <3>3. old.pass \in Int /\ old.at \in 1 .. n /\ p \in Int /\ i \in 1 .. n /\ n \in Nat
      BY <1>3
    <3>4. ~(old.at < n)
      BY <1>7
    <3> HIDE DEF n
    <3>5. old.at = n /\ (old.pass > p \/ p = old.pass) /\ i \in Int /\ i <= n
      BY <3>2, <3>3, <3>4
    <3>6. old.pass > p \/ (p = old.pass /\ (old.at > i \/ i = old.at))
      BY <3>5, <3>3
    <3> QED
      BY <3>6 DEF Passed, old
  <2> QED
    BY <1>3, <1>5, <2>1, <2>2, <2>3, <2>4, <2>5
<1>8. CASE ~(old.at < n) /\ ~(old.pass < 4)
  <2>1. Finish(b, "ready", "ok", old.trusted) /\ old.trusted \in SUBSET Constraints
    BY <1>1, <1>2, <1>8 DEF Advance, BootType
  <2>2. old.pass = 4 /\ old.at = n
    BY <1>3, <1>8
  <2>3. ASSUME NEW p \in 1 .. 4, NEW i \in 1 .. n
        PROVE  \A o \in Goal(dialect, p, Tables[i]) : o \in db \cup old.trusted
    <3>1. Passed(old, p, i) \/ (p = old.pass /\ i = old.at)
      <4>1. p \in Int /\ p <= 4 /\ i \in Int /\ i <= n /\ n \in Int
        BY <1>3
      <4> HIDE DEF n, old
      <4>2. 4 > p \/ (p = 4 /\ (n > i \/ i = n))
        BY <4>1
      <4> QED
        BY <2>2, <4>2 DEF Passed, old, n
    <3> QED
      BY <1>3, <1>4, <3>1 DEF Progress
  <2>4. Complete(dialect, db, b, old.trusted)
    BY <1>2, <2>1, <2>3, PassesComplete
  <2>5. "ok" \in Whys
    BY DEF Whys
  <2> QED
    BY <1>1, <2>1, <2>4, <2>5, BootFinishes
<1> QED
  BY <1>6, <1>7, <1>8

LEMMA CheckSchemaKeeps ==
  ASSUME MigrationsInv, NEW b \in Boots, CheckSchema(b)
  PROVE  MigrationsInv'
<1>1. dialect' = dialect /\ found' = found /\ db' = db /\ b \in Verifiers /\ "ok" \in Whys /\ "drift" \in Whys
  BY DEF CheckSchema, Whys
<1>2. PICK failed \in SUBSET Constraints :
         IF NoDrift(failed) THEN Finish(b, "ready", "ok", failed) ELSE Finish(b, "failed", "drift", {})
  BY DEF CheckSchema
<1>3. CASE NoDrift(failed)
  <2>1. Finish(b, "ready", "ok", failed)
    BY <1>2, <1>3
  <2>2. Complete(dialect, db, b, failed)
    BY <1>1, <1>3, CheckedComplete
  <2> QED
    BY <1>1, <2>1, <2>2, BootFinishes
<1>4. CASE ~NoDrift(failed)
  <2>1. Finish(b, "failed", "drift", {})
    BY <1>2, <1>4
  <2> QED
    BY <1>1, <2>1, BootFinishes
<1> QED
  BY <1>3, <1>4

LEMMA AtRestKeeps ==
  ASSUME MigrationsInv, NEW b \in Boots, boot' = [boot EXCEPT ![b] = AtRest],
         lock' = IF lock = b THEN "free" ELSE lock, dialect' = dialect /\ found' = found, db' = db
  PROVE  MigrationsInv'
<1>1. AtRest \in BootType /\ AtRest.state = "idle" /\ AtRest.why = "ok"
  BY Rested DEF AtRest
<1>2. Fine(dialect, db, b, AtRest)
  BY <1>1 DEF Fine
<1> QED
  BY <1>1, <1>2, BootEnds

LEMMA RetryKeeps ==
  ASSUME MigrationsInv, NEW b \in Boots, Retry(b)
  PROVE  MigrationsInv'
<1>1. /\ boot[b].state = "failed" /\ boot' = [boot EXCEPT ![b] = AtRest]
      /\ lock' = lock /\ dialect' = dialect /\ found' = found /\ db' = db
  BY DEF Retry
<1>2. /\ boot \in [Boots -> BootType] /\ DeployedOn(dialect, db)
      /\ AtRest \in BootType /\ AtRest.state = "idle" /\ AtRest.why = "ok"
  BY Rested DEF MigrationsInv, BootsTyped, AtRest
<1>3. /\ boot' \in [Boots -> BootType] /\ boot'[b] = AtRest
      /\ \A c \in Boots : c # b => boot'[c] = boot[c]
  BY <1>1, <1>2
<1>4. Fine(dialect, db, b, AtRest)
  BY <1>2 DEF Fine
<1>5. \A c \in Boots : c # b /\ dialect # "sqlite" /\ Migrating(c) => lock' = c
  BY <1>1 DEF MigrationsInv, LockHeld
<1> QED
  BY <1>1, <1>2, <1>3, <1>4, <1>5, BootMoves

LEMMA MigrationsKeeps ==
  ASSUME MigrationsInv, [MigrationsNext]_migrationsVars
  PROVE  MigrationsInv'
<1>1. ASSUME NEW b \in Boots, Step(b) PROVE MigrationsInv'
  BY <1>1, LockKeeps, LookKeeps, ApplyBatchKeeps, ApplyStatementKeeps, NextTableKeeps,
     CheckSchemaKeeps DEF Step
<1>2. ASSUME NEW b \in Boots, LockTimeout(b) PROVE MigrationsInv'
  BY <1>2, TimeoutKeeps
<1>3. ASSUME NEW b \in Boots, Crash(b) PROVE MigrationsInv'
  BY <1>3, AtRestKeeps DEF Crash
<1>4. ASSUME NEW b \in Boots, Retry(b) PROVE MigrationsInv'
  BY <1>4, RetryKeeps
<1>5. ASSUME UNCHANGED <<dialect, found, db, lock, boot>> PROVE MigrationsInv'
  <2>1. DeployedOn(dialect, db)'
    BY <1>5 DEF MigrationsInv, DeployedOn, NeverMade
  <2>2. BootsFine'
    BY <1>5 DEF MigrationsInv, BootsFine, Fine, Complete, NeverMade
  <2> QED
    BY <1>5, <2>1, <2>2
    DEF MigrationsInv, Engine, BootsTyped, LockHeld, StillSure, Migrating
<1>6. ASSUME NEW c \in Constraints, WriteDuplicate(c) PROVE MigrationsInv'
  BY <1>5, <1>6 DEF WriteDuplicate
<1>7. CASE UNCHANGED migrationsVars
  BY <1>5, <1>7 DEF migrationsVars
<1> QED
  BY <1>1, <1>2, <1>3, <1>4, <1>6, <1>7 DEF MigrationsNext

LEMMA MigrationsStarts == MigrationsInit => MigrationsInv
<1> SUFFICES ASSUME MigrationsInit PROVE MigrationsInv
  OBVIOUS
<1>1. Engine /\ DeployedOn(dialect, db)
  BY MigrationsAssumption, BeforeAssumption DEF MigrationsInit, Engine, DeployedOn, NeverMade
<1>2. /\ AtRest \in BootType /\ AtRest.state = "idle" /\ AtRest.why = "ok"
      /\ boot = [b \in Boots |-> AtRest]
  BY Rested DEF MigrationsInit, AtRest
<1>3. BootsTyped
  BY <1>2 DEF BootsTyped
<1>4. BootsFine
  BY <1>2 DEF BootsFine, Fine
<1>5. LockHeld /\ StillSure
  BY <1>2 DEF LockHeld, StillSure, Migrating
<1> QED
  BY <1>1, <1>3, <1>4, <1>5 DEF MigrationsInv

\* "Fail startup on schema drift rather than at the first query": once New has
\* returned in any process, every declared table and column is there, and after
\* a Migrate, or a check on SQLite, every unique constraint that a migration can
\* make, but those the boot itself could not ask for.
THEOREM ReadyMeansCompleteHolds == MigrationsSpec => []ReadyMeansComplete
<1>1. MigrationsInv => ReadyMeansComplete
  BY DEF MigrationsInv, BootsFine, Fine, Complete, ReadyMeansComplete
<1> QED
  BY <1>1, MigrationsStarts, MigrationsKeeps, PTL DEF MigrationsSpec

\* "Serialise concurrent migrations": with the advisory lock no boot fails over
\* an object that another boot has made in the meantime.
THEOREM BootsDoNotCollideHolds == MigrationsSpec => []BootsDoNotCollide
<1>1. MigrationsInv => BootsDoNotCollide
  BY DEF MigrationsInv, BootsFine, Fine, BootsDoNotCollide
<1> QED
  BY <1>1, MigrationsStarts, MigrationsKeeps, PTL DEF MigrationsSpec
=============================================================================
