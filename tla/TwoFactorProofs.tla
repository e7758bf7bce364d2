--------------------------- MODULE TwoFactorProofs ---------------------------
(***************************************************************************)
(* Proofs about TwoFactor, for any number of requests, challenges, records *)
(* and codes: type correctness, one session per challenge, the counting of *)
(* wrong codes, single use of TOTP and backup codes, and CodesNeverReturn. *)
(***************************************************************************)
EXTENDS TwoFactor, TLAPS

\* A request at one of these labels has claimed its challenge: the row is
\* gone from the table until the request reinstates it or spends it.
Holding == {"reinstateDelete", "reinstate", "mint"}
Answering == Holding \cup {"claimCounter", "spendBackup", "deleteOTP", "fail", "complete"}

\* An unspent challenge is in one place: in one row, or claimed by one request.
Inv_OnePlace ==
  /\ \A a, b \in pending : a.token = b.token => a = b
  /\ \A row \in pending, r \in Requests :
       pc[r] \in Holding => loc[r].ch # row.token
  /\ \A q, r \in Requests :
       pc[q] \in Holding /\ pc[r] \in Holding /\ loc[q].ch = loc[r].ch => q = r

\* While it is there no session came of it, and the row, or the request about
\* to write it back, has the number of wrong codes counted so far.
Inv_Unspent ==
  /\ \A row \in pending :
       /\ row.token \in issued
       /\ sessions[row.token] = 0
       /\ row.attempts = fails[row.token]
  /\ \A r \in Requests :
       /\ pc[r] \in Answering => loc[r].ch \in issued
       /\ pc[r] \in Holding => sessions[loc[r].ch] = 0
       /\ pc[r] \in {"reinstateDelete", "reinstate"} => loc[r].attempts = fails[loc[r].ch]

\* Challenges not issued yet have no past, the others have a bounded one.
Inv_Counts ==
  /\ \A ch \in Challenges \ issued : fails[ch] = 0 /\ sessions[ch] = 0
  /\ \A ch \in Challenges : fails[ch] <= MaxVerifyAttempts
  /\ OneSessionPerChallenge

Inv_Challenge == Inv_OnePlace /\ Inv_Unspent /\ Inv_Counts

\* Records and code sets are told apart by the identity they were drawn with.
Inv_Rows ==
  /\ \A rec \in recs : rec.id < ids
  /\ \A a, b \in recs : a.id = b.id => a = b
  /\ \A rec \in recs : \A code \in rec.backupCodes : code.set < ids
  /\ \A a, b \in recs : \A code \in a.backupCodes : code \in b.backupCodes => a = b

\* No accepted code can be accepted again: the record of a TOTP code, if it is
\* still there, has reached the code's step, and a backup code is not stored.
Inv_Accepted ==
  \A code \in accepted :
    /\ code.id < ids
    /\ code.by = "totp" => \A rec \in recs : rec.id = code.id => code.n <= rec.lastCounter
    /\ code.by = "backup" => \A rec \in recs : [set |-> code.id, n |-> code.n] \notin rec.backupCodes

\* What a request is about to spend belongs to the record it has read.
Reads(r) ==
  /\ pc[r] = "claimCounter" =>
       /\ loc[r].rec \in Record /\ loc[r].rec.id < ids
       /\ loc[r].factor \in Factor
       /\ loc[r].factor.n \in Step
       /\ loc[r].factor.by = "totp" /\ loc[r].factor.id = loc[r].rec.id
  /\ pc[r] = "spendBackup" =>
       /\ loc[r].rec \in Record
       /\ loc[r].factor \in Factor
       /\ loc[r].factor.by = "backup" /\ SpentCode(r) \in loc[r].rec.backupCodes

Inv_Read == \A r \in Requests : Reads(r)

Inv_Codes == Inv_Rows /\ Inv_Accepted /\ Inv_Read /\ replayed = {}

\* The inductive invariant.
IInv == TypeOK /\ Inv_Challenge /\ Inv_Codes

\* What the assumption says of each constant.
LEMMA Constants ==
  /\ MaxVerifyAttempts \in Nat /\ MaxVerifyAttempts > 0
  /\ BackupCodeCount \in Nat /\ MaxStep \in Nat /\ MaxIds \in Nat
BY TwoFactorAssumption DEF TwoFactorAssumption

\* Identities and steps are integers, so they can be compared.
LEMMA Numbers ==
  /\ \A rec \in Record : rec.id \in Int /\ rec.lastCounter \in Int
  /\ \A code \in BackupCode : code.set \in Int /\ code.n \in Nat
  /\ \A code \in Factor : code.id \in Int /\ code.n \in Int
BY Constants DEF Record, BackupCode, Factor, Id, Step

LEMMA NoLocalsType == NoLocals \in Locals
BY Constants DEF NoLocals, Locals

\* Request r goes on at label with these locals, the others stay.
Moves(r, label, locals) == Goto(r, label) /\ loc' = [loc EXCEPT ![r] = locals]

LEMMA MovesType ==
  ASSUME NEW r \in Requests, NEW label \in PCs, NEW locals \in Locals,
         pc \in [Requests -> PCs], loc \in [Requests -> Locals], Moves(r, label, locals)
  PROVE  /\ pc' \in [Requests -> PCs] /\ loc' \in [Requests -> Locals]
         /\ pc'[r] = label /\ loc'[r] = locals
         /\ \A q \in Requests \ {r} : pc'[q] = pc[q] /\ loc'[q] = loc[q]
<1> HIDE DEF Locals
<1> QED
  BY DEF Moves, Goto

\* A step that moves a request to where it holds no challenge, and leaves the
\* challenges alone.
LEMMA ChallengeFrame ==
  ASSUME IInv, NEW r \in Requests, NEW label \in PCs \ Holding, NEW locals \in Locals,
         Moves(r, label, locals), label \in Answering => locals.ch \in issued,
         UNCHANGED <<pending, issued, fails, sessions>>
  PROVE  Inv_Challenge'
<1>1. /\ pc'[r] = label /\ loc'[r] = locals
      /\ \A q \in Requests \ {r} : pc'[q] = pc[q] /\ loc'[q] = loc[q]
  BY MovesType DEF IInv, TypeOK
<1>2. pc'[r] \notin Holding
  BY <1>1
<1>3. Inv_OnePlace'
  BY <1>1, <1>2 DEF IInv, Inv_Challenge, Inv_OnePlace
<1>4. Inv_Unspent'
  BY <1>1, <1>2 DEF IInv, Inv_Challenge, Inv_Unspent, Holding
<1>5. Inv_Counts'
  BY DEF IInv, Inv_Challenge, Inv_Counts, OneSessionPerChallenge
<1> QED
  BY <1>3, <1>4, <1>5 DEF Inv_Challenge

\* A step that moves a request to where it spends no code, and at most
\* removes records and draws an identity.
LEMMA CodesFrame ==
  ASSUME IInv, NEW r \in Requests, NEW label \in PCs \ {"claimCounter", "spendBackup"},
         NEW locals \in Locals, Moves(r, label, locals),
         recs' \subseteq recs, ids' \in {ids, ids + 1}, UNCHANGED <<accepted, replayed>>
  PROVE  Inv_Codes'
<1>1. /\ pc'[r] = label
      /\ \A q \in Requests \ {r} : pc'[q] = pc[q] /\ loc'[q] = loc[q]
  BY MovesType DEF IInv, TypeOK
<1>2. ids \in Int /\ recs \subseteq Record /\ accepted \subseteq Factor
  BY DEF IInv, TypeOK
<1>3. Inv_Rows'
  BY <1>2, Numbers DEF IInv, Inv_Codes, Inv_Rows, Record
<1>4. Inv_Accepted'
  BY <1>2, Numbers DEF IInv, Inv_Codes, Inv_Accepted
<1>5. Inv_Read'
  <2> SUFFICES ASSUME NEW q \in Requests
               PROVE  Reads(q)'
    BY DEF Inv_Read
  <2>1. CASE q = r
    BY <1>1, <2>1 DEF Reads
  <2>2. CASE q # r
    BY <1>1, <1>2, <2>2, Numbers DEF IInv, Inv_Codes, Inv_Read, Reads, SpentCode
  <2> QED
    BY <2>1, <2>2
<1> QED
  BY <1>3, <1>4, <1>5 DEF IInv, Inv_Codes

\* Both at once: what the steps have in common that neither claim nor spend.
LEMMA QuietStep ==
  ASSUME IInv, NEW r \in Requests,
         NEW label \in PCs \ (Holding \cup {"claimCounter", "spendBackup"}),
         NEW locals \in Locals, Moves(r, label, locals),
         label \in Answering => locals.ch \in issued,
         recs' \subseteq recs, ids' \in {ids, ids + 1}, ids' \in 0 .. MaxIds,
         enabled' \in BOOLEAN, otps' \subseteq Id,
         UNCHANGED <<pending, issued, history>>
  PROVE  IInv'
<1>1. TypeOK'
  BY MovesType DEF IInv, TypeOK, history
<1>2. Inv_Challenge'
  BY ChallengeFrame DEF history
<1>3. Inv_Codes'
  BY CodesFrame DEF history
<1> QED
  BY <1>1, <1>2, <1>3 DEF IInv

\* Initially nothing is issued, stored or accepted.
LEMMA InitInv == Init => IInv
<1> SUFFICES ASSUME Init PROVE IInv
  OBVIOUS
<1>1. pc \in [Requests -> {"idle"}]
  BY DEF Init
<1>2. TypeOK
  <2>1. loc \in [Requests -> Locals]
    BY NoLocalsType DEF Init
  <2>2. 0 \in 0 .. MaxIds /\ fails \in [Challenges -> Nat] /\ sessions \in [Challenges -> Nat]
    BY Constants DEF Init
  <2> QED
    BY <1>1, <2>1, <2>2 DEF Init, TypeOK, PCs
<1>3. Inv_Challenge
  BY <1>1, Constants DEF Init, Inv_Challenge, Inv_OnePlace, Inv_Unspent, Inv_Counts,
     OneSessionPerChallenge, Holding, Answering
<1>4. Inv_Codes
  BY <1>1 DEF Init, Inv_Codes, Inv_Rows, Inv_Accepted, Inv_Read, Reads
<1> QED
  BY <1>2, <1>3, <1>4 DEF IInv

-----------------------------------------------------------------------------
(* Steps that take a challenge or put it back *)

\* A new challenge has one row and no past.
LEMMA BeforeSignInInv ==
  ASSUME IInv, NEW ch \in Challenges, BeforeSignIn(ch)
  PROVE  IInv'
<1> DEFINE row == [token |-> ch, attempts |-> 0]
<1>1. row \in PendingRow /\ row.token = ch /\ row.attempts = 0
  BY Constants DEF PendingRow
<1>2. /\ ch \notin issued /\ issued' = issued \cup {ch} /\ pending' = pending \cup {row}
      /\ UNCHANGED <<enabled, recs, otps, ids, pc, loc, fails, sessions, accepted, replayed>>
  BY DEF BeforeSignIn, history
<1> HIDE DEF row
<1>3. TypeOK'
  BY <1>1, <1>2 DEF IInv, TypeOK
<1>4. \A x \in pending : x.token # ch
  BY <1>2 DEF IInv, Inv_Challenge, Inv_Unspent
<1>5. \A q \in Requests : pc[q] \in Holding => loc[q].ch # ch
  BY <1>2 DEF IInv, Inv_Challenge, Inv_Unspent, Answering
<1>6. Inv_OnePlace'
  BY <1>1, <1>2, <1>4, <1>5 DEF IInv, Inv_Challenge, Inv_OnePlace
<1>7. Inv_Unspent'
  BY <1>1, <1>2 DEF IInv, Inv_Challenge, Inv_Unspent, Inv_Counts
<1>8. Inv_Counts'
  BY <1>2 DEF IInv, Inv_Challenge, Inv_Counts, OneSessionPerChallenge
<1>9. Inv_Codes'
  BY <1>2 DEF IInv, Inv_Codes, Inv_Rows, Inv_Accepted, Inv_Read, Reads, SpentCode
<1> QED
  BY <1>3, <1>6, <1>7, <1>8, <1>9 DEF IInv, Inv_Challenge

LEMMA PendingExpiresInv ==
  ASSUME IInv, PendingExpires
  PROVE  IInv'
<1>1. /\ pending' \subseteq pending
      /\ UNCHANGED <<enabled, recs, otps, issued, ids, pc, loc, fails, sessions, accepted, replayed>>
  BY DEF PendingExpires, history
<1>2. TypeOK'
  BY <1>1 DEF IInv, TypeOK
<1>3. Inv_Challenge'
  BY <1>1 DEF IInv, Inv_Challenge, Inv_OnePlace, Inv_Unspent, Inv_Counts, OneSessionPerChallenge
<1>4. Inv_Codes'
  BY <1>1 DEF IInv, Inv_Codes, Inv_Rows, Inv_Accepted, Inv_Read, Reads, SpentCode
<1> QED
  BY <1>2, <1>3, <1>4 DEF IInv

\* A request that takes the only row of its challenge is the only one to hold
\* it, and nothing came of that challenge before.
LEMMA Claim ==
  ASSUME IInv, NEW row \in pending
  PROVE  /\ row \in PendingRow /\ row.token \in issued
         /\ \A x \in pending \ {row} : x.token # row.token
         /\ \A q \in Requests : pc[q] \in Holding => loc[q].ch # row.token
         /\ sessions[row.token] = 0 /\ fails[row.token] = row.attempts
BY DEF IInv, TypeOK, Inv_Challenge, Inv_OnePlace, Inv_Unspent

LEMMA FailAttemptInv ==
  ASSUME IInv, NEW r \in Requests, FailAttempt(r)
  PROVE  IInv'
<1>0. UNCHANGED <<enabled, recs, otps, issued, ids, sessions, accepted, replayed>>
  BY DEF FailAttempt
<1>1. CASE Return(r) /\ UNCHANGED <<pending, fails>>
  <2>1. Moves(r, "idle", NoLocals)
    BY <1>1 DEF Return, Moves
  <2> QED
    BY <1>0, <1>1, <2>1, NoLocalsType, QuietStep DEF PCs, Holding, Answering, history, IInv, TypeOK
<1>2. ASSUME NEW row \in pending,
             row.token = loc[r].ch, pending' = pending \ {row},
             fails' = [fails EXCEPT ![loc[r].ch] = @ + 1],
             \/ /\ row.attempts + 1 >= MaxVerifyAttempts
                /\ Return(r)
             \/ /\ row.attempts + 1 < MaxVerifyAttempts
                /\ Goto(r, "reinstateDelete")
                /\ loc' = [loc EXCEPT ![r].attempts = row.attempts + 1]
      PROVE  IInv'
  <2> DEFINE ch == row.token
             count == row.attempts + 1
             label == IF count < MaxVerifyAttempts THEN "reinstateDelete" ELSE "idle"
             locals == IF count < MaxVerifyAttempts THEN [loc[r] EXCEPT !.attempts = count]
                       ELSE NoLocals
  <2>1. /\ row.attempts \in 0 .. MaxVerifyAttempts - 1 /\ ch \in issued /\ ch \in Challenges
        /\ \A x \in pending \ {row} : x.token # ch
        /\ \A q \in Requests : pc[q] \in Holding => loc[q].ch # ch
        /\ sessions[ch] = 0 /\ fails[ch] = row.attempts
    BY Claim DEF PendingRow, IInv, TypeOK
  <2>2. count \in Nat /\ (count < MaxVerifyAttempts => count \in 0 .. MaxVerifyAttempts - 1)
        /\ count <= MaxVerifyAttempts
    BY <2>1, Constants
  <2>3. loc[r] \in Locals /\ loc[r].ch = ch
    BY <1>2 DEF IInv, TypeOK
  <2>4. locals \in Locals /\ (label = "reinstateDelete" => locals.ch = ch /\ locals.attempts = count)
    BY <2>2, <2>3, NoLocalsType DEF Locals
  <2>5. label \in PCs /\ label \in {"reinstateDelete", "idle"}
    BY DEF PCs
  <2>6. Moves(r, label, locals)
    BY <1>2, <2>1, <2>2, Constants DEF Moves, Return
  <2>7. fails' = [fails EXCEPT ![ch] = count] /\ fails \in [Challenges -> Nat]
    BY <1>2, <2>1 DEF IInv, TypeOK
  <2>8. fails' \in [Challenges -> Nat] /\ fails'[ch] = count
        /\ \A c \in Challenges \ {ch} : fails'[c] = fails[c]
    BY <2>1, <2>2, <2>7
  <2> HIDE DEF label, locals, count, ch
  <2>9. /\ pc' \in [Requests -> PCs] /\ loc' \in [Requests -> Locals]
        /\ pc'[r] = label /\ loc'[r] = locals
        /\ \A q \in Requests \ {r} : pc'[q] = pc[q] /\ loc'[q] = loc[q]
    BY <2>4, <2>5, <2>6, MovesType DEF IInv, TypeOK
  <2>10. TypeOK'
    BY <1>0, <1>2, <2>8, <2>9 DEF IInv, TypeOK
  <2>11. Inv_OnePlace'
    BY <1>2, <2>1, <2>4, <2>5, <2>9 DEF IInv, Inv_Challenge, Inv_OnePlace, Holding, ch
  <2>12. Inv_Unspent'
    <3>1. \A x \in pending' : x.token # ch /\ x.token \in Challenges /\ x \in pending
      BY <1>2, <2>1 DEF IInv, TypeOK, PendingRow
    <3>2. \A q \in Requests \ {r} : pc[q] \in Holding => loc[q].ch # ch /\ loc[q].ch \in Challenges
      BY <2>1 DEF IInv, Inv_Challenge, Inv_Unspent, Answering, TypeOK
    <3> QED
      BY <1>0, <2>1, <2>4, <2>5, <2>8, <2>9, <3>1, <3>2
      DEF IInv, Inv_Challenge, Inv_Unspent, Holding, Answering
  <2>13. Inv_Counts'
    BY <1>0, <2>1, <2>2, <2>8 DEF IInv, Inv_Challenge, Inv_Counts, OneSessionPerChallenge
  <2>14. Inv_Codes'
    BY <1>0, <2>4, <2>5, <2>6, CodesFrame
  <2> QED
    BY <2>10, <2>11, <2>12, <2>13, <2>14 DEF IInv, Inv_Challenge
<1> QED
  BY <1>1, <1>2 DEF FailAttempt

LEMMA ReinstateDeleteInv ==
  ASSUME IInv, NEW r \in Requests, ReinstateDelete(r)
  PROVE  IInv'
<1>1. /\ pc[r] = "reinstateDelete" /\ pending' \subseteq pending
      /\ UNCHANGED <<enabled, recs, otps, issued, ids, loc, fails, sessions, accepted, replayed>>
  BY DEF ReinstateDelete, history
<1>2. /\ loc \in [Requests -> Locals] /\ "reinstate" \in PCs
      /\ Moves(r, "reinstate", loc[r])
  BY DEF ReinstateDelete, Moves, PCs, IInv, TypeOK
<1>3. /\ pc' \in [Requests -> PCs] /\ pc'[r] = "reinstate"
      /\ \A q \in Requests \ {r} : pc'[q] = pc[q]
  BY <1>2, MovesType DEF IInv, TypeOK
<1>4. TypeOK'
  BY <1>1, <1>3 DEF IInv, TypeOK
<1>5. Inv_OnePlace'
  BY <1>1, <1>3 DEF IInv, Inv_Challenge, Inv_OnePlace, Holding
<1>6. Inv_Unspent'
  BY <1>1, <1>3 DEF IInv, Inv_Challenge, Inv_Unspent, Holding, Answering
<1>7. Inv_Counts'
  BY <1>1 DEF IInv, Inv_Challenge, Inv_Counts, OneSessionPerChallenge
<1>8. Inv_Codes'
  BY <1>1, <1>2, CodesFrame
<1> QED
  BY <1>4, <1>5, <1>6, <1>7, <1>8 DEF IInv, Inv_Challenge

\* The row comes back with the count of its challenge, and the request lets go.
LEMMA ReinstateInv ==
  ASSUME IInv, NEW r \in Requests, Reinstate(r)
  PROVE  IInv'
<1> DEFINE ch == loc[r].ch
           row == [token |-> ch, attempts |-> loc[r].attempts]
<1>1. /\ pc[r] = "reinstate" /\ pending' = pending \cup {row}
      /\ UNCHANGED <<enabled, recs, otps, issued, ids, fails, sessions, accepted, replayed>>
      /\ Moves(r, "idle", NoLocals)
  BY DEF Reinstate, Return, Moves, history
<1>2. /\ ch \in issued /\ sessions[ch] = 0 /\ loc[r].attempts = fails[ch]
      /\ loc[r] \in Locals /\ ch \in Challenges
  BY <1>1 DEF IInv, TypeOK, Inv_Challenge, Inv_Unspent, Holding, Answering
<1>3. row \in PendingRow /\ row.token = ch /\ row.attempts = fails[ch]
  BY <1>2 DEF PendingRow, Locals
<1>4. /\ \A x \in pending : x.token # ch
      /\ \A q \in Requests \ {r} : pc[q] \in Holding => loc[q].ch # ch
  BY <1>1 DEF IInv, Inv_Challenge, Inv_OnePlace, Holding
<1> HIDE DEF row, ch
<1>5. /\ pc' \in [Requests -> PCs] /\ loc' \in [Requests -> Locals] /\ pc'[r] = "idle"
      /\ \A q \in Requests \ {r} : pc'[q] = pc[q] /\ loc'[q] = loc[q]
  BY <1>1, NoLocalsType, MovesType DEF IInv, TypeOK, PCs
<1>6. TypeOK'
  BY <1>1, <1>3, <1>5 DEF IInv, TypeOK
<1>7. Inv_OnePlace'
  BY <1>1, <1>3, <1>4, <1>5 DEF IInv, Inv_Challenge, Inv_OnePlace, Holding
<1>8. Inv_Unspent'
  BY <1>1, <1>2, <1>3, <1>5 DEF IInv, Inv_Challenge, Inv_Unspent, Holding, Answering
<1>9. Inv_Counts'
  BY <1>1 DEF IInv, Inv_Challenge, Inv_Counts, OneSessionPerChallenge
<1>10. Inv_Codes'
  BY <1>1, NoLocalsType, CodesFrame DEF PCs
<1> QED
  BY <1>6, <1>7, <1>8, <1>9, <1>10 DEF IInv, Inv_Challenge

LEMMA CompletePendingInv ==
  ASSUME IInv, NEW r \in Requests, CompletePending(r)
  PROVE  IInv'
<1>0. /\ UNCHANGED <<enabled, recs, otps, issued, ids, fails, sessions, accepted, replayed>>
      /\ loc[r] \in Locals
  BY DEF CompletePending, history, IInv, TypeOK
<1>1. CASE Return(r) /\ UNCHANGED pending
  <2>1. Moves(r, "idle", NoLocals)
    BY <1>1 DEF Return, Moves
  <2> QED
    BY <1>0, <1>1, <2>1, NoLocalsType, QuietStep DEF PCs, Holding, Answering, history, IInv, TypeOK
<1>2. ASSUME NEW row \in pending,
             row.token = loc[r].ch, pending' = pending \ {row}, Goto(r, "mint"), UNCHANGED loc
      PROVE  IInv'
  <2> DEFINE ch == row.token
  <2>1. /\ ch \in issued /\ \A x \in pending \ {row} : x.token # ch
        /\ \A q \in Requests : pc[q] \in Holding => loc[q].ch # ch
        /\ sessions[ch] = 0 /\ ch = loc[r].ch
    BY <1>2, Claim
  <2> HIDE DEF ch
  <2>2. Moves(r, "mint", loc[r]) /\ "mint" \in PCs
    BY <1>2 DEF Moves, PCs, IInv, TypeOK
  <2>3. /\ pc' \in [Requests -> PCs] /\ pc'[r] = "mint"
        /\ \A q \in Requests \ {r} : pc'[q] = pc[q]
    BY <1>0, <2>2, MovesType DEF IInv, TypeOK
  <2>4. TypeOK'
    BY <1>0, <1>2, <2>3 DEF IInv, TypeOK
  <2>5. Inv_OnePlace'
    BY <1>2, <2>1, <2>3 DEF IInv, Inv_Challenge, Inv_OnePlace, Holding
  <2>6. Inv_Unspent'
    BY <1>0, <1>2, <2>1, <2>3 DEF IInv, Inv_Challenge, Inv_Unspent, Holding, Answering
  <2>7. Inv_Counts'
    BY <1>0 DEF IInv, Inv_Challenge, Inv_Counts, OneSessionPerChallenge
  <2>8. Inv_Codes'
    BY <1>0, <2>2, CodesFrame
  <2> QED
    BY <2>4, <2>5, <2>6, <2>7, <2>8 DEF IInv, Inv_Challenge
<1> QED
  BY <1>1, <1>2 DEF CompletePending

\* The holder spends the challenge: it is in no row and no other request has it.
LEMMA CreateSessionForInv ==
  ASSUME IInv, NEW r \in Requests, CreateSessionFor(r)
  PROVE  IInv'
<1> DEFINE ch == loc[r].ch
<1>1. /\ pc[r] = "mint" /\ sessions' = [sessions EXCEPT ![ch] = @ + 1]
      /\ UNCHANGED <<enabled, recs, pending, otps, issued, ids, fails, accepted, replayed>>
      /\ Moves(r, "idle", NoLocals)
  BY DEF CreateSessionFor, Return, Moves
<1>2. ch \in issued /\ ch \in Challenges /\ sessions[ch] = 0
  BY <1>1 DEF IInv, TypeOK, Inv_Challenge, Inv_Unspent, Holding, Answering
<1>3. /\ \A x \in pending : x.token # ch
      /\ \A q \in Requests \ {r} : pc[q] \in Holding => loc[q].ch # ch
  BY <1>1 DEF IInv, Inv_Challenge, Inv_OnePlace, Holding
<1> HIDE DEF ch
<1>4. /\ sessions' \in [Challenges -> Nat] /\ sessions'[ch] = 1
      /\ \A c \in Challenges \ {ch} : sessions'[c] = sessions[c]
  BY <1>1, <1>2 DEF IInv, TypeOK
<1>5. /\ pc' \in [Requests -> PCs] /\ loc' \in [Requests -> Locals] /\ pc'[r] = "idle"
      /\ \A q \in Requests \ {r} : pc'[q] = pc[q] /\ loc'[q] = loc[q]
  BY <1>1, NoLocalsType, MovesType DEF IInv, TypeOK, PCs
<1>6. TypeOK'
  BY <1>1, <1>4, <1>5 DEF IInv, TypeOK
<1>7. Inv_OnePlace'
  BY <1>1, <1>5 DEF IInv, Inv_Challenge, Inv_OnePlace, Holding
<1>8. Inv_Unspent'
  <2>1. \A x \in pending : x.token \in Challenges
    BY DEF IInv, TypeOK, PendingRow
  <2>2. \A q \in Requests : pc[q] \in Holding => loc[q].ch \in Challenges
    BY DEF IInv, TypeOK, Inv_Challenge, Inv_Unspent, Answering
  <2> QED
    BY <1>1, <1>3, <1>4, <1>5, <2>1, <2>2 DEF IInv, Inv_Challenge, Inv_Unspent, Holding, Answering
<1>9. Inv_Counts'
  BY <1>1, <1>2, <1>4 DEF IInv, Inv_Challenge, Inv_Counts, OneSessionPerChallenge
<1>10. Inv_Codes'
  BY <1>1, NoLocalsType, CodesFrame DEF PCs
<1> QED
  BY <1>6, <1>7, <1>8, <1>9, <1>10 DEF IInv, Inv_Challenge

-----------------------------------------------------------------------------
(* Steps that read, spend or replace codes *)

\* What the invariant says of the rows, with the types they have.
LEMMA Rows ==
  ASSUME IInv
  PROVE  /\ ids \in Int /\ ids >= 0
         /\ \A rec \in recs : /\ rec \in Record /\ rec.id \in Int /\ rec.lastCounter \in Int
                              /\ rec.id < ids
         /\ \A a, b \in recs : a.id = b.id => a = b
         /\ \A code \in accepted : code \in Factor /\ code.id \in Int /\ code.n \in Int
BY Numbers, Constants DEF IInv, TypeOK, Inv_Codes, Inv_Rows

\* The codes of a request are the ones of its own record after any step.
LEMMA ReadsKept ==
  ASSUME IInv, NEW r \in Requests, NEW label \in PCs, NEW locals \in Locals,
         Moves(r, label, locals), ids' \in {ids, ids + 1}, Reads(r)'
  PROVE  Inv_Read'
<1> SUFFICES ASSUME NEW q \in Requests, q # r PROVE Reads(q)'
  BY DEF Inv_Read
<1>1. pc'[q] = pc[q] /\ loc'[q] = loc[q]
  BY MovesType DEF IInv, TypeOK
<1> QED
  BY <1>1, Rows, Numbers DEF IInv, Inv_Codes, Inv_Read, Reads, SpentCode

LEMMA VerifyTOTPInv ==
  ASSUME IInv, NEW r \in Requests, NEW ch \in Challenges, VerifyTOTP(r, ch)
  PROVE  IInv'
<1>0. /\ UNCHANGED <<enabled, recs, pending, otps, issued, ids, history>>
      /\ ch \in issued /\ loc[r] \in Locals
  BY DEF VerifyTOTP, PendingUser, IInv, TypeOK
<1>1. CASE ToFail(r, ch)
  <2>1. [NoLocals EXCEPT !.ch = ch] \in Locals /\ [NoLocals EXCEPT !.ch = ch].ch = ch
    BY NoLocalsType DEF Locals, NoLocals
  <2>2. Moves(r, "fail", [NoLocals EXCEPT !.ch = ch])
    BY <1>1 DEF ToFail, Moves
  <2> QED
    BY <1>0, <2>1, <2>2, QuietStep DEF PCs, Holding, history, IInv, TypeOK
<1>2. ASSUME NEW rec \in recs, NEW counter \in Step, Goto(r, "claimCounter"),
             loc' = [loc EXCEPT ![r].ch = ch, ![r].rec = rec,
                                ![r].factor = Totp(rec.id, counter)]
      PROVE  IInv'
  <2> DEFINE locals == [loc[r] EXCEPT !.ch = ch, !.rec = rec, !.factor = Totp(rec.id, counter)]
  <2>1. rec \in Record /\ rec.id < ids
    BY Rows
  <2>2. /\ Totp(rec.id, counter) \in Factor /\ Totp(rec.id, counter).n = counter
        /\ Totp(rec.id, counter).by = "totp" /\ Totp(rec.id, counter).id = rec.id
    BY <2>1, Constants DEF Totp, Factor, Record, Step
  <2>3. /\ locals \in Locals /\ locals.ch = ch /\ locals.rec = rec
        /\ locals.factor = Totp(rec.id, counter)
    BY <1>0, <2>1, <2>2 DEF Locals
  <2>4. Moves(r, "claimCounter", locals)
    BY <1>2 DEF Moves, IInv, TypeOK
  <2> HIDE DEF locals
  <2>5. "claimCounter" \in PCs \ Holding
    BY DEF PCs, Holding
  <2>6. /\ pc' \in [Requests -> PCs] /\ loc' \in [Requests -> Locals]
        /\ pc'[r] = "claimCounter" /\ loc'[r] = locals
    BY <2>3, <2>4, <2>5, MovesType DEF IInv, TypeOK
  <2>7. TypeOK'
    BY <1>0, <2>6 DEF IInv, TypeOK, history
  <2>8. Inv_Challenge'
    BY <1>0, <2>3, <2>4, <2>5, ChallengeFrame DEF history
  <2>9. Inv_Read'
    <3>1. Reads(r)'
      BY <1>0, <2>1, <2>2, <2>3, <2>6 DEF Reads
    <3> QED
      BY <1>0, <2>3, <2>4, <2>5, <3>1, ReadsKept
  <2>10. Inv_Codes'
    BY <1>0, <2>9 DEF IInv, Inv_Codes, Inv_Rows, Inv_Accepted, history
  <2> QED
    BY <2>7, <2>8, <2>10 DEF IInv
<1> QED
  BY <1>1, <1>2 DEF VerifyTOTP

LEMMA VerifyBackupCodeInv ==
  ASSUME IInv, NEW r \in Requests, NEW ch \in Challenges, VerifyBackupCode(r, ch)
  PROVE  IInv'
<1>0. /\ UNCHANGED <<enabled, recs, pending, otps, issued, ids, history>>
      /\ ch \in issued /\ loc[r] \in Locals
  BY DEF VerifyBackupCode, PendingUser, IInv, TypeOK
<1>1. CASE ToFail(r, ch)
  <2>1. [NoLocals EXCEPT !.ch = ch] \in Locals /\ [NoLocals EXCEPT !.ch = ch].ch = ch
    BY NoLocalsType DEF Locals, NoLocals
  <2>2. Moves(r, "fail", [NoLocals EXCEPT !.ch = ch])
    BY <1>1 DEF ToFail, Moves
  <2> QED
    BY <1>0, <2>1, <2>2, QuietStep DEF PCs, Holding, history, IInv, TypeOK
<1>2. ASSUME NEW rec \in recs, NEW code \in rec.backupCodes, Goto(r, "spendBackup"),
             loc' = [loc EXCEPT ![r].ch = ch, ![r].rec = rec, ![r].factor = Backup(code)]
      PROVE  IInv'
  <2> DEFINE locals == [loc[r] EXCEPT !.ch = ch, !.rec = rec, !.factor = Backup(code)]
  <2>1. rec \in Record
    BY Rows
  <2>2. code \in BackupCode /\ code.set \in Id /\ code.n \in Nat
    BY <2>1, Numbers DEF Record, BackupCode
  <2>3. /\ Backup(code) \in Factor /\ Backup(code).by = "backup"
        /\ [set |-> Backup(code).id, n |-> Backup(code).n] = code
    BY <2>2 DEF Backup, Factor, BackupCode
  <2>4. /\ locals \in Locals /\ locals.ch = ch /\ locals.rec = rec
        /\ locals.factor = Backup(code)
    BY <1>0, <2>1, <2>3 DEF Locals
  <2>5. Moves(r, "spendBackup", locals)
    BY <1>2 DEF Moves, IInv, TypeOK
  <2> HIDE DEF locals
  <2>6. "spendBackup" \in PCs \ Holding
    BY DEF PCs, Holding
  <2>7. /\ pc' \in [Requests -> PCs] /\ loc' \in [Requests -> Locals]
        /\ pc'[r] = "spendBackup" /\ loc'[r] = locals
    BY <2>4, <2>5, <2>6, MovesType DEF IInv, TypeOK
  <2>8. TypeOK'
    BY <1>0, <2>7 DEF IInv, TypeOK, history
  <2>9. Inv_Challenge'
    BY <1>0, <2>4, <2>5, <2>6, ChallengeFrame DEF history
  <2>10. Inv_Read'
    <3>1. Reads(r)'
      BY <2>1, <2>3, <2>4, <2>7 DEF Reads, SpentCode
    <3> QED
      BY <1>0, <2>4, <2>5, <2>6, <3>1, ReadsKept
  <2>11. Inv_Codes'
    BY <1>0, <2>10 DEF IInv, Inv_Codes, Inv_Rows, Inv_Accepted, history
  <2> QED
    BY <2>8, <2>9, <2>11 DEF IInv
<1> QED
  BY <1>1, <1>2 DEF VerifyBackupCode

\* The requests that have their answer go on with the challenge only.
LEMMA ToCompleteMoves ==
  ASSUME IInv, NEW r \in Requests, ToComplete(r)
  PROVE  LET locals == [NoLocals EXCEPT !.ch = loc[r].ch] IN
         locals \in Locals /\ locals.ch = loc[r].ch /\ Moves(r, "complete", locals)
BY NoLocalsType DEF IInv, TypeOK, ToComplete, Moves, Locals, NoLocals

\* The compare-and-set finds the record as it was read, so its counter is
\* older than the code; afterwards the record has reached the code's step.
LEMMA ClaimCounterInv ==
  ASSUME IInv, NEW r \in Requests, ClaimCounter(r)
  PROVE  IInv'
<1> DEFINE rec == loc[r].rec
           code == loc[r].factor
           match == {x \in recs : x.id = rec.id /\ x.lastCounter = rec.lastCounter}
<1>0. /\ UNCHANGED <<enabled, pending, otps, issued, ids, fails, sessions>>
      /\ pc[r] = "claimCounter" /\ loc[r] \in Locals /\ Reads(r)
  BY DEF ClaimCounter, IInv, TypeOK, Inv_Codes, Inv_Read
<1>1. loc[r].ch \in issued
  BY <1>0 DEF IInv, Inv_Challenge, Inv_Unspent, Answering
<1>2. CASE ToFail(r, loc[r].ch) /\ UNCHANGED <<recs, accepted, replayed>>
  <2>1. /\ [NoLocals EXCEPT !.ch = loc[r].ch] \in Locals
        /\ [NoLocals EXCEPT !.ch = loc[r].ch].ch = loc[r].ch
    BY <1>0, NoLocalsType DEF Locals, NoLocals
  <2>2. Moves(r, "fail", [NoLocals EXCEPT !.ch = loc[r].ch])
    BY <1>2 DEF ToFail, Moves
  <2> QED
    BY <1>0, <1>1, <1>2, <2>1, <2>2, QuietStep DEF PCs, Holding, history, IInv, TypeOK
<1>3. ASSUME code.n > rec.lastCounter, match # {},
             recs' = {IF x \in match THEN [x EXCEPT !.lastCounter = code.n] ELSE x : x \in recs},
             ToComplete(r), Accept(code)
      PROVE  IInv'
  <2>1. PICK row \in recs : row.id = rec.id /\ row.lastCounter = rec.lastCounter
    BY <1>3
  <2> DEFINE new == [row EXCEPT !.lastCounter = code.n]
  <2>2. /\ row \in Record /\ row.id < ids
        /\ code \in Factor /\ code.n \in Step /\ code.by = "totp" /\ code.id = row.id
    BY <1>0, <2>1, Rows DEF Reads
  <2>3. match = {row}
    BY <2>1, Rows
  <2>4. recs' = (recs \ {row}) \cup {new}
    BY <1>3, <2>3
  <2>5. /\ new \in Record /\ new.id = row.id /\ new.lastCounter = code.n
        /\ new.backupCodes = row.backupCodes
    BY <2>2 DEF Record
  <2>6. code \notin accepted
    <3>1. row.lastCounter \in Int /\ code.n \in Int /\ code.n > row.lastCounter
      BY <1>3, <2>1, <2>2, Rows, Constants DEF Step
    <3> HIDE DEF code
    <3>2. code \in accepted => code.n <= row.lastCounter
      BY <2>1, <2>2 DEF IInv, Inv_Codes, Inv_Accepted
    <3> QED
      BY <3>1, <3>2
  <2>7. accepted' = accepted \cup {code} /\ replayed' = {}
    BY <1>3, <2>6 DEF Accept, IInv, Inv_Codes
  <2>8. /\ [NoLocals EXCEPT !.ch = loc[r].ch] \in Locals
        /\ [NoLocals EXCEPT !.ch = loc[r].ch].ch = loc[r].ch
        /\ Moves(r, "complete", [NoLocals EXCEPT !.ch = loc[r].ch])
    BY <1>3, ToCompleteMoves
  <2>9. "complete" \in PCs \ Holding
    BY DEF PCs, Holding
  <2>10. pc' \in [Requests -> PCs] /\ loc' \in [Requests -> Locals] /\ pc'[r] = "complete"
    BY <2>8, <2>9, MovesType DEF IInv, TypeOK
  <2> HIDE DEF rec, code, match, new
  <2>11. TypeOK'
    BY <1>0, <2>2, <2>4, <2>5, <2>7, <2>10 DEF IInv, TypeOK
  <2>12. Inv_Challenge'
    BY <1>0, <1>1, <2>8, <2>9, ChallengeFrame
  <2>13. Inv_Rows'
    BY <1>0, <2>2, <2>4, <2>5 DEF IInv, Inv_Codes, Inv_Rows
  <2>14. Inv_Accepted'
    <3>1. ASSUME NEW x \in recs', code.id = x.id PROVE code.n <= x.lastCounter
      <4>1. x = new
        BY <2>1, <2>2, <2>4, <3>1, Rows
      <4> QED
        BY <2>2, <2>5, <4>1, Numbers
    <3>2. ASSUME NEW c \in accepted, c.by = "totp", NEW x \in recs', x.id = c.id
          PROVE  c.n <= x.lastCounter
      <4>1. CASE x = new
        <5>1. c.n <= row.lastCounter
          BY <2>5, <3>2, <4>1 DEF IInv, Inv_Codes, Inv_Accepted
        <5> QED
          BY <1>3, <2>1, <2>2, <2>5, <4>1, <5>1, Rows, Numbers DEF rec
      <4>2. CASE x # new
        BY <2>4, <3>2, <4>2 DEF IInv, Inv_Codes, Inv_Accepted
      <4> QED
        BY <4>1, <4>2
    <3>3. \A c \in accepted : c.by = "backup" =>
             \A x \in recs' : [set |-> c.id, n |-> c.n] \notin x.backupCodes
      BY <2>4, <2>5 DEF IInv, Inv_Codes, Inv_Accepted
    <3> QED
      BY <1>0, <2>2, <2>7, <3>1, <3>2, <3>3 DEF IInv, Inv_Codes, Inv_Accepted
  <2>15. Inv_Read'
    <3>1. Reads(r)'
      BY <2>10 DEF Reads
    <3> QED
      BY <1>0, <2>8, <2>9, <3>1, ReadsKept
  <2>16. Inv_Codes'
    BY <2>7, <2>13, <2>14, <2>15 DEF Inv_Codes
  <2> QED
    BY <2>11, <2>12, <2>16 DEF IInv
<1> QED
  BY <1>2, <1>3 DEF ClaimCounter

\* The compare-and-set finds the code set as it was read, so the code is
\* still stored and was not accepted before; afterwards no row stores it.
LEMMA SpendBackupCodeInv ==
  ASSUME IInv, NEW r \in Requests, SpendBackupCode(r)
  PROVE  IInv'
<1> DEFINE rec == loc[r].rec
           code == loc[r].factor
           left == rec.backupCodes \ {SpentCode(r)}
           match == {x \in recs : x.id = rec.id /\ x.backupCodes = rec.backupCodes}
<1>0. /\ UNCHANGED <<enabled, pending, otps, issued, ids, fails, sessions>>
      /\ pc[r] = "spendBackup" /\ loc[r] \in Locals /\ Reads(r)
  BY DEF SpendBackupCode, IInv, TypeOK, Inv_Codes, Inv_Read
<1>1. loc[r].ch \in issued
  BY <1>0 DEF IInv, Inv_Challenge, Inv_Unspent, Answering
<1>2. CASE Return(r) /\ UNCHANGED <<recs, accepted, replayed>>
  <2>1. Moves(r, "idle", NoLocals)
    BY <1>2 DEF Return, Moves
  <2> QED
    BY <1>0, <1>2, <2>1, NoLocalsType, QuietStep DEF PCs, Holding, Answering, history, IInv, TypeOK
<1>3. ASSUME match # {},
             recs' = {IF x \in match THEN [x EXCEPT !.backupCodes = left] ELSE x : x \in recs},
             ToComplete(r), Accept(code)
      PROVE  IInv'
  <2>1. PICK row \in recs : row.id = rec.id /\ row.backupCodes = rec.backupCodes
    BY <1>3
  <2> DEFINE new == [row EXCEPT !.backupCodes = left]
             spent == SpentCode(r)
  <2>2. /\ row \in Record /\ row.id < ids /\ spent \in row.backupCodes
        /\ spent = [set |-> code.id, n |-> code.n]
        /\ code \in Factor /\ code.by = "backup"
    BY <1>0, <2>1, Rows DEF Reads, SpentCode
  <2>3. match = {row}
    BY <2>1, Rows
  <2>4. recs' = (recs \ {row}) \cup {new}
    BY <1>3, <2>3
  <2>5. /\ new \in Record /\ new.id = row.id /\ new.lastCounter = row.lastCounter
        /\ new.backupCodes = row.backupCodes \ {spent}
    BY <2>1, <2>2 DEF Record
  <2>6. code.id < ids
    BY <2>1, <2>2 DEF IInv, Inv_Codes, Inv_Rows
  <2>7. \A x \in recs' : spent \notin x.backupCodes
    BY <2>1, <2>2, <2>4, <2>5 DEF IInv, Inv_Codes, Inv_Rows
  <2> HIDE DEF rec, code, left, match, new, spent
  <2>8. code \notin accepted
    BY <2>1, <2>2 DEF IInv, Inv_Codes, Inv_Accepted
  <2>9. accepted' = accepted \cup {code} /\ replayed' = {}
    BY <1>3, <2>8 DEF Accept, IInv, Inv_Codes
  <2>10. /\ [NoLocals EXCEPT !.ch = loc[r].ch] \in Locals
         /\ [NoLocals EXCEPT !.ch = loc[r].ch].ch = loc[r].ch
         /\ Moves(r, "complete", [NoLocals EXCEPT !.ch = loc[r].ch])
    BY <1>3, ToCompleteMoves
  <2>11. "complete" \in PCs \ Holding
    BY DEF PCs, Holding
  <2>12. pc' \in [Requests -> PCs] /\ loc' \in [Requests -> Locals] /\ pc'[r] = "complete"
    BY <2>10, <2>11, MovesType DEF IInv, TypeOK
  <2>13. TypeOK'
    BY <1>0, <2>2, <2>4, <2>5, <2>9, <2>12 DEF IInv, TypeOK
  <2>14. Inv_Challenge'
    BY <1>0, <1>1, <2>10, <2>11, ChallengeFrame
  <2>15. Inv_Rows'
    BY <1>0, <2>1, <2>2, <2>4, <2>5 DEF IInv, Inv_Codes, Inv_Rows
  <2>16. Inv_Accepted'
    <3>1. ASSUME NEW c \in accepted, c.by = "totp", NEW x \in recs', x.id = c.id
          PROVE  c.n <= x.lastCounter
      BY <2>1, <2>4, <2>5, <3>1 DEF IInv, Inv_Codes, Inv_Accepted
    <3>2. ASSUME NEW c \in accepted, c.by = "backup", NEW x \in recs'
          PROVE  [set |-> c.id, n |-> c.n] \notin x.backupCodes
      BY <2>1, <2>4, <2>5, <3>2 DEF IInv, Inv_Codes, Inv_Accepted
    <3> QED
      BY <1>0, <2>2, <2>6, <2>7, <2>9, <3>1, <3>2 DEF IInv, Inv_Codes, Inv_Accepted
  <2>17. Inv_Read'
    <3>1. Reads(r)'
      BY <2>12 DEF Reads
    <3> QED
      BY <1>0, <2>10, <2>11, <3>1, ReadsKept
  <2>18. Inv_Codes'
    BY <2>9, <2>15, <2>16, <2>17 DEF Inv_Codes
  <2> QED
    BY <2>13, <2>14, <2>18 DEF IInv
<1> QED
  BY <1>2, <1>3 DEF SpendBackupCode

\* Fresh codes are codes of a set nobody holds.
LEMMA Fresh ==
  ASSUME IInv, ids < MaxIds
  PROVE  /\ ids \in Id /\ ids + 1 \in 0 .. MaxIds /\ FreshCodes \subseteq BackupCode
         /\ \A code \in FreshCodes : code.set = ids
         /\ \A rec \in recs : rec.backupCodes \cap FreshCodes = {}
<1>1. ids \in Id /\ ids + 1 \in 0 .. MaxIds
  BY Constants DEF IInv, TypeOK, Id
<1>2. FreshCodes \subseteq BackupCode /\ \A code \in FreshCodes : code.set = ids
  BY <1>1 DEF FreshCodes, BackupCode
<1>3. \A rec \in recs : \A code \in rec.backupCodes : code.set < ids /\ ids \in Int
  BY Rows DEF IInv, Inv_Codes, Inv_Rows
<1> QED
  BY <1>1, <1>2, <1>3

\* A new record has a new identity: no accepted code is one of its secret, or
\* one of its codes.
LEMMA EnableCreateInv ==
  ASSUME IInv, NEW r \in Requests, EnableCreate(r)
  PROVE  IInv'
<1> DEFINE new == [id |-> ids, lastCounter |-> 0, backupCodes |-> FreshCodes]
           label == IF SkipVerificationOnEnable THEN "flagOn" ELSE "idle"
<1>1. /\ recs' = recs \cup {new} /\ ids' = ids + 1 /\ ids < MaxIds
      /\ UNCHANGED <<enabled, pending, otps, issued, fails, sessions, accepted, replayed>>
      /\ loc[r] \in Locals /\ Moves(r, label, loc[r])
  BY DEF EnableCreate, Moves, history, IInv, TypeOK
<1>2. /\ ids \in Id /\ ids' \in 0 .. MaxIds /\ FreshCodes \subseteq BackupCode
      /\ \A code \in FreshCodes : code.set = ids
      /\ \A rec \in recs : rec.backupCodes \cap FreshCodes = {}
  BY <1>1, Fresh
<1>3. new \in Record /\ new.id = ids /\ new.backupCodes = FreshCodes
  BY <1>2, Constants DEF Record, Step
<1>4. label \in PCs \ (Holding \cup {"claimCounter", "spendBackup"}) /\ label \notin Answering
  BY DEF PCs, Holding, Answering
<1> HIDE DEF new, label
<1>5. pc' \in [Requests -> PCs] /\ loc' \in [Requests -> Locals] /\ pc'[r] = label
  BY <1>1, <1>4, MovesType DEF IInv, TypeOK
<1>6. TypeOK'
  BY <1>1, <1>2, <1>3, <1>5 DEF IInv, TypeOK
<1>7. Inv_Challenge'
  BY <1>1, <1>4, ChallengeFrame
<1>8. /\ \A rec \in recs : rec.id < ids
      /\ \A rec \in recs : \A code \in rec.backupCodes : code.set < ids /\ code.set \in Int
  BY Rows, Numbers DEF IInv, Inv_Codes, Inv_Rows, Record
<1>9. Inv_Rows'
  BY <1>1, <1>2, <1>3, <1>8, Rows DEF IInv, Inv_Codes, Inv_Rows
<1>10. Inv_Accepted'
  <2>1. \A c \in accepted : /\ c.id < ids /\ c.id < ids + 1 /\ c.id # ids
                            /\ [set |-> c.id, n |-> c.n] \notin FreshCodes
    BY <1>2, Rows DEF IInv, Inv_Codes, Inv_Accepted
  <2> QED
    BY <1>1, <1>3, <2>1 DEF IInv, Inv_Codes, Inv_Accepted
<1>11. Inv_Read'
  <2>1. Reads(r)'
    BY <1>4, <1>5 DEF Reads
  <2> QED
    BY <1>1, <1>4, <2>1, ReadsKept
<1> QED
  BY <1>1, <1>6, <1>7, <1>9, <1>10, <1>11 DEF IInv, Inv_Codes

LEMMA ReplaceBackupCodesInv ==
  ASSUME IInv, NEW r \in Requests, ReplaceBackupCodes(r)
  PROVE  IInv'
<1> DEFINE match == {rec \in recs : rec.id = loc[r].row}
<1>1. /\ recs' = (recs \ match) \cup {[rec EXCEPT !.backupCodes = FreshCodes] : rec \in match}
      /\ ids' = ids + 1 /\ ids < MaxIds
      /\ UNCHANGED <<enabled, pending, otps, issued, fails, sessions, accepted, replayed>>
      /\ Moves(r, "idle", NoLocals)
  BY DEF ReplaceBackupCodes, Return, Moves, history
<1>2. /\ ids \in Id /\ ids' \in 0 .. MaxIds /\ FreshCodes \subseteq BackupCode
      /\ \A code \in FreshCodes : code.set = ids
      /\ \A rec \in recs : rec.backupCodes \cap FreshCodes = {}
  BY <1>1, Fresh
<1>3. CASE match = {}
  <2>1. recs' = recs
    BY <1>1, <1>3
  <2> QED
    BY <1>1, <1>2, <2>1, NoLocalsType, QuietStep DEF PCs, Holding, Answering, history, IInv, TypeOK
<1>4. CASE match # {}
  <2>1. PICK row \in recs : row.id = loc[r].row
    BY <1>4
  <2>2. match = {row}
    BY <2>1, Rows
  <2> DEFINE new == [row EXCEPT !.backupCodes = FreshCodes]
  <2>3. recs' = (recs \ {row}) \cup {new}
    BY <1>1, <2>2
  <2>4. row \in Record /\ row.id < ids
    BY <2>1, Rows
  <2>5. /\ new \in Record /\ new.id = row.id /\ new.lastCounter = row.lastCounter
        /\ new.backupCodes = FreshCodes
    BY <1>2, <2>4 DEF Record
  <2> HIDE DEF match, new
  <2>6. "idle" \in PCs \ Holding /\ "idle" \notin Answering
    BY DEF PCs, Holding, Answering
  <2>7. pc' \in [Requests -> PCs] /\ loc' \in [Requests -> Locals] /\ pc'[r] = "idle"
    BY <1>1, <2>6, NoLocalsType, MovesType DEF IInv, TypeOK
  <2>8. TypeOK'
    BY <1>1, <1>2, <2>3, <2>5, <2>7 DEF IInv, TypeOK
  <2>9. Inv_Challenge'
    BY <1>1, <2>6, NoLocalsType, ChallengeFrame
  <2>10. \A rec \in recs : \A code \in rec.backupCodes : code.set < ids /\ code.set \in Int
    BY Rows, Numbers DEF IInv, Inv_Codes, Inv_Rows, Record
  <2>11. Inv_Rows'
    BY <1>1, <1>2, <2>1, <2>3, <2>5, <2>10, Rows DEF IInv, Inv_Codes, Inv_Rows
  <2>12. Inv_Accepted'
    <3>1. \A c \in accepted : /\ c.id < ids /\ c.id < ids + 1 /\ c.id # ids
                              /\ [set |-> c.id, n |-> c.n] \notin FreshCodes
      BY <1>2, Rows DEF IInv, Inv_Codes, Inv_Accepted
    <3> QED
      BY <1>1, <2>1, <2>3, <2>5, <3>1 DEF IInv, Inv_Codes, Inv_Accepted
  <2>13. Inv_Read'
    <3>1. Reads(r)'
      BY <2>7 DEF Reads
    <3> QED
      BY <1>1, <2>6, <3>1, NoLocalsType, ReadsKept
  <2> QED
    BY <1>1, <2>8, <2>9, <2>11, <2>12, <2>13 DEF IInv, Inv_Codes
<1> QED
  BY <1>3, <1>4

-----------------------------------------------------------------------------
(* The other steps *)

\* Steps that leave pending challenges, codes and their histories alone.
LEMMA OtherInv ==
  ASSUME IInv, NEW r \in Requests,
         \/ \E ch \in Challenges : VerifyOTP(r, ch)
         \/ DeleteOTP(r) \/ Enable(r) \/ VerifyExistingFactor(r) \/ EnableDelete(r)
         \/ FinishEnabling(r) \/ Disable(r) \/ SetFlag(r) \/ GenerateBackupCodes(r)
         \/ SendOTP(r) \/ StoreOTP(r) \/ Abandon(r)
  PROVE  IInv'
<1>0. /\ loc \in [Requests -> Locals] /\ loc[r] \in Locals
      /\ enabled \in BOOLEAN /\ otps \subseteq Id /\ ids \in 0 .. MaxIds
  BY DEF IInv, TypeOK
<1> USE <1>0, QuietStep DEF PCs, Holding, Answering, history
<1>1. ASSUME NEW ch \in Challenges, VerifyOTP(r, ch)
      PROVE  IInv'
  <2>1. ch \in issued /\ UNCHANGED <<enabled, recs, pending, otps, issued, ids, history>>
    BY <1>1 DEF VerifyOTP, PendingUser
  <2>2. CASE ToFail(r, ch)
    <3>1. [NoLocals EXCEPT !.ch = ch] \in Locals /\ [NoLocals EXCEPT !.ch = ch].ch = ch
      BY NoLocalsType DEF Locals, NoLocals
    <3>2. Moves(r, "fail", [NoLocals EXCEPT !.ch = ch])
      BY <2>2 DEF ToFail, Moves
    <3> QED
      BY <2>1, <3>1, <3>2
  <2>3. ASSUME NEW row \in otps, Goto(r, "deleteOTP"), loc' = [loc EXCEPT ![r].ch = ch, ![r].row = row]
        PROVE  IInv'
    <3>1. /\ [loc[r] EXCEPT !.ch = ch, !.row = row] \in Locals
          /\ [loc[r] EXCEPT !.ch = ch, !.row = row].ch = ch
      BY <2>3 DEF Locals
    <3>2. Moves(r, "deleteOTP", [loc[r] EXCEPT !.ch = ch, !.row = row])
      BY <2>3 DEF Moves
    <3> QED
      BY <2>1, <3>1, <3>2
  <2> QED
    BY <1>1, <2>2, <2>3 DEF VerifyOTP
<1>2. CASE DeleteOTP(r)
  <2>1. loc[r].ch \in issued
    BY <1>2 DEF DeleteOTP, IInv, Inv_Challenge, Inv_Unspent
  <2>2. ToComplete(r) /\ otps' \subseteq Id /\ UNCHANGED <<enabled, recs, pending, issued, ids, history>>
    BY <1>2 DEF DeleteOTP
  <2>3. /\ [NoLocals EXCEPT !.ch = loc[r].ch] \in Locals
        /\ [NoLocals EXCEPT !.ch = loc[r].ch].ch = loc[r].ch
        /\ Moves(r, "complete", [NoLocals EXCEPT !.ch = loc[r].ch])
    BY <2>2, ToCompleteMoves
  <2> QED
    BY <2>1, <2>2, <2>3
<1>3. CASE Enable(r)
  <2>1. Moves(r, IF enabled THEN "enableCheck" ELSE "enableDelete", loc[r])
    BY <1>3 DEF Enable, Moves
  <2> QED
    BY <1>3, <2>1 DEF Enable
<1>4. CASE VerifyExistingFactor(r)
  <2>1. Moves(r, "enableDelete", loc[r])
    BY <1>4 DEF VerifyExistingFactor, Moves
  <2> QED
    BY <1>4, <2>1 DEF VerifyExistingFactor
<1>5. CASE EnableDelete(r)
  <2>1. Moves(r, "enableCreate", loc[r])
    BY <1>5 DEF EnableDelete, Moves
  <2> QED
    BY <1>5, <2>1 DEF EnableDelete
<1>6. CASE FinishEnabling(r)
  <2>1. Moves(r, "flagOn", loc[r])
    BY <1>6 DEF FinishEnabling, Moves
  <2> QED
    BY <1>6, <2>1 DEF FinishEnabling
<1>7. CASE Disable(r)
  <2>1. Moves(r, "flagOff", loc[r])
    BY <1>7 DEF Disable, Moves
  <2> QED
    BY <1>7, <2>1 DEF Disable
<1>8. CASE SetFlag(r)
  <2>1. Moves(r, "idle", NoLocals)
    BY <1>8 DEF SetFlag, Return, Moves
  <2> QED
    BY <1>8, <2>1, NoLocalsType DEF SetFlag
<1>9. CASE GenerateBackupCodes(r)
  <2>1. PICK rec \in recs : loc' = [loc EXCEPT ![r].row = rec.id]
    BY <1>9 DEF GenerateBackupCodes
  <2>2. rec.id \in Id
    BY <2>1, Rows DEF Record
  <2>3. [loc[r] EXCEPT !.row = rec.id] \in Locals /\ Moves(r, "regenerate", [loc[r] EXCEPT !.row = rec.id])
    BY <1>9, <2>1, <2>2 DEF GenerateBackupCodes, Moves, Locals
  <2> QED
    BY <1>9, <2>3 DEF GenerateBackupCodes
<1>10. CASE SendOTP(r)
  <2>1. Moves(r, "otpCreate", loc[r])
    BY <1>10 DEF SendOTP, Moves
  <2> QED
    BY <1>10, <2>1 DEF SendOTP
<1>11. CASE StoreOTP(r)
  <2>1. Moves(r, "idle", NoLocals)
    BY <1>11 DEF StoreOTP, Return, Moves
  <2>2. ids \in Id /\ ids + 1 \in 0 .. MaxIds
    BY <1>11, Fresh DEF StoreOTP
  <2> QED
    BY <1>11, <2>1, <2>2, NoLocalsType DEF StoreOTP
<1>12. CASE Abandon(r)
  <2>1. Moves(r, "idle", NoLocals)
    BY <1>12 DEF Abandon, Return, Moves
  <2> QED
    BY <1>12, <2>1, NoLocalsType DEF Abandon
<1> QED
  BY <1>1, <1>2, <1>3, <1>4, <1>5, <1>6, <1>7, <1>8, <1>9, <1>10, <1>11, <1>12

\* Every step keeps the invariant.
LEMMA NextInv == IInv /\ [Next]_vars => IInv'
<1> SUFFICES ASSUME IInv, [Next]_vars PROVE IInv'
  OBVIOUS
<1>1. ASSUME NEW r \in Requests, Answer(r) PROVE IInv'
  BY <1>1, VerifyTOTPInv, VerifyBackupCodeInv, ClaimCounterInv, SpendBackupCodeInv, FailAttemptInv,
     ReinstateDeleteInv, ReinstateInv, CompletePendingInv, CreateSessionForInv, OtherInv DEF Answer
<1>2. ASSUME NEW r \in Requests, Manage(r) \/ Abandon(r) PROVE IInv'
  BY <1>2, EnableCreateInv, ReplaceBackupCodesInv, OtherInv DEF Manage
<1>3. CASE UNCHANGED vars
  BY <1>3 DEF vars, IInv, TypeOK, Inv_Challenge, Inv_OnePlace, Inv_Unspent, Inv_Counts,
     OneSessionPerChallenge, Inv_Codes, Inv_Rows, Inv_Accepted, Inv_Read, Reads, SpentCode
<1> QED
  BY <1>1, <1>2, <1>3, BeforeSignInInv, PendingExpiresInv DEF Next

\* No step adds a code to the stored sets that is not newly drawn.
LEMMA NewCodesAreFresh ==
  ASSUME IInv, [Next]_vars
  PROVE  \A code \in Stored' \ Stored : code.set = ids
<1>1. CASE \A row \in recs' : \E rec \in recs : row.backupCodes \subseteq rec.backupCodes
  BY <1>1 DEF Stored
<1>2. CASE recs' \subseteq recs
  BY <1>2 DEF Stored
<1>3. ASSUME NEW r \in Requests, ClaimCounter(r)
      PROVE  \A row \in recs' : \E rec \in recs : row.backupCodes \subseteq rec.backupCodes
  <2>1. CASE recs' = recs
    BY <2>1
  <2>2. CASE recs' # recs
    <3> DEFINE match == {x \in recs : x.id = loc[r].rec.id /\ x.lastCounter = loc[r].rec.lastCounter}
               new(x) == [x EXCEPT !.lastCounter = loc[r].factor.n]
    <3> SUFFICES ASSUME NEW row \in recs'
                 PROVE  \E rec \in recs : row.backupCodes \subseteq rec.backupCodes
      OBVIOUS
    <3>1. recs' = {IF x \in match THEN new(x) ELSE x : x \in recs}
      BY <1>3, <2>2 DEF ClaimCounter
    <3>2. \A x \in recs : new(x).backupCodes = x.backupCodes
      BY Rows DEF Record
    <3> HIDE DEF match, new
    <3>3. PICK x \in recs : row = new(x) \/ row = x
      BY <3>1
    <3> QED
      BY <3>2, <3>3
  <2> QED
    BY <2>1, <2>2
<1>4. ASSUME NEW r \in Requests, SpendBackupCode(r)
      PROVE  \A row \in recs' : \E rec \in recs : row.backupCodes \subseteq rec.backupCodes
  <2>1. CASE recs' = recs
    BY <2>1
  <2>2. CASE recs' # recs
    <3> DEFINE match == {x \in recs : x.id = loc[r].rec.id /\ x.backupCodes = loc[r].rec.backupCodes}
               left == loc[r].rec.backupCodes \ {SpentCode(r)}
               new(x) == [x EXCEPT !.backupCodes = left]
    <3> SUFFICES ASSUME NEW row \in recs'
                 PROVE  \E rec \in recs : row.backupCodes \subseteq rec.backupCodes
      OBVIOUS
    <3>1. recs' = {IF x \in match THEN new(x) ELSE x : x \in recs}
      BY <1>4, <2>2 DEF SpendBackupCode
    <3>2. \A x \in match : new(x).backupCodes \subseteq x.backupCodes
      BY Rows DEF Record
    <3>3. PICK x \in recs : row = x \/ (x \in match /\ row = new(x))
      BY <3>1
    <3> HIDE DEF match, left, new
    <3> QED
      BY <3>2, <3>3
  <2> QED
    BY <2>1, <2>2
<1>5. ASSUME NEW r \in Requests, EnableCreate(r)
      PROVE  \A code \in Stored' \ Stored : code.set = ids
  BY <1>5, Fresh DEF EnableCreate, Stored
<1>6. ASSUME NEW r \in Requests, ReplaceBackupCodes(r)
      PROVE  \A code \in Stored' \ Stored : code.set = ids
  <2>1. \A rec \in recs : [rec EXCEPT !.backupCodes = FreshCodes].backupCodes = FreshCodes
    BY Rows DEF Record
  <2> QED
    BY <1>6, <2>1, Fresh, ZenonT(40) DEF ReplaceBackupCodes, Stored
<1>7. ASSUME NEW r \in Requests, Answer(r)
      PROVE  \A code \in Stored' \ Stored : code.set = ids
  BY <1>1, <1>2, <1>3, <1>4, <1>7 DEF Answer, VerifyTOTP, VerifyOTP, VerifyBackupCode, DeleteOTP,
     FailAttempt, ReinstateDelete, Reinstate, CompletePending, CreateSessionFor
<1>8. ASSUME NEW r \in Requests, Manage(r) \/ Abandon(r)
      PROVE  \A code \in Stored' \ Stored : code.set = ids
  BY <1>2, <1>5, <1>6, <1>8 DEF Manage, Abandon, Enable, VerifyExistingFactor, EnableDelete,
     FinishEnabling, Disable, SetFlag, GenerateBackupCodes, SendOTP, StoreOTP
<1> QED
  BY <1>2, <1>7, <1>8 DEF Next, vars, BeforeSignIn, PendingExpires

-----------------------------------------------------------------------------

\* Rows, histories and request locals of the two-factor plugin keep their
\* types; a stored attempt count, in particular, is below maxVerifyAttempts.
THEOREM TypeCorrect == Spec => []TypeOK
<1>1. IInv => TypeOK
  BY DEF IInv
<1> QED
  BY <1>1, InitInv, NextInv, PTL DEF Spec

\* One first factor buys at most one session: completePending's claim and the
\* two-call reinstatement of failAttempt never leave two live copies of one
\* challenge, for any number of racing answers.
THEOREM OneSession == Spec => []OneSessionPerChallenge
<1>1. IInv => OneSessionPerChallenge
  BY DEF IInv, Inv_Challenge, Inv_Counts
<1> QED
  BY <1>1, InitInv, NextInv, PTL DEF Spec

\* A challenge carries every wrong code counted against it, and no more than
\* maxVerifyAttempts are, however failAttempt's claims interleave.
THEOREM AttemptsAreCounted == Spec => []AttemptsCounted
<1>1. IInv => AttemptsCounted
  BY DEF IInv, Inv_Challenge, Inv_Unspent, Inv_Counts, AttemptsCounted
<1> QED
  BY <1>1, InitInv, NextInv, PTL DEF Spec

\* claimCounter accepts the code of one time step and secret at most once,
\* whichever challenges are answered with it.
THEOREM TOTPCodeAcceptedOnce == Spec => []TOTPCodeOnce
<1>1. IInv => TOTPCodeOnce
  BY DEF IInv, Inv_Codes, TOTPCodeOnce
<1> QED
  BY <1>1, InitInv, NextInv, PTL DEF Spec

\* The compare-and-set of handleVerifyBackupCode accepts a backup code at most
\* once, also across regenerations and re-enrolments.
THEOREM BackupCodeAcceptedOnce == Spec => []BackupCodeOnce
<1>1. IInv => BackupCodeOnce
  BY DEF IInv, Inv_Codes, BackupCodeOnce
<1> QED
  BY <1>1, InitInv, NextInv, PTL DEF Spec

\* Writing the rest of a code set back never brings a code back to the
\* stored sets of the twoFactor table.
THEOREM CodesDoNotReturn == Spec => CodesNeverReturn
<1>1. IInv /\ [Next]_vars => [\A code \in Stored' \ Stored : code.set = ids]_vars
  BY NewCodesAreFresh
<1> QED
  BY <1>1, InitInv, NextInv, PTL DEF Spec, CodesNeverReturn
=============================================================================
