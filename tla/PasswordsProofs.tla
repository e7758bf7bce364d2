--------------------------- MODULE PasswordsProofs ---------------------------
(***************************************************************************)
(* Proofs about Passwords, for any number of requests, passwords, sessions *)
(* and reset tokens and for every choice of the three options: type        *)
(* correctness and OldSessionsEvicted.                                     *)
(***************************************************************************)
EXTENDS Passwords, FiniteSetTheorems, TLAPS

\* What a request has read.
Locals == [session : 0 .. MaxSessions, stamp : 0 .. MaxPasswords, row : 0 .. MaxPasswords,
           targets : SUBSET Token]

\* The labels of the requests that come with a session.
OfSession == {"changeWrite", "setWrite", "listOthers", "revokeOthers"}

\* There is one credential row at most, and it holds the last password.
Inv_Account ==
  /\ account \subseteq [id : Password, password : Password]
  /\ \A a, b \in account : a = b
  /\ \A a \in account : a.password = passwords

\* Session tokens are given out in order and stamps lie in the past, those
\* of the sessions that only a cookie remembers too.
Inv_Sessions ==
  /\ cookies \subseteq [token : Token, stamp : 0 .. MaxPasswords]
  /\ \A s \in cookies : s.stamp <= passwords
  /\ sessions \subseteq [token : Token, stamp : 0 .. MaxPasswords]
  /\ \A s \in sessions : s.token <= opened /\ s.stamp <= passwords
  /\ \A s, t \in sessions : s.token = t.token => s = t

Inv_Locals ==
  /\ loc \in [Requests -> Locals]
  /\ \A r \in Requests :
       /\ loc[r].stamp <= passwords
       /\ pc[r] \in OfSession => loc[r].session \in Token

\* A sign-in under way that authenticated before the last revocation is excused.
Inv_SignIns ==
  \A r \in Requests : pc[r] = "createSession" /\ loc[r].stamp < evicted => r \in excused

\* What revokeOtherSessions has left to do: a session of an older password is
\* a target still, or its own, or excused, and so is a sign-in under way.
Revoking(r) ==
  pc[r] = "revokeOthers" =>
    /\ \A s \in sessions : s.stamp < loc[r].stamp =>
         s.token \in excused \/ s.token \in loc[r].targets \/ s.token = loc[r].session
    /\ \A q \in Requests :
         pc[q] = "createSession" /\ loc[q].stamp < loc[r].stamp => q \in excused

Inv_Revocations == \A r \in Requests : Revoking(r)

\* The inductive invariant.
IInv ==
  /\ TypeOK /\ Inv_Account /\ Inv_Sessions /\ Inv_Locals
  /\ Inv_SignIns /\ Inv_Revocations /\ OldSessionsEvicted

\* What the assumption says of the bounds.
LEMMA Constants ==
  /\ MaxPasswords \in Nat /\ MaxSessions \in Nat /\ MaxTokens \in Nat
  /\ \A r \in Requests : r \notin Token
BY PasswordsAssumption DEF PasswordsAssumption, Token

LEMMA Numbers ==
  ASSUME IInv
  PROVE  /\ passwords \in Nat /\ opened \in Nat /\ mailed \in Nat /\ evicted \in Nat
         /\ evicted <= passwords
         /\ \A r \in Requests : loc[r].stamp \in Nat /\ loc[r].stamp <= passwords
         /\ \A s \in sessions : s.token \in Token /\ s.stamp \in Nat /\ s.stamp <= passwords
BY Constants DEF IInv, TypeOK, Inv_Locals, Inv_Sessions, Locals, Token

LEMMA NoLocalsType == NoLocals \in Locals /\ NoLocals.stamp = 0
BY Constants DEF NoLocals, Locals

\* Request r goes on at label with these locals, the others stay.
Moves(r, label, locals) ==
  pc' = [pc EXCEPT ![r] = label] /\ loc' = [loc EXCEPT ![r] = locals]

LEMMA MovesType ==
  ASSUME NEW r \in Requests, NEW label \in PCs, NEW locals \in Locals,
         pc \in [Requests -> PCs], loc \in [Requests -> Locals], Moves(r, label, locals)
  PROVE  /\ pc' \in [Requests -> PCs] /\ loc' \in [Requests -> Locals]
         /\ pc'[r] = label /\ loc'[r] = locals
         /\ \A q \in Requests \ {r} : pc'[q] = pc[q] /\ loc'[q] = loc[q]
<1> HIDE DEF Locals
<1> QED
  BY DEF Moves

LEMMA ReturnMoves ==
  ASSUME NEW r \in Requests, Return(r)
  PROVE  /\ Moves(r, "idle", NoLocals) /\ NoLocals \in Locals /\ NoLocals.stamp = 0
         /\ "idle" \in PCs /\ "idle" \notin OfSession
BY NoLocalsType DEF Return, Moves, PCs, OfSession

\* The tables and histories of the next state, as IInv wants them; the requests
\* are apart.
TablesOK ==
  /\ Inv_Account /\ Cardinality(account) <= 1
  /\ passwords \in 0 .. MaxPasswords /\ opened \in 0 .. MaxSessions /\ mailed \in 0 .. MaxTokens
  /\ Inv_Sessions
  /\ tokens \subseteq 1 .. mailed
  /\ evicted \in 0 .. passwords
  /\ excused \subseteq Requests \cup Token

\* A step of request r.
LEMMA Step ==
  ASSUME IInv, NEW r \in Requests, NEW label \in PCs, NEW locals \in Locals,
         Moves(r, label, locals), passwords <= passwords', locals.stamp <= passwords',
         label \in OfSession => locals.session \in Token,
         TablesOK', Inv_SignIns', Inv_Revocations', OldSessionsEvicted'
  PROVE  IInv'
<1>1. /\ pc' \in [Requests -> PCs] /\ loc' \in [Requests -> Locals]
      /\ pc'[r] = label /\ loc'[r] = locals
      /\ \A q \in Requests \ {r} : pc'[q] = pc[q] /\ loc'[q] = loc[q]
  BY MovesType DEF IInv, TypeOK, Inv_Locals
<1>2. TypeOK'
  BY <1>1 DEF TypeOK, TablesOK, Inv_Account, Inv_Sessions
<1>3. passwords \in Nat /\ passwords' \in Nat
  BY Numbers, Constants DEF TablesOK
<1>4. Inv_Locals'
  <2> SUFFICES ASSUME NEW q \in Requests
               PROVE  /\ loc'[q].stamp <= passwords'
                      /\ pc'[q] \in OfSession => loc'[q].session \in Token
    BY <1>1 DEF Inv_Locals
  <2>1. CASE q = r
    BY <1>1, <2>1
  <2>2. CASE q # r
    BY <1>1, <1>3, <2>2, Numbers DEF IInv, Inv_Locals
  <2> QED
    BY <2>1, <2>2
<1> QED
  BY <1>2, <1>4 DEF IInv, TablesOK

\* The tables and histories as they are.
LEMMA Tables == ASSUME IInv PROVE TablesOK
BY DEF IInv, TypeOK, TablesOK

\* A step that revokes at most, excuses the same or more, apart from its own
\* request, and starts neither a revocation nor a sign-in that is out of date.
LEMMA Quiet ==
  ASSUME IInv, NEW r \in Requests, NEW label \in PCs, NEW locals \in Locals,
         Moves(r, label, locals), sessions' \subseteq sessions, evicted' = evicted,
         \A x \in excused : x # r => x \in excused',
         label # "revokeOthers", label = "createSession" => locals.stamp = passwords
  PROVE  Inv_SignIns' /\ Inv_Revocations' /\ OldSessionsEvicted'
<1>1. /\ pc'[r] = label /\ loc'[r] = locals
      /\ \A q \in Requests \ {r} : pc'[q] = pc[q] /\ loc'[q] = loc[q]
  BY MovesType DEF IInv, TypeOK, Inv_Locals
<1>2. \A t \in Token : t \in excused => t \in excused'
  BY Constants
<1>3. OldSessionsEvicted'
  BY <1>2, Numbers DEF IInv, OldSessionsEvicted
<1>4. Inv_SignIns'
  <2> SUFFICES ASSUME NEW q \in Requests, pc'[q] = "createSession", loc'[q].stamp < evicted
               PROVE  q \in excused'
    BY DEF Inv_SignIns
  <2>1. q # r
    BY <1>1, Numbers
  <2> QED
    BY <1>1, <2>1 DEF IInv, Inv_SignIns
<1>5. Inv_Revocations'
  <2> SUFFICES ASSUME NEW q \in Requests, pc'[q] = "revokeOthers" PROVE Revoking(q)'
    BY DEF Inv_Revocations, Revoking
  <2>1. q # r /\ loc'[q] = loc[q] /\ Revoking(q) /\ pc[q] = "revokeOthers"
    BY <1>1 DEF IInv, Inv_Revocations
  <2>2. \A s \in sessions' : s.stamp < loc[q].stamp =>
          s.token \in excused' \/ s.token \in loc[q].targets \/ s.token = loc[q].session
    BY <1>2, <2>1, Numbers DEF Revoking
  <2>3. ASSUME NEW p \in Requests, pc'[p] = "createSession", loc'[p].stamp < loc[q].stamp
        PROVE  p \in excused'
    <3>1. p # r
      BY <1>1, <2>3, Numbers
    <3> QED
      BY <1>1, <2>1, <2>3, <3>1 DEF Revoking
  <2> QED
    BY <2>1, <2>2, <2>3 DEF Revoking
<1> QED
  BY <1>3, <1>4, <1>5

LEMMA InitInv == Init => IInv
<1> SUFFICES ASSUME Init PROVE IInv
  OBVIOUS
<1>1. loc \in [Requests -> Locals] /\ \A r \in Requests : pc[r] = "idle" /\ loc[r].stamp = 0
  BY NoLocalsType DEF Init
<1>2. Cardinality({}) = 0
  BY FS_EmptySet
<1>3. Inv_Account /\ Inv_Sessions /\ Inv_Locals
  BY <1>1, Constants DEF Init, Inv_Account, Inv_Sessions, Inv_Locals, OfSession
<1>4. TypeOK
  BY <1>2, Constants DEF Init, TypeOK, PCs
<1> QED
  BY <1>1, <1>3, <1>4 DEF Init, IInv, Inv_SignIns, Inv_Revocations, Revoking, OldSessionsEvicted

-----------------------------------------------------------------------------
(* The password itself *)

\* A new password supersedes the one before in the only row there is.
LEMMA UpdatePasswordOK ==
  ASSUME IInv, NEW row, UpdatePassword(row)
  PROVE  /\ passwords' = passwords + 1 /\ passwords' \in 0 .. MaxPasswords
         /\ Inv_Account' /\ Cardinality(account') <= 1
<1>1. PICK a \in account : a.id = row
  BY DEF UpdatePassword
<1>2. passwords' = passwords + 1 /\ passwords' \in Password
  BY Numbers, Constants DEF UpdatePassword, Password
<1> DEFINE new == [a EXCEPT !.password = passwords']
<1>3. account' = {new}
  BY <1>1 DEF UpdatePassword, IInv, Inv_Account
<1>4. new \in [id : Password, password : Password] /\ new.password = passwords'
  BY <1>1, <1>2 DEF IInv, Inv_Account
<1> HIDE DEF new
<1>5. Cardinality(account') = 1
  BY <1>3, FS_Singleton
<1> QED
  BY <1>2, <1>3, <1>4, <1>5, Constants DEF Inv_Account, Password

LEMMA CreateCredentialOK ==
  ASSUME IInv, CreateCredential
  PROVE  /\ passwords' = passwords + 1 /\ passwords' \in 0 .. MaxPasswords
         /\ Inv_Account' /\ Cardinality(account') <= 1
<1>1. passwords' = passwords + 1 /\ passwords' \in Password
  BY Numbers, Constants DEF CreateCredential, Password
<1> DEFINE new == [id |-> passwords', password |-> passwords']
<1>2. account' = {new} /\ new \in [id : Password, password : Password] /\ new.password = passwords'
  BY <1>1 DEF CreateCredential
<1> HIDE DEF new
<1>3. Cardinality(account') = 1
  BY <1>2, FS_Singleton
<1> QED
  BY <1>1, <1>2, <1>3, Constants DEF Inv_Account, Password

LEMMA WriteCredentialOK ==
  ASSUME IInv, NEW row, WriteCredential(row)
  PROVE  /\ passwords' = passwords + 1 /\ passwords' \in 0 .. MaxPasswords
         /\ Inv_Account' /\ Cardinality(account') <= 1
BY UpdatePasswordOK, CreateCredentialOK DEF WriteCredential

\* A step that writes a password and leaves sessions and history alone.
LEMMA PasswordStep ==
  ASSUME IInv, NEW r \in Requests, NEW label \in PCs, NEW locals \in Locals,
         Moves(r, label, locals), label \notin {"createSession", "revokeOthers"},
         passwords' = passwords + 1, passwords' \in 0 .. MaxPasswords,
         Inv_Account', Cardinality(account') <= 1, locals.stamp <= passwords',
         label \in OfSession => locals.session \in Token,
         UNCHANGED <<sessions, cookies, opened, tokens, mailed, evicted, excused>>
  PROVE  IInv'
<1>1. Inv_SignIns' /\ Inv_Revocations' /\ OldSessionsEvicted'
  BY Quiet
<1>2. passwords \in Nat /\ passwords <= passwords' /\ evicted' \in 0 .. passwords'
  BY Numbers
<1>3. Inv_Sessions'
  BY <1>2, Numbers DEF IInv, Inv_Sessions
<1>4. TablesOK'
  BY <1>2, <1>3, Tables DEF TablesOK
<1> QED
  BY <1>1, <1>2, <1>4, Step

\* A request that only reads, and is not up to revoke.
LEMMA ReadStep ==
  ASSUME IInv, NEW r \in Requests, NEW label \in PCs, NEW locals \in Locals,
         Moves(r, label, locals), label # "revokeOthers",
         label = "createSession" => locals.stamp = passwords,
         locals.stamp <= passwords, label \in OfSession => locals.session \in Token,
         UNCHANGED <<account, passwords, sessions, cookies, opened, mailed, evicted, excused>>,
         tokens' \subseteq tokens
  PROVE  IInv'
<1>1. Inv_SignIns' /\ Inv_Revocations' /\ OldSessionsEvicted'
  BY Quiet
<1>2. TablesOK'
  BY Tables DEF TablesOK, Inv_Account, Inv_Sessions
<1> QED
  BY <1>1, <1>2, Numbers, Step

\* The row a request looks up.
LEMMA CredentialRowType == ASSUME IInv PROVE CredentialRow \in 0 .. MaxPasswords
<1>1. CASE account = {}
  BY <1>1, Constants DEF CredentialRow
<1>2. CASE account # {}
  <2>1. (CHOOSE a \in account : TRUE) \in account
    BY <1>2
  <2> QED
    BY <1>2, <2>1, Constants DEF CredentialRow, IInv, Inv_Account, Password
<1> QED
  BY <1>1, <1>2

-----------------------------------------------------------------------------
(* One lemma per action *)

LEMMA SignInEmailInv ==
  ASSUME IInv, NEW r \in Requests, SignInEmail(r)
  PROVE  IInv'
<1> DEFINE locals == [NoLocals EXCEPT !.stamp = passwords]
<1>1. /\ Moves(r, "createSession", locals) /\ "createSession" \in PCs
      /\ UnchangedTables /\ UNCHANGED <<evicted, excused>>
  BY DEF SignInEmail, Begin, Moves, PCs, IInv, Inv_Account
<1>2. locals \in Locals /\ locals.stamp = passwords
  BY NoLocalsType DEF NoLocals, Locals, IInv, TypeOK
<1> HIDE DEF locals
<1> QED
  BY <1>1, <1>2, Numbers, ReadStep DEF UnchangedTables, OfSession

LEMMA SignInProviderInv ==
  ASSUME IInv, NEW r \in Requests, SignInProvider(r)
  PROVE  IInv'
<1> DEFINE locals == [NoLocals EXCEPT !.stamp = passwords]
<1>1. /\ Moves(r, "createSession", locals) /\ "createSession" \in PCs
      /\ UnchangedTables /\ UNCHANGED <<evicted, excused>>
  BY DEF SignInProvider, Begin, Moves, PCs
<1>2. locals \in Locals /\ locals.stamp = passwords
  BY NoLocalsType DEF NoLocals, Locals, IInv, TypeOK
<1> HIDE DEF locals
<1> QED
  BY <1>1, <1>2, Numbers, ReadStep DEF UnchangedTables, OfSession

\* The new session is excused if its sign-in was.
LEMMA CreateSessionInv ==
  ASSUME IInv, NEW r \in Requests, CreateSession(r)
  PROVE  IInv'
<1> DEFINE new == [token |-> opened', stamp |-> loc[r].stamp]
<1>1. /\ pc[r] = "createSession" /\ opened' = opened + 1 /\ opened' \in Token
      /\ opened' \in 0 .. MaxSessions
  BY Numbers, Constants DEF CreateSession, Token
<1>2. /\ new \in [token : Token, stamp : 0 .. MaxPasswords] /\ new.token = opened'
      /\ new.stamp = loc[r].stamp /\ loc[r].stamp <= passwords
  BY <1>1 DEF IInv, Inv_Locals, Locals
<1>3. /\ sessions' = sessions \cup {new} /\ Return(r)
      /\ cookies' \subseteq cookies \cup {new}
      /\ UNCHANGED <<account, passwords, tokens, mailed, evicted>>
  BY DEF CreateSession
<1>4. /\ excused' \subseteq Requests \cup Token
      /\ \A x \in excused : x # r => x \in excused'
      /\ r \in excused => opened' \in excused'
  BY <1>1 DEF CreateSession, IInv, TypeOK
<1> HIDE DEF new
<1>5. Moves(r, "idle", NoLocals) /\ NoLocals \in Locals /\ NoLocals.stamp = 0 /\ "idle" \in PCs
  BY <1>3, ReturnMoves
<1>6. /\ pc'[r] = "idle"
      /\ \A q \in Requests \ {r} : pc'[q] = pc[q] /\ loc'[q] = loc[q]
  BY <1>5, MovesType DEF IInv, TypeOK, Inv_Locals
<1>7. \A t \in Token : t \in excused => t \in excused'
  BY <1>4, Constants
<1>8. Inv_Sessions'
  <2>1. sessions' \subseteq [token : Token, stamp : 0 .. MaxPasswords]
    BY <1>2, <1>3 DEF IInv, Inv_Sessions
  <2>2. \A s \in sessions : s.token \in Nat /\ s.token <= opened /\ s.token # opened'
    BY <1>1, Numbers, Constants DEF IInv, Inv_Sessions, Token
  <2>3. \A s \in sessions' : s.token <= opened' /\ s.stamp <= passwords'
    BY <1>1, <1>2, <1>3, <2>2, Numbers
  <2>4. \A s, t \in sessions' : s.token = t.token => s = t
    BY <1>2, <1>3, <2>2 DEF IInv, Inv_Sessions
  <2>5. /\ cookies' \subseteq [token : Token, stamp : 0 .. MaxPasswords]
        /\ \A s \in cookies' : s.stamp <= passwords'
    BY <1>2, <1>3 DEF IInv, Inv_Sessions
  <2> QED
    BY <2>1, <2>3, <2>4, <2>5 DEF Inv_Sessions
<1>9. TablesOK'
  BY <1>1, <1>3, <1>4, <1>8, Tables DEF TablesOK, Inv_Account
<1>10. OldSessionsEvicted'
  BY <1>1, <1>2, <1>3, <1>4, <1>7, Numbers DEF IInv, OldSessionsEvicted, Inv_SignIns
<1>11. Inv_SignIns'
  BY <1>3, <1>4, <1>6 DEF IInv, Inv_SignIns
<1>12. Inv_Revocations'
  <2> SUFFICES ASSUME NEW q \in Requests, pc'[q] = "revokeOthers" PROVE Revoking(q)'
    BY DEF Inv_Revocations, Revoking
  <2>1. q # r /\ loc'[q] = loc[q] /\ Revoking(q) /\ pc[q] = "revokeOthers"
    BY <1>6 DEF IInv, Inv_Revocations
  <2>2. \A s \in sessions' : s.stamp < loc[q].stamp =>
          s.token \in excused' \/ s.token \in loc[q].targets \/ s.token = loc[q].session
    BY <1>1, <1>2, <1>3, <1>4, <1>7, <2>1, Numbers DEF Revoking
  <2>3. \A p \in Requests : pc'[p] = "createSession" /\ loc'[p].stamp < loc[q].stamp => p \in excused'
    BY <1>4, <1>6, <2>1 DEF Revoking
  <2> QED
    BY <2>1, <2>2, <2>3 DEF Revoking
<1> QED
  BY <1>3, <1>5, <1>9, <1>10, <1>11, <1>12, Numbers, Step DEF OfSession

\* A session row less, and cookies for sessions that are known.
LEMMA FewerSessions ==
  ASSUME IInv, sessions' \subseteq sessions, cookies' \subseteq Accepted,
         UNCHANGED <<opened, passwords>>
  PROVE  Inv_Sessions'
BY DEF IInv, Inv_Sessions, Accepted

\* A step of no request that revokes at most.
LEMMA StillStep ==
  ASSUME IInv, UNCHANGED <<pc, loc, passwords, opened, evicted, excused>>,
         sessions' \subseteq sessions, cookies' \subseteq Accepted, account' \subseteq account,
         Cardinality(account') <= 1, mailed' \in 0 .. MaxTokens, tokens' \subseteq 1 .. mailed'
  PROVE  IInv'
<1>1. Inv_Account' /\ Inv_Sessions' /\ Inv_Locals'
  BY FewerSessions DEF IInv, Inv_Account, Inv_Locals
<1>2. Inv_SignIns' /\ Inv_Revocations' /\ OldSessionsEvicted'
  BY DEF IInv, Inv_SignIns, Inv_Revocations, Revoking, OldSessionsEvicted
<1>3. TypeOK'
  BY <1>1 DEF IInv, TypeOK, Inv_Account, Inv_Sessions
<1> QED
  BY <1>1, <1>2, <1>3 DEF IInv

LEMMA SignOutInv ==
  ASSUME IInv, NEW s \in sessions, SignOut(s)
  PROVE  IInv'
BY StillStep DEF SignOut, IInv, TypeOK, Accepted

LEMMA RenewCookieInv ==
  ASSUME IInv, NEW s \in sessions, RenewCookie(s)
  PROVE  IInv'
BY StillStep DEF RenewCookie, IInv, TypeOK, Accepted

LEMMA CookieExpiresInv ==
  ASSUME IInv, NEW s \in cookies, CookieExpires(s)
  PROVE  IInv'
BY StillStep DEF CookieExpires, IInv, TypeOK, Accepted

LEMMA ForgetPasswordInv == ASSUME IInv, ForgetPassword PROVE IInv'
<1>1. mailed' \in 0 .. MaxTokens /\ tokens' \subseteq 1 .. mailed'
  BY Numbers, Constants DEF ForgetPassword, IInv, TypeOK
<1> QED
  BY <1>1, StillStep DEF ForgetPassword, IInv, TypeOK, Accepted

LEMMA UnlinkCredentialInv == ASSUME IInv, UnlinkCredential PROVE IInv'
<1>1. Cardinality(account') = 0
  BY FS_EmptySet DEF UnlinkCredential
<1> QED
  BY <1>1, StillStep DEF UnlinkCredential, IInv, TypeOK, Accepted

LEMMA ResetPasswordInv ==
  ASSUME IInv, NEW r \in Requests, NEW t \in tokens, ResetPassword(r, t)
  PROVE  IInv'
<1> DEFINE locals == [NoLocals EXCEPT !.row = CredentialRow]
<1>1. /\ Moves(r, "resetWrite", locals) /\ "resetWrite" \in PCs /\ tokens' \subseteq tokens
      /\ UNCHANGED <<account, passwords, sessions, cookies, opened, mailed, evicted, excused>>
  BY DEF ResetPassword, Begin, Moves, PCs
<1>2. locals \in Locals /\ locals.stamp = 0
  BY NoLocalsType, CredentialRowType DEF NoLocals, Locals
<1> HIDE DEF locals
<1> QED
  BY <1>1, <1>2, Numbers, ReadStep DEF OfSession

LEMMA SetUserPasswordInv ==
  ASSUME IInv, NEW r \in Requests, SetUserPassword(r)
  PROVE  IInv'
<1> DEFINE locals == [NoLocals EXCEPT !.row = CredentialRow]
<1>1. /\ Moves(r, "adminWrite", locals) /\ "adminWrite" \in PCs
      /\ UnchangedTables /\ UNCHANGED <<evicted, excused>>
  BY DEF SetUserPassword, Begin, Moves, PCs
<1>2. locals \in Locals /\ locals.stamp = 0
  BY NoLocalsType, CredentialRowType DEF NoLocals, Locals
<1> HIDE DEF locals
<1> QED
  BY <1>1, <1>2, Numbers, ReadStep DEF UnchangedTables, OfSession

LEMMA ChangePasswordInv ==
  ASSUME IInv, NEW r \in Requests, NEW s \in Accepted, ChangePassword(r, s)
  PROVE  IInv'
<1> DEFINE locals == [NoLocals EXCEPT !.session = s.token, !.stamp = s.stamp,
                                      !.row = CredentialRow]
<1>1. /\ Moves(r, "changeWrite", locals) /\ "changeWrite" \in PCs
      /\ UnchangedTables /\ UNCHANGED <<evicted, excused>>
  BY DEF ChangePassword, Begin, Moves, PCs
<1>2. /\ s.token \in Token /\ s.token \in 0 .. MaxSessions /\ s.stamp \in 0 .. MaxPasswords
      /\ s.stamp <= passwords
  BY Constants DEF IInv, Inv_Sessions, Token, Accepted
<1>3. locals \in Locals /\ locals.stamp = s.stamp /\ locals.session = s.token
  BY <1>2, NoLocalsType, CredentialRowType DEF NoLocals, Locals
<1> HIDE DEF locals
<1> QED
  BY <1>1, <1>2, <1>3, ReadStep DEF UnchangedTables

LEMMA SetPasswordInv ==
  ASSUME IInv, NEW r \in Requests, NEW s \in Accepted, SetPassword(r, s)
  PROVE  IInv'
<1> DEFINE locals == [NoLocals EXCEPT !.session = s.token, !.stamp = s.stamp]
<1>1. /\ Moves(r, "setWrite", locals) /\ "setWrite" \in PCs
      /\ UnchangedTables /\ UNCHANGED <<evicted, excused>>
  BY DEF SetPassword, Begin, Moves, PCs
<1>2. /\ s.token \in Token /\ s.token \in 0 .. MaxSessions /\ s.stamp \in 0 .. MaxPasswords
      /\ s.stamp <= passwords
  BY Constants DEF IInv, Inv_Sessions, Token, Accepted
<1>3. locals \in Locals /\ locals.stamp = s.stamp /\ locals.session = s.token
  BY <1>2, NoLocalsType DEF NoLocals, Locals
<1> HIDE DEF locals
<1> QED
  BY <1>1, <1>2, <1>3, ReadStep DEF UnchangedTables

\* The locals of a request that has written a password and goes on to revoke.
LEMMA StampedType ==
  ASSUME IInv, NEW r \in Requests, passwords' \in 0 .. MaxPasswords
  PROVE  /\ [loc[r] EXCEPT !.stamp = passwords'] \in Locals
         /\ [loc[r] EXCEPT !.stamp = passwords'].stamp = passwords'
         /\ [loc[r] EXCEPT !.stamp = passwords'].session = loc[r].session
<1>1. loc[r] \in Locals
  BY DEF IInv, Inv_Locals
<1> QED
  BY <1>1 DEF Locals

LEMMA ResetWriteInv ==
  ASSUME IInv, NEW r \in Requests, ResetWrite(r)
  PROVE  IInv'
<1> DEFINE locals == [loc[r] EXCEPT !.stamp = passwords']
<1>1. /\ passwords' = passwords + 1 /\ passwords' \in 0 .. MaxPasswords
      /\ Inv_Account' /\ Cardinality(account') <= 1
      /\ UNCHANGED <<sessions, cookies, opened, tokens, mailed, evicted, excused>>
  BY WriteCredentialOK DEF ResetWrite
<1>2. CASE Return(r)
  BY <1>1, <1>2, ReturnMoves, Constants, PasswordStep
<1>3. CASE Moves(r, "resetRevoke", locals)
  <2>1. locals \in Locals /\ locals.stamp = passwords' /\ "resetRevoke" \in PCs
    BY <1>1, StampedType DEF PCs
  <2> HIDE DEF locals
  <2> QED
    BY <1>1, <1>3, <2>1, Constants, PasswordStep DEF OfSession
<1>4. Return(r) \/ Moves(r, "resetRevoke", locals)
  BY DEF ResetWrite, Moves, IInv, Inv_Locals
<1> QED
  BY <1>2, <1>3, <1>4

LEMMA WriteOwnPasswordInv ==
  ASSUME IInv, NEW r \in Requests, NEW ask \in BOOLEAN, WriteOwnPassword(r, ask)
  PROVE  IInv'
<1> DEFINE locals == [loc[r] EXCEPT !.stamp = passwords']
<1>1. /\ passwords' = passwords + 1 /\ passwords' \in 0 .. MaxPasswords
      /\ Inv_Account' /\ Cardinality(account') <= 1
      /\ UNCHANGED <<sessions, cookies, opened, tokens, mailed, evicted, excused>>
  BY CreateCredentialOK, UpdatePasswordOK DEF WriteOwnPassword
<1>2. CASE Return(r)
  BY <1>1, <1>2, ReturnMoves, Constants, PasswordStep
<1>3. CASE Moves(r, "listOthers", locals)
  <2>1. /\ locals \in Locals /\ locals.stamp = passwords' /\ "listOthers" \in PCs
        /\ locals.session = loc[r].session
    BY <1>1, StampedType DEF PCs
  <2>2. loc[r].session \in Token
    BY DEF WriteOwnPassword, OfSession, IInv, Inv_Locals
  <2> HIDE DEF locals
  <2> QED
    BY <1>1, <1>3, <2>1, <2>2, Constants, PasswordStep
<1>4. Return(r) \/ Moves(r, "listOthers", locals)
  BY DEF WriteOwnPassword, Moves, IInv, Inv_Locals
<1> QED
  BY <1>2, <1>3, <1>4

LEMMA AdminWriteInv ==
  ASSUME IInv, NEW r \in Requests, AdminWrite(r)
  PROVE  IInv'
<1>1. /\ passwords' = passwords + 1 /\ passwords' \in 0 .. MaxPasswords
      /\ Inv_Account' /\ Cardinality(account') <= 1
      /\ UNCHANGED <<sessions, cookies, opened, tokens, mailed, evicted, excused>> /\ Return(r)
  BY WriteCredentialOK DEF AdminWrite
<1> QED
  BY <1>1, ReturnMoves, Constants, PasswordStep

LEMMA AbandonInv ==
  ASSUME IInv, NEW r \in Requests, Abandon(r)
  PROVE  IInv'
<1>1. /\ Moves(r, "idle", NoLocals) /\ NoLocals \in Locals /\ NoLocals.stamp = 0 /\ "idle" \in PCs
      /\ excused' = excused \ {r} /\ UnchangedTables /\ UNCHANGED evicted
  BY ReturnMoves DEF Abandon
<1>2. Inv_SignIns' /\ Inv_Revocations' /\ OldSessionsEvicted'
  BY <1>1, Quiet DEF UnchangedTables
<1>3. TablesOK'
  BY <1>1, Tables DEF TablesOK, Inv_Account, Inv_Sessions, UnchangedTables
<1> QED
  BY <1>1, <1>2, <1>3, Numbers, Step DEF UnchangedTables, OfSession

-----------------------------------------------------------------------------
(* Revocations *)

\* The end of a revocation that left no session of a password below p, but
\* for the excused ones.
LEMMA EvictionStep ==
  ASSUME IInv, NEW r \in Requests, Return(r), NEW p \in Nat, p <= passwords,
         NEW kept \in SUBSET Token, NoteEviction(p, kept),
         sessions' \subseteq sessions, \A s \in sessions' : s.stamp < p => s.token \in excused',
         UNCHANGED <<account, passwords, cookies, opened, tokens, mailed>>
  PROVE  IInv'
<1>1. /\ Moves(r, "idle", NoLocals) /\ NoLocals \in Locals /\ NoLocals.stamp = 0 /\ "idle" \in PCs
  BY ReturnMoves
<1>2. /\ pc'[r] = "idle"
      /\ \A q \in Requests \ {r} : pc'[q] = pc[q] /\ loc'[q] = loc[q]
  BY <1>1, MovesType DEF IInv, TypeOK, Inv_Locals
<1>3. /\ evicted' = evicted \/ evicted' = p
      /\ evicted' \in 0 .. passwords
      /\ excused \subseteq excused' /\ excused' \subseteq Requests \cup Token
      /\ \A q \in Requests : pc[q] = "createSession" => q \in excused'
  BY Numbers DEF NoteEviction, IInv, TypeOK
<1>4. Inv_SignIns'
  BY <1>2, <1>3 DEF Inv_SignIns
<1>5. OldSessionsEvicted'
  BY <1>3 DEF IInv, OldSessionsEvicted
<1>6. Inv_Revocations'
  BY <1>2, <1>3 DEF IInv, Inv_Revocations, Revoking
<1>7. TablesOK'
  BY <1>3, FewerSessions, Tables DEF TablesOK, Inv_Account, Accepted
<1> QED
  BY <1>1, <1>4, <1>5, <1>6, <1>7, Numbers, Step DEF OfSession

LEMMA ResetRevokeInv ==
  ASSUME IInv, NEW r \in Requests, ResetRevoke(r)
  PROVE  IInv'
<1>1. /\ Return(r) /\ NoteEviction(loc[r].stamp, {}) /\ sessions' = {}
      /\ UNCHANGED <<account, passwords, cookies, opened, tokens, mailed>>
  BY DEF ResetRevoke
<1> QED
  BY <1>1, Numbers, EvictionStep

LEMMA RevokedOthersInv ==
  ASSUME IInv, NEW r \in Requests, RevokedOthers(r)
  PROVE  IInv'
<1>1. /\ pc[r] = "revokeOthers" /\ loc[r].targets = {}
      /\ NoteEviction(loc[r].stamp, {loc[r].session}) /\ Return(r) /\ UnchangedTables
  BY DEF RevokedOthers
<1>2. {loc[r].session} \in SUBSET Token
  BY <1>1 DEF IInv, Inv_Locals, OfSession
<1>3. excused \subseteq excused' /\ loc[r].session \in excused'
  BY <1>1 DEF NoteEviction
<1>4. \A s \in sessions' : s.stamp < loc[r].stamp => s.token \in excused'
  BY <1>1, <1>3 DEF IInv, Inv_Revocations, Revoking, UnchangedTables
<1> QED
  BY <1>1, <1>2, <1>4, Numbers, EvictionStep DEF UnchangedTables

\* All sessions but the request's own are targets, and all sign-ins excused.
LEMMA ListOthersInv ==
  ASSUME IInv, NEW r \in Requests, ListOthers(r)
  PROVE  IInv'
<1> DEFINE found == {s.token : s \in sessions} \ {loc[r].session}
           locals == [loc[r] EXCEPT !.targets = found]
<1>1. /\ pc[r] = "listOthers" /\ Moves(r, "revokeOthers", locals) /\ "revokeOthers" \in PCs
      /\ UnchangedTables /\ evicted' = evicted
      /\ excused \subseteq excused' /\ excused' \subseteq Requests \cup Token
      /\ \A q \in Requests : pc[q] = "createSession" => q \in excused'
  BY DEF ListOthers, Moves, PCs, IInv, Inv_Locals, TypeOK
<1>2. /\ found \subseteq Token
      /\ \A s \in sessions : s.token \in found \/ s.token = loc[r].session
  BY DEF IInv, Inv_Sessions
<1> HIDE DEF found
<1>3. /\ locals \in Locals /\ locals.stamp = loc[r].stamp /\ locals.session = loc[r].session
      /\ locals.targets = found
  <2>1. loc[r] \in Locals
    BY DEF IInv, Inv_Locals
  <2> QED
    BY <1>2, <2>1 DEF Locals
<1> HIDE DEF locals
<1>4. /\ pc'[r] = "revokeOthers" /\ loc'[r] = locals
      /\ \A q \in Requests \ {r} : pc'[q] = pc[q] /\ loc'[q] = loc[q]
  BY <1>1, <1>3, MovesType DEF IInv, TypeOK, Inv_Locals
<1>5. Inv_SignIns' /\ OldSessionsEvicted'
  BY <1>1, <1>4 DEF IInv, Inv_SignIns, OldSessionsEvicted, UnchangedTables
<1>6. Inv_Revocations'
  <2> SUFFICES ASSUME NEW q \in Requests, pc'[q] = "revokeOthers" PROVE Revoking(q)'
    BY DEF Inv_Revocations, Revoking
  <2>1. \A p \in Requests : pc'[p] = "createSession" => p \in excused'
    BY <1>1, <1>4
  <2>2. CASE q = r
    BY <1>1, <1>2, <1>3, <1>4, <2>1, <2>2 DEF Revoking, UnchangedTables
  <2>3. CASE q # r
    BY <1>1, <1>4, <2>1, <2>3 DEF IInv, Inv_Revocations, Revoking, UnchangedTables
  <2> QED
    BY <2>2, <2>3
<1>7. TablesOK'
  BY <1>1, Tables DEF TablesOK, Inv_Account, Inv_Sessions, UnchangedTables
<1>8. locals.session \in Token
  BY <1>1, <1>3 DEF IInv, Inv_Locals, OfSession
<1> QED
  BY <1>1, <1>3, <1>5, <1>6, <1>7, <1>8, Numbers, Step DEF UnchangedTables

\* A target less, because its session is gone or excused.
LEMMA RevokeOtherInv ==
  ASSUME IInv, NEW r \in Requests, NEW t \in Token, RevokeOther(r, t)
  PROVE  IInv'
<1> DEFINE locals == [loc[r] EXCEPT !.targets = @ \ {t}]
<1>1. /\ pc[r] = "revokeOthers" /\ Moves(r, "revokeOthers", locals) /\ "revokeOthers" \in PCs
      /\ UNCHANGED <<account, passwords, cookies, opened, tokens, mailed, evicted>>
      /\ sessions' \subseteq sessions /\ excused \subseteq excused'
      /\ excused' \subseteq Requests \cup Token
      /\ \A s \in sessions' : s.token = t => t \in excused'
  BY DEF RevokeOther, Moves, PCs, IInv, Inv_Locals, TypeOK
<1>2. /\ locals \in Locals /\ locals.stamp = loc[r].stamp /\ locals.session = loc[r].session
      /\ locals.targets = loc[r].targets \ {t}
  <2>1. loc[r] \in Locals
    BY DEF IInv, Inv_Locals
  <2> QED
    BY <2>1 DEF Locals
<1> HIDE DEF locals
<1>3. /\ pc'[r] = "revokeOthers" /\ loc'[r] = locals
      /\ \A q \in Requests \ {r} : pc'[q] = pc[q] /\ loc'[q] = loc[q]
  BY <1>1, <1>2, MovesType DEF IInv, TypeOK, Inv_Locals
<1>4. Inv_SignIns' /\ OldSessionsEvicted'
  BY <1>1, <1>3 DEF IInv, Inv_SignIns, OldSessionsEvicted
<1>5. Inv_Revocations'
  <2> SUFFICES ASSUME NEW q \in Requests, pc'[q] = "revokeOthers" PROVE Revoking(q)'
    BY DEF Inv_Revocations, Revoking
  <2>1. Revoking(q) /\ pc[q] = "revokeOthers" /\ loc'[q].stamp = loc[q].stamp
        /\ loc'[q].session = loc[q].session /\ loc[q].targets \ {t} \subseteq loc'[q].targets
    BY <1>1, <1>2, <1>3 DEF IInv, Inv_Revocations
  <2>2. \A s \in sessions' : s.stamp < loc'[q].stamp =>
          s.token \in excused' \/ s.token \in loc'[q].targets \/ s.token = loc'[q].session
    BY <1>1, <2>1 DEF Revoking
  <2>3. \A p \in Requests : pc'[p] = "createSession" /\ loc'[p].stamp < loc'[q].stamp => p \in excused'
    BY <1>1, <1>3, <2>1 DEF Revoking
  <2> QED
    BY <2>2, <2>3 DEF Revoking
<1>6. TablesOK'
  BY <1>1, FewerSessions, Tables DEF TablesOK, Inv_Account, Accepted
<1>7. locals.session \in Token
  BY <1>1, <1>2 DEF IInv, Inv_Locals, OfSession
<1> QED
  BY <1>1, <1>2, <1>4, <1>5, <1>6, <1>7, Numbers, Step

-----------------------------------------------------------------------------

\* Every step keeps the invariant.
LEMMA NextInv == IInv /\ [Next]_vars => IInv'
<1> SUFFICES ASSUME IInv, [Next]_vars PROVE IInv'
  OBVIOUS
<1>1. CASE UNCHANGED vars
  BY <1>1 DEF vars, IInv, TypeOK, Inv_Account, Inv_Sessions, Inv_Locals, Inv_SignIns,
     Inv_Revocations, Revoking, OldSessionsEvicted
<1> QED
  BY <1>1, SignInEmailInv, SignInProviderInv, CreateSessionInv, ResetPasswordInv, ResetWriteInv,
     ResetRevokeInv, ChangePasswordInv, SetPasswordInv, WriteOwnPasswordInv, ListOthersInv,
     RevokedOthersInv, RevokeOtherInv, SetUserPasswordInv, AdminWriteInv, AbandonInv, SignOutInv, RenewCookieInv, CookieExpiresInv,
     ForgetPasswordInv, UnlinkCredentialInv DEF Next

-----------------------------------------------------------------------------
(* The theorems *)

\* Every reachable state has the types TypeOK states: there is one credential
\* row at most, and it holds the last password written.
THEOREM TypeCorrect == Spec => []TypeOK
<1>1. IInv => TypeOK
  BY DEF IInv
<1> QED
  BY <1>1, InitInv, NextInv, PTL DEF Spec

\* After a reset, a change or a first password that revokes, no session
\* authenticated under an older password is left, but for the excused ones.
THEOREM OldSessionsAreEvicted == Spec => []OldSessionsEvicted
<1>1. IInv => OldSessionsEvicted
  BY DEF IInv
<1> QED
  BY <1>1, InitInv, NextInv, PTL DEF Spec
=============================================================================
