------------------------------ MODULE Passwords ------------------------------
(***************************************************************************)
(* One user's password and the sessions opened with it: sign-in, reset by  *)
(* e-mail, change, first password of a social user, and the administrator's*)
(* override.  A step is one write and the reads that lead up to it.        *)
(*                                                                         *)
(* Every password ever set is a fresh number, drawn when it is written, so *)
(* a smaller number is a password that has been superseded.  A sign-in     *)
(* stamps its session with the password in force when it was authenticated,*)
(* be it by that password or by a provider.  A request with a wrong        *)
(* password, an unverified address or a session that is not fresh changes  *)
(* nothing and is left out.                                                *)
(*                                                                         *)
(* With the cookie cache on, a cookie vouches for a session without a look *)
(* at the table, so a request may still come with one that was revoked.    *)
(* There is no clock: a cookie runs out at any time.  Sessions bounds how  *)
(* long it may be stale.                                                   *)
(***************************************************************************)
EXTENDS Naturals, FiniteSets

CONSTANTS
  Requests,                       \* concurrently running requests
  KeepSessionsOnPasswordReset,    \* EmailAndPassword
  KeepSessionsOnPasswordChange,   \* EmailAndPassword
  CookieCache,                    \* Session: RequireSession may trust the cookie
  MaxPasswords, MaxSessions, MaxTokens    \* bounds on what is ever created

ASSUME PasswordsAssumption ==
  /\ KeepSessionsOnPasswordReset \in BOOLEAN /\ KeepSessionsOnPasswordChange \in BOOLEAN
  /\ CookieCache \in BOOLEAN
  /\ MaxPasswords \in Nat /\ MaxSessions \in Nat /\ MaxTokens \in Nat
  /\ Requests \cap (1 .. MaxSessions) = {}   \* excused holds requests and session tokens

VARIABLES
  account,    \* the user's rows for provider "credential": row id and password
  passwords,  \* passwords written so far
  sessions,   \* the session table: token and stamp
  cookies,    \* the sessions an unexpired cache cookie vouches for
  opened,     \* session tokens given out so far
  tokens,     \* live reset tokens
  mailed,     \* reset tokens given out so far
  pc, loc,    \* next write of each request, and what it has read
  evicted,    \* history: passwords below were superseded, and sessions revoked
  excused     \* history: sessions and requests that a revocation does not cover

vars == <<account, passwords, sessions, cookies, opened, tokens, mailed, pc, loc, evicted,
          excused>>

Password == 1 .. MaxPasswords
Token == 1 .. MaxSessions
PCs == {"idle", "createSession", "resetWrite", "resetRevoke", "changeWrite", "setWrite",
        "adminWrite", "listOthers", "revokeOthers"}

\* session: the session a request comes with; stamp: the password in force when
\* it was authenticated; row: the credential row read, 0 if there was none;
\* targets: the sessions still to revoke.
NoLocals == [session |-> 0, stamp |-> 0, row |-> 0, targets |-> {}]

TypeOK ==
  /\ account \subseteq [id : Password, password : Password]
  /\ Cardinality(account) <= 1
  /\ \A a \in account : a.password = passwords
  /\ passwords \in 0 .. MaxPasswords /\ opened \in 0 .. MaxSessions /\ mailed \in 0 .. MaxTokens
  /\ sessions \subseteq [token : Token, stamp : 0 .. MaxPasswords]
  /\ \A s, t \in sessions : s.token = t.token => s = t
  /\ cookies \subseteq [token : Token, stamp : 0 .. MaxPasswords]
  /\ tokens \subseteq 1 .. mailed
  /\ pc \in [Requests -> PCs]
  /\ evicted \in 0 .. passwords
  /\ excused \subseteq Requests \cup Token

Init ==
  /\ account = {} /\ passwords = 0
  /\ sessions = {} /\ cookies = {} /\ opened = 0
  /\ tokens = {} /\ mailed = 0
  /\ pc = [r \in Requests |-> "idle"]
  /\ loc = [r \in Requests |-> NoLocals]
  /\ evicted = 0 /\ excused = {}

Begin(r, label, read) ==
  /\ pc[r] = "idle"
  /\ pc' = [pc EXCEPT ![r] = label]
  /\ loc' = [loc EXCEPT ![r] = read]

Return(r) ==
  /\ pc' = [pc EXCEPT ![r] = "idle"]
  /\ loc' = [loc EXCEPT ![r] = NoLocals]

UnchangedTables == UNCHANGED <<account, passwords, sessions, cookies, opened, tokens, mailed>>

\* FindCredentialAccount: the row id, 0 for ErrNotFound.
CredentialRow == IF account = {} THEN 0 ELSE (CHOOSE a \in account : TRUE).id

\* UpdateAccount of the row that was read, which may be gone by now.
UpdatePassword(row) ==
  /\ passwords < MaxPasswords
  /\ \E a \in account : a.id = row
  /\ passwords' = passwords + 1
  /\ account' = {IF a.id = row THEN [a EXCEPT !.password = passwords'] ELSE a : a \in account}

\* CreateAccount for ("credential", user id), which is unique.
CreateCredential ==
  /\ passwords < MaxPasswords
  /\ account = {}
  /\ passwords' = passwords + 1
  /\ account' = {[id |-> passwords', password |-> passwords']}

\* SetCredentialPassword, and handleResetPassword's own copy of it.
WriteCredential(row) == IF row = 0 THEN CreateCredential ELSE UpdatePassword(row)

-----------------------------------------------------------------------------
(* Signing in *)

\* handleSignInEmail with the right password.
SignInEmail(r) ==
  /\ \E a \in account : Begin(r, "createSession", [NoLocals EXCEPT !.stamp = a.password])
  /\ UnchangedTables /\ UNCHANGED <<evicted, excused>>

\* The end of a provider's callback for this user.
SignInProvider(r) ==
  /\ Begin(r, "createSession", [NoLocals EXCEPT !.stamp = passwords])
  /\ UnchangedTables /\ UNCHANGED <<evicted, excused>>

CreateSession(r) ==
  /\ pc[r] = "createSession"
  /\ opened < MaxSessions
  /\ opened' = opened + 1
  /\ LET new == [token |-> opened', stamp |-> loc[r].stamp] IN
       /\ sessions' = sessions \cup {new}
       /\ cookies' = IF CookieCache THEN cookies \cup {new} ELSE cookies
  /\ excused' = (excused \ {r}) \cup (IF r \in excused THEN {opened'} ELSE {})
  /\ Return(r)
  /\ UNCHANGED <<account, passwords, tokens, mailed, evicted>>

SignOut(s) ==
  /\ sessions' = sessions \ {s}
  /\ UNCHANGED <<account, passwords, cookies, opened, tokens, mailed, pc, loc, evicted, excused>>

\* handleGetSession answers from the table and renews the cookie.
RenewCookie(s) ==
  /\ CookieCache
  /\ cookies' = cookies \cup {s}
  /\ UNCHANGED <<account, passwords, sessions, opened, tokens, mailed, pc, loc, evicted, excused>>

\* CookieCache.MaxAge is over, or the browser drops the cookie.
CookieExpires(s) ==
  /\ cookies' = cookies \ {s}
  /\ UNCHANGED <<account, passwords, sessions, opened, tokens, mailed, pc, loc, evicted, excused>>

\* GetSession: what RequireSession accepts is in the table or in a cookie.
Accepted == sessions \cup cookies

-----------------------------------------------------------------------------
(* Reset *)

\* handleForgetPassword: a token is stored and mailed.
ForgetPassword ==
  /\ mailed < MaxTokens
  /\ mailed' = mailed + 1
  /\ tokens' = tokens \cup {mailed'}
  /\ UNCHANGED <<account, passwords, sessions, cookies, opened, pc, loc, evicted, excused>>

\* handleResetPassword: the token is consumed, then the account looked up.
ResetPassword(r, t) ==
  /\ tokens' = tokens \ {t}
  /\ Begin(r, "resetWrite", [NoLocals EXCEPT !.row = CredentialRow])
  /\ UNCHANGED <<account, passwords, sessions, cookies, opened, mailed, evicted, excused>>

\* A revocation that reached every session of passwords below p, except for
\* the sign-ins and password changes under way and the sessions in `kept'.
NoteEviction(p, kept) ==
  /\ evicted' = IF p > evicted THEN p ELSE evicted
  /\ excused' = excused \cup kept \cup {q \in Requests : pc[q] = "createSession"}

\* Mutant: the sessions are deleted before the password is written.
ResetWriteRevokingFirst(r) ==
  /\ pc[r] = "resetWrite"
  /\ IF loc[r].stamp = 0
     THEN /\ sessions' = {}
          /\ loc' = [loc EXCEPT ![r].stamp = passwords + 1]
          /\ UNCHANGED <<account, passwords, pc, evicted, excused>>
     ELSE /\ WriteCredential(loc[r].row)
          /\ NoteEviction(passwords', {})
          /\ Return(r)
          /\ UNCHANGED sessions
  /\ UNCHANGED <<cookies, opened, tokens, mailed>>

ResetWrite(r) ==
  /\ pc[r] = "resetWrite"
  /\ WriteCredential(loc[r].row)
  /\ IF KeepSessionsOnPasswordReset THEN Return(r)
     ELSE /\ pc' = [pc EXCEPT ![r] = "resetRevoke"]
          /\ loc' = [loc EXCEPT ![r].stamp = passwords']
  /\ UNCHANGED <<sessions, cookies, opened, tokens, mailed, evicted, excused>>

\* DeleteUserSessions; an error is logged (Abandon).
ResetRevoke(r) ==
  /\ pc[r] = "resetRevoke"
  /\ sessions' = {}
  /\ NoteEviction(loc[r].stamp, {})
  /\ Return(r)
  /\ UNCHANGED <<account, passwords, cookies, opened, tokens, mailed>>

-----------------------------------------------------------------------------
(* Change, first password, and the administrator *)

\* handleChangePassword: an accepted session s and the right current password.
ChangePassword(r, s) ==
  /\ account # {}
  /\ Begin(r, "changeWrite", [NoLocals EXCEPT !.session = s.token, !.stamp = s.stamp,
                                              !.row = CredentialRow])
  /\ UnchangedTables /\ UNCHANGED <<evicted, excused>>

\* handleSetPassword: no password so far.
SetPassword(r, s) ==
  /\ account = {}
  /\ Begin(r, "setWrite", [NoLocals EXCEPT !.session = s.token, !.stamp = s.stamp])
  /\ UnchangedTables /\ UNCHANGED <<evicted, excused>>

\* The other sessions are revoked if the body or the configuration says so.
WriteOwnPassword(r, ask) ==
  /\ pc[r] \in {"changeWrite", "setWrite"}
  /\ IF pc[r] = "setWrite" THEN CreateCredential ELSE UpdatePassword(loc[r].row)
  /\ IF ~ask /\ KeepSessionsOnPasswordChange
     THEN Return(r)
     ELSE /\ pc' = [pc EXCEPT ![r] = "listOthers"]
          /\ loc' = [loc EXCEPT ![r].stamp = passwords']
  /\ UNCHANGED <<sessions, cookies, opened, tokens, mailed, evicted, excused>>

\* revokeOtherSessions lists the sessions and deletes all but its own.
ListOthers(r) ==
  /\ pc[r] = "listOthers"
  /\ pc' = [pc EXCEPT ![r] = "revokeOthers"]
  /\ loc' = [loc EXCEPT ![r].targets = {s.token : s \in sessions} \ {loc[r].session}]
  /\ excused' = excused \cup {q \in Requests : pc[q] = "createSession"}
  /\ UnchangedTables /\ UNCHANGED evicted

\* A delete that fails is passed over: that session is excused.
RevokeOther(r, t) ==
  /\ pc[r] = "revokeOthers"
  /\ t \in loc[r].targets
  /\ \/ sessions' = {s \in sessions : s.token # t} /\ UNCHANGED excused
     \/ excused' = excused \cup {t} /\ UNCHANGED sessions
  /\ loc' = [loc EXCEPT ![r].targets = @ \ {t}]
  /\ UNCHANGED <<account, passwords, cookies, opened, tokens, mailed, pc, evicted>>

RevokedOthers(r) ==
  /\ pc[r] = "revokeOthers" /\ loc[r].targets = {}
  /\ NoteEviction(loc[r].stamp, {loc[r].session})
  /\ Return(r)
  /\ UnchangedTables

\* The admin plugin's handleSetUserPassword, which revokes nothing.
SetUserPassword(r) ==
  /\ Begin(r, "adminWrite", [NoLocals EXCEPT !.row = CredentialRow])
  /\ UnchangedTables /\ UNCHANGED <<evicted, excused>>

AdminWrite(r) ==
  /\ pc[r] = "adminWrite"
  /\ WriteCredential(loc[r].row)
  /\ Return(r)
  /\ UNCHANGED <<sessions, cookies, opened, tokens, mailed, evicted, excused>>

\* handleUnlinkAccount of the credential, by a user who has another account.
UnlinkCredential ==
  /\ account # {} /\ Accepted # {}
  /\ account' = {}
  /\ UNCHANGED <<passwords, sessions, cookies, opened, tokens, mailed, pc, loc, evicted, excused>>

-----------------------------------------------------------------------------
\* A call fails, the hasher is busy, or the process dies between two calls.
Abandon(r) ==
  /\ pc[r] # "idle"
  /\ Return(r)
  /\ excused' = excused \ {r}
  /\ UnchangedTables /\ UNCHANGED evicted

Next ==
  \/ \E r \in Requests :
       \/ SignInEmail(r) \/ SignInProvider(r) \/ CreateSession(r)
       \/ \E t \in tokens : ResetPassword(r, t)
       \/ ResetWrite(r) \/ ResetRevoke(r)
       \/ \E s \in Accepted : ChangePassword(r, s) \/ SetPassword(r, s)
       \/ \E ask \in BOOLEAN : WriteOwnPassword(r, ask)
       \/ ListOthers(r) \/ RevokedOthers(r)
       \/ \E t \in Token : RevokeOther(r, t)
       \/ SetUserPassword(r) \/ AdminWrite(r)
       \/ Abandon(r)
  \/ \E s \in sessions : SignOut(s) \/ RenewCookie(s)
  \/ \E s \in cookies : CookieExpires(s)
  \/ ForgetPassword \/ UnlinkCredential

Spec == Init /\ [][Next]_vars

-----------------------------------------------------------------------------
(* Properties *)

\* "Password reset is the standard recovery path after a compromise, so every
\* existing session is revoked": once a reset, a change or a first password
\* has revoked the sessions, none authenticated under an older password is
\* left, whatever sign-ins, resets and changes ran beside it.  Excused are
\* sign-ins already authenticated when the sessions were deleted, the session
\* that asked for the change, and deletes that failed.
OldSessionsEvicted ==
  \A s \in sessions : s.stamp < evicted => s.token \in excused
=============================================================================
