----------------------------- MODULE EmailFlows -----------------------------
(***************************************************************************)
(* Who holds which address, and which addresses count as verified: the     *)
(* sign-up, verify-email, change-email, delete-user and magic-link flows   *)
(* of handler_email.go, handler_verification.go, handler_user.go and       *)
(* plugins/magiclink over the user table and the one-time tokens.          *)
(*                                                                         *)
(* One database call that writes is one step; a read that only leads to an *)
(* early return is part of the step it guards, and a read whose result is  *)
(* used later is a step of its own.  ConsumeToken is one step, as          *)
(* OneTimeTokens shows of it.  A link is its token: whoever presents it    *)
(* received mail at the address it was sent to.                            *)
(***************************************************************************)
EXTENDS Naturals, FiniteSets

CONSTANTS
  Requests,     \* concurrently running requests
  Emails,       \* normalised addresses
  MaxUsers,     \* bound on the accounts ever created
  MaxLinks      \* bound on the links ever sent

ASSUME EmailFlowsAssumption == MaxUsers \in Nat /\ MaxLinks \in Nat

VARIABLES
  users,        \* the user table
  created,      \* ids below created have been given to a user
  links,        \* live tokens of the kinds below
  sent,         \* numbers below sent have been given to a link
  pc, loc,      \* the next database call of each request, and its locals
  proven,       \* history: <<id, email>> where the account showed control of email
  held,         \* history: <<id, email>> where email was verified on the account
  overlapped    \* history: accounts moved while a verification was being written

vars == <<users, created, links, sent, pc, loc, proven, held, overlapped>>

UserId == 0 .. MaxUsers - 1
User == [id : UserId, email : Emails, verified : BOOLEAN]
NoId == MaxUsers

\* user: whose link it is (NoId for a magic link); email: the address in the
\* token's value; sentTo: where the mail went.
Link == [n : 0 .. MaxLinks - 1, kind : {"verify", "change", "delete", "magic"},
         user : UserId \cup {NoId}, email : Emails, sentTo : Emails]

\* A request's locals: the user row as it was read and the address or link
\* it works on.
NoUser == [id |-> NoId, email |-> "none", verified |-> FALSE]
NoLink == [n |-> MaxLinks, kind |-> "none", user |-> NoId, email |-> "none", sentTo |-> "none"]
NoLocals == [user |-> NoUser, email |-> "none", link |-> NoLink]
Locals == [user : User \cup {NoUser}, email : Emails \cup {"none"}, link : Link \cup {NoLink}]

PCs == {"idle", "signUp", "sendVerify", "changeEmail", "approve", "verify",
        "setVerified", "magic", "delete"}

TypeOK ==
  /\ users \subseteq User
  /\ \A a, b \in users : a.id = b.id \/ a.email = b.email => a = b
  /\ created \in 0 .. MaxUsers /\ \A u \in users : u.id < created
  /\ links \subseteq Link /\ sent \in 0 .. MaxLinks
  /\ pc \in [Requests -> PCs]
  /\ loc \in [Requests -> Locals]
  /\ proven \subseteq UserId \X Emails
  /\ held \subseteq UserId \X Emails
  /\ overlapped \subseteq UserId

Init ==
  /\ users = {} /\ created = 0
  /\ links = {} /\ sent = 0
  /\ pc = [r \in Requests |-> "idle"]
  /\ loc = [r \in Requests |-> NoLocals]
  /\ proven = {} /\ held = {} /\ overlapped = {}

Goto(r, label) == pc' = [pc EXCEPT ![r] = label]
Return(r) == Goto(r, "idle") /\ loc' = [loc EXCEPT ![r] = NoLocals]
Continue(r, label, user) ==
  /\ Goto(r, label)
  /\ loc' = [loc EXCEPT ![r] = [NoLocals EXCEPT !.user = user]]

-----------------------------------------------------------------------------
(* The user table and the tokens *)

Taken(e) == \E u \in users : u.email = e

\* Mutant: no unique index behind the existence check.
CreateUserUnindexed(e, verified) ==
  /\ created < MaxUsers
  /\ users' = users \cup {[id |-> created, email |-> e, verified |-> verified]}
  /\ created' = created + 1
  /\ held' = IF verified THEN held \cup {<<created, e>>} ELSE held

\* base.Create of a user: the unique index refuses an address in use.
CreateUser(e, verified) ==
  /\ created < MaxUsers
  /\ ~Taken(e)
  /\ users' = users \cup {[id |-> created, email |-> e, verified |-> verified]}
  /\ created' = created + 1
  /\ held' = IF verified THEN held \cup {<<created, e>>} ELSE held

\* UpdateUser by id to another address, unverified: the unique index refuses
\* the address of another user.
MoveTo(u, e) ==
  LET writing == {r \in Requests : pc[r] = "setVerified" /\ loc[r].user.id = u.id} IN
  /\ \A other \in users \ {u} : other.email # e
  /\ users' = (users \ {u}) \cup {[u EXCEPT !.email = e, !.verified = FALSE]}
  /\ overlapped' = IF writing = {} THEN overlapped ELSE overlapped \cup {u.id}

\* StoreToken and the mail that carries the token.
Send(kind, id, e, to) ==
  /\ sent < MaxLinks
  /\ links' = links \cup {[n |-> sent, kind |-> kind, user |-> id, email |-> e, sentTo |-> to]}
  /\ sent' = sent + 1

ConsumeToken(l) == links' = links \ {l}

\* A link that was neither redeemed nor swept runs out.
LinkExpires ==
  /\ \E l \in links : links' = links \ {l}
  /\ UNCHANGED <<users, created, sent, pc, loc, proven, held, overlapped>>

-----------------------------------------------------------------------------
(* Signing up, and asking for a verification link *)

SignUpEmail(r, e) ==
  /\ pc[r] = "idle"
  /\ ~Taken(e)
  /\ Goto(r, "signUp")
  /\ loc' = [loc EXCEPT ![r].email = e]
  /\ UNCHANGED <<users, created, links, sent, proven, held, overlapped>>

\* The transaction that creates the user and its credential: the loser of
\* the racy existence check is refused by the unique index.
SignUpCreate(r) ==
  /\ pc[r] = "signUp"
  /\ \/ /\ CreateUser(loc[r].email, FALSE)
        /\ Continue(r, "sendVerify",
                    [id |-> created, email |-> loc[r].email, verified |-> FALSE])
     \/ /\ Taken(loc[r].email)
        /\ Return(r)
        /\ UNCHANGED <<users, created, held>>
  /\ UNCHANGED <<links, sent, proven, overlapped>>

\* sendVerificationEmail to the user as read or written last.
SendVerificationEmail(r) ==
  LET u == loc[r].user IN
  /\ pc[r] = "sendVerify"
  /\ Send("verify", u.id, u.email, u.email)
  /\ Return(r)
  /\ UNCHANGED <<users, created, proven, held, overlapped>>

HandleSendVerificationEmail(r, e) ==
  /\ pc[r] = "idle"
  /\ \E u \in users : u.email = e /\ ~u.verified /\ Continue(r, "sendVerify", u)
  /\ UNCHANGED <<users, created, links, sent, proven, held, overlapped>>

-----------------------------------------------------------------------------
(* Changing the address *)

\* handleChangeEmail: the session's user is read here and used below; the
\* new address is free so far.
ChangeEmail(r, e) ==
  /\ pc[r] = "idle"
  /\ ~Taken(e)
  /\ \E u \in users :
       loc' = [loc EXCEPT ![r] = [NoLocals EXCEPT !.user = u, !.email = e]]
  /\ Goto(r, "changeEmail")
  /\ UNCHANGED <<users, created, links, sent, proven, held, overlapped>>

\* A verified address is asked to approve the move.
SendChangeEmailVerification(r) ==
  /\ pc[r] = "changeEmail"
  /\ loc[r].user.verified
  /\ Send("change", loc[r].user.id, loc[r].email, loc[r].user.email)
  /\ Return(r)
  /\ UNCHANGED <<users, created, proven, held, overlapped>>

\* Mutant: the account is moved whatever the state of its address.
ChangeUnverifiedAlways(r) ==
  /\ pc[r] = "changeEmail"
  /\ \E u \in users :
       /\ u.id = loc[r].user.id
       /\ MoveTo(u, loc[r].email)
       /\ Continue(r, "sendVerify", [u EXCEPT !.email = loc[r].email, !.verified = FALSE])
  /\ UNCHANGED <<created, links, sent, proven, held>>

\* An unverified one is replaced at once.
ChangeUnverified(r) ==
  /\ pc[r] = "changeEmail"
  /\ ~loc[r].user.verified
  /\ \E u \in users :
       /\ u.id = loc[r].user.id
       /\ MoveTo(u, loc[r].email)
       /\ Continue(r, "sendVerify", [u EXCEPT !.email = loc[r].email, !.verified = FALSE])
  /\ UNCHANGED <<created, links, sent, proven, held>>

\* performVerifyEmail on a change-email link: consume it, then move.
RedeemChange(r) ==
  /\ pc[r] = "idle"
  /\ \E l \in links :
       /\ l.kind = "change"
       /\ ConsumeToken(l)
       /\ proven' = proven \cup {<<l.user, l.sentTo>>}
       /\ loc' = [loc EXCEPT ![r].link = l]
  /\ Goto(r, "approve")
  /\ UNCHANGED <<users, created, sent, held, overlapped>>

\* The new address lands unverified and gets its own link.  A user deleted
\* or an address claimed in the meantime ends the request (Abandon).
ApproveChange(r) ==
  LET l == loc[r].link IN
  /\ pc[r] = "approve"
  /\ \E u \in users :
       /\ u.id = l.user
       /\ MoveTo(u, l.email)
       /\ Continue(r, "sendVerify", [u EXCEPT !.email = l.email, !.verified = FALSE])
  /\ UNCHANGED <<created, links, sent, proven, held>>

-----------------------------------------------------------------------------
(* Verifying an address *)

RedeemVerify(r) ==
  /\ pc[r] = "idle"
  /\ \E l \in links :
       /\ l.kind = "verify"
       /\ ConsumeToken(l)
       /\ proven' = proven \cup {<<l.user, l.sentTo>>}
       /\ loc' = [loc EXCEPT ![r].link = l]
  /\ Goto(r, "verify")
  /\ UNCHANGED <<users, created, sent, held, overlapped>>

\* Mutant: the address the link was issued for is not compared.
VerifyEmailAnyAddress(r) ==
  LET l == loc[r].link IN
  /\ pc[r] = "verify"
  /\ \E u \in users :
       /\ u.id = l.user
       /\ ~u.verified
       /\ Continue(r, "setVerified", u)
  /\ UNCHANGED <<users, created, links, sent, proven, held, overlapped>>

\* The user is read: a link issued for an address the account has left since
\* proves nothing about the one it has.  (A user gone, an address left or
\* one verified already ends the verification: Abandon.)
VerifyEmail(r) ==
  LET l == loc[r].link IN
  /\ pc[r] = "verify"
  /\ \E u \in users :
       /\ u.id = l.user
       /\ u.email = l.email
       /\ ~u.verified
       /\ Continue(r, "setVerified", u)
  /\ UNCHANGED <<users, created, links, sent, proven, held, overlapped>>

\* UpdateUser(emailVerified: true), by id.
SetVerified(r) ==
  /\ pc[r] = "setVerified"
  /\ \E u \in users :
       /\ u.id = loc[r].user.id
       /\ users' = (users \ {u}) \cup {[u EXCEPT !.verified = TRUE]}
       /\ held' = held \cup {<<u.id, u.email>>}
  /\ Return(r)
  /\ UNCHANGED <<created, links, sent, proven, overlapped>>

-----------------------------------------------------------------------------
(* Magic links *)

SendMagicLink(r, e) ==
  /\ pc[r] = "idle"
  /\ Send("magic", NoId, e, e)
  /\ UNCHANGED <<users, created, pc, loc, proven, held, overlapped>>

RedeemMagic(r) ==
  /\ pc[r] = "idle"
  /\ \E l \in links :
       /\ l.kind = "magic"
       /\ ConsumeToken(l)
       /\ loc' = [loc EXCEPT ![r].link = l]
  /\ Goto(r, "magic")
  /\ UNCHANGED <<users, created, sent, proven, held, overlapped>>

\* The link proves control of the address for the account that has it now:
\* an unverified account is verified next, an unknown address signs up.
\* (One verified already is only signed in: Abandon.)
MagicVerify(r) ==
  LET e == loc[r].link.email IN
  /\ pc[r] = "magic"
  /\ \/ /\ \E u \in users :
             /\ u.email = e
             /\ ~u.verified
             /\ proven' = proven \cup {<<u.id, e>>}
             /\ Continue(r, "setVerified", u)
        /\ UNCHANGED <<users, created, held>>
     \/ /\ CreateUser(e, TRUE)
        /\ proven' = proven \cup {<<created, e>>}
        /\ Return(r)
  /\ UNCHANGED <<links, sent, overlapped>>

-----------------------------------------------------------------------------
(* Deleting the account *)

\* handleDeleteUser with the password or a fresh session, in one transaction.
DeleteUser(r) ==
  /\ pc[r] = "idle"
  /\ \E u \in users : users' = users \ {u}
  /\ UNCHANGED <<created, links, sent, pc, loc, proven, held, overlapped>>

SendDeleteAccountVerification(r) ==
  /\ pc[r] = "idle"
  /\ \E u \in users : Send("delete", u.id, u.email, u.email)
  /\ UNCHANGED <<users, created, pc, loc, proven, held, overlapped>>

\* completeDeleteUser.
RedeemDelete(r) ==
  /\ pc[r] = "idle"
  /\ \E l \in links :
       /\ l.kind = "delete"
       /\ ConsumeToken(l)
       /\ loc' = [loc EXCEPT ![r].link = l]
  /\ Goto(r, "delete")
  /\ UNCHANGED <<users, created, sent, proven, held, overlapped>>

PerformDeleteUser(r) ==
  /\ pc[r] = "delete"
  /\ \E u \in users : u.id = loc[r].link.user /\ users' = users \ {u}
  /\ Return(r)
  /\ UNCHANGED <<created, links, sent, proven, held, overlapped>>

-----------------------------------------------------------------------------
\* The request ends early, a call fails or the process dies between two calls.
Abandon(r) ==
  /\ pc[r] # "idle"
  /\ Return(r)
  /\ UNCHANGED <<users, created, links, sent, proven, held, overlapped>>

RequestStep(r) ==
  \/ \E e \in Emails : \/ SignUpEmail(r, e) \/ HandleSendVerificationEmail(r, e)
                       \/ ChangeEmail(r, e) \/ SendMagicLink(r, e)
  \/ SignUpCreate(r) \/ SendVerificationEmail(r)
  \/ SendChangeEmailVerification(r) \/ ChangeUnverified(r) \/ RedeemChange(r) \/ ApproveChange(r)
  \/ RedeemVerify(r) \/ VerifyEmail(r) \/ SetVerified(r)
  \/ RedeemMagic(r) \/ MagicVerify(r)
  \/ DeleteUser(r) \/ SendDeleteAccountVerification(r) \/ RedeemDelete(r) \/ PerformDeleteUser(r)
  \/ Abandon(r)

Next == LinkExpires \/ \E r \in Requests : RequestStep(r)

Spec == Init /\ [][Next]_vars

-----------------------------------------------------------------------------
(* Properties *)

\* "If the account has since moved to a different address, [the token] proves
\* nothing about the current one": a verified address is one whose control
\* was shown for this very account, through any sequence of sign-ups,
\* deletions, moves and links left over from earlier addresses, unless the
\* account was moved in the middle of writing a verification.
ProvenUnlessOverlapped ==
  \A u \in users : u.verified /\ u.id \notin overlapped => <<u.id, u.email>> \in proven

Moved(u) == \E v \in users' : v.id = u.id /\ v.email # u.email

\* A verified address is the recovery channel: an account leaves it only by
\* redeeming an approval that was mailed to a verified address of the same
\* account, or in a request that read the address before it was verified.
MovesNeedApproval ==
  [][\A u \in users : u.verified /\ Moved(u) =>
       \E r \in Requests :
         \/ /\ pc[r] = "approve" /\ pc'[r] # "approve"
            /\ loc[r].link.user = u.id /\ <<u.id, loc[r].link.sentTo>> \in held
         \/ /\ pc[r] = "changeEmail" /\ pc'[r] # "changeEmail"
            /\ loc[r].user.id = u.id /\ ~loc[r].user.verified]_vars
=============================================================================
