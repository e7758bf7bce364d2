--------------------------- MODULE SocialAccounts ---------------------------
(***************************************************************************)
(* Accounts of provider identities: the OAuth flow of handler_social.go,   *)
(* explicit linking and unlinking, and the other ways a user row and its   *)
(* first account come about.  The provider is one that the SSO plugin may  *)
(* register, delete and register again.                                    *)
(*                                                                         *)
(* A step is one write, or one transaction, with the reads before it.      *)
(* External: the provider's answer is any profile, that is an identity     *)
(* with any address or none, verified or not.  Every user may hold a       *)
(* session, and a cache cookie vouches for it when the user is gone.       *)
(***************************************************************************)
EXTENDS Naturals, FiniteSets

CONSTANTS
  Requests,               \* concurrently running requests
  Identities,             \* account ids at the provider
  Emails,
  TrustedProvider,        \* the provider is among AccountLinking.TrustedProviders
  LinkingDisabled, AllowDifferentEmails, AllowUnlinkingAll,   \* AccountLinking
  DisableSocialSignUp,
  ForeignKeys,            \* the database enforces the references to the user
  CookieCache,            \* a session may be served from a cookie
  MaxUsers, MaxRows, MaxStates, MaxRegistrations,   \* bounds on what is ever created
  MaxMoves                \* bound on changes of an address

ASSUME SocialAccountsAssumption ==
  /\ "credential" \notin Identities
  /\ {TrustedProvider, LinkingDisabled, AllowDifferentEmails, AllowUnlinkingAll,
      DisableSocialSignUp, ForeignKeys, CookieCache} \subseteq BOOLEAN
  /\ {MaxUsers, MaxRows, MaxStates, MaxRegistrations, MaxMoves} \subseteq Nat

VARIABLES
  users,       \* the user table
  accounts,    \* the account table
  registered,  \* whether the provider's row is there, and how often it was created
  states,      \* live OAuth states and nonces
  drawn,       \* ids given out so far, per table, and moves made
  pc, loc,     \* next write of each request, and what it has read
  signedIn,    \* history: <<identity, user>> of completed provider sign-ins
  unlinked,    \* history: identities whose account was deleted
  bare,        \* history: users whose lack of an account is accounted for
  proved,      \* history: <<user, address>> shown to belong together
  mistaken     \* history: <<user, address>> marked verified by another's link

vars == <<users, accounts, registered, states, drawn, pc, loc, signedIn, unlinked, bare,
          proved, mistaken>>

UserId == 1 .. MaxUsers
NoUser == 0
\* identity: "credential" stands for the account id of a password account,
\* which is the user's own id.  by: the address a link by address went by.
Account == [id : 1 .. MaxRows, user : UserId, identity : Identities \cup {"credential"},
            via : {"signUp", "session", "email"}, by : Emails \cup {"none"}]
\* link: the user who asked for the identity to be linked, or NoUser.
State == [id : 1 .. MaxStates, link : UserId \cup {NoUser}]
PCs == {"idle", "verify", "createCredential", "link", "signUp", "signIn", "unlink"}

\* user: the user read or named by the state; identity, email, verified: the
\* profile or the link; id: the account to delete; via: why the identity is linked.
NoLocals == [user |-> NoUser, identity |-> "none", email |-> "none", verified |-> FALSE,
             id |-> 0, via |-> "none"]

Locals == [user : UserId \cup {NoUser}, identity : Identities \cup {"none"},
           email : Emails \cup {"none"}, verified : BOOLEAN, id : 0 .. MaxRows,
           via : {"none", "signUp", "session", "email"}]

\* Rows of one identity at one provider.
Same(a, b) == a.identity = b.identity /\ (a.identity = "credential" => a.user = b.user)

TypeOK ==
  /\ users \subseteq [id : UserId, email : Emails, verified : BOOLEAN]
  /\ \A a, b \in users : a.id = b.id \/ a.email = b.email => a = b
  /\ accounts \subseteq Account
  /\ \A a, b \in accounts : a.id = b.id \/ Same(a, b) => a = b
  /\ ForeignKeys => \A a \in accounts : \E u \in users : u.id = a.user
  /\ registered \in [live : BOOLEAN, times : 0 .. MaxRegistrations]
  /\ states \subseteq State
  /\ drawn \in [users : 0 .. MaxUsers, accounts : 0 .. MaxRows, states : 0 .. MaxStates,
               moves : 0 .. MaxMoves]
  /\ pc \in [Requests -> PCs] /\ loc \in [Requests -> Locals]
  /\ signedIn \subseteq Identities \X UserId
  /\ unlinked \subseteq Identities \cup {"credential"} /\ bare \subseteq UserId
  /\ proved \subseteq UserId \X Emails /\ mistaken \subseteq UserId \X Emails

Init ==
  /\ users = {} /\ accounts = {} /\ states = {}
  /\ registered = [live |-> FALSE, times |-> 0]
  /\ drawn = [users |-> 0, accounts |-> 0, states |-> 0, moves |-> 0]
  /\ pc = [r \in Requests |-> "idle"]
  /\ loc = [r \in Requests |-> NoLocals]
  /\ signedIn = {} /\ unlinked = {} /\ bare = {} /\ proved = {} /\ mistaken = {}

Begin(r, label, read) ==
  /\ pc[r] = "idle"
  /\ pc' = [pc EXCEPT ![r] = label]
  /\ loc' = [loc EXCEPT ![r] = read]

Return(r) ==
  /\ pc' = [pc EXCEPT ![r] = "idle"]
  /\ loc' = [loc EXCEPT ![r] = NoLocals]

Proofs == <<proved, mistaken>>
History == <<signedIn, unlinked, bare, Proofs>>

-----------------------------------------------------------------------------
(* Rows *)

AccountsOf(u) == {a \in accounts : a.user = u}
EmailTaken(e) == \E u \in users : u.email = e

\* CreateUser: the address is unique.
InsertUser(e, verified) ==
  /\ drawn.users < MaxUsers
  /\ ~EmailTaken(e)
  /\ users' = users \cup {[id |-> drawn.users + 1, email |-> e, verified |-> verified]}

\* A reference to user u, in the step that may also create the user.
Referable(u) == ForeignKeys => \E w \in users' : w.id = u

\* CreateAccount: (providerId, accountId) is unique.
InsertAccount(u, identity, via, by) ==
  /\ drawn.accounts < MaxRows
  /\ Referable(u)
  /\ LET row == [id |-> drawn.accounts + 1, user |-> u, identity |-> identity, via |-> via,
                 by |-> by]
     IN  /\ ~\E a \in accounts : Same(a, row)
         /\ accounts' = accounts \cup {row}

\* The user of a session: the row, or a copy that a cookie has kept of it.
SessionUser(id) ==
  {u \in users : u.id = id} \cup
  (IF CookieCache /\ id \in 1 .. drawn.users
   THEN [id : {id}, email : Emails, verified : BOOLEAN] ELSE {})

-----------------------------------------------------------------------------
(* Users with a password, for the flow to meet *)

\* handleSignUpEmail: user and credential in one transaction.
SignUpEmail(e) ==
  /\ InsertUser(e, FALSE)
  /\ InsertAccount(drawn.users + 1, "credential", "signUp", "none")
  /\ drawn' = [drawn EXCEPT !.users = @ + 1, !.accounts = @ + 1]
  /\ UNCHANGED <<registered, states, pc, loc, History>>

\* performVerifyEmail redeems a link mailed to the address that the user has
\* when it reads the row.
VerifyEmail(r, u) ==
  /\ ~u.verified
  /\ Begin(r, "verify", [NoLocals EXCEPT !.user = u.id, !.email = u.email])
  /\ proved' = proved \cup {<<u.id, u.email>>}
  /\ UNCHANGED <<users, accounts, registered, states, drawn, signedIn, unlinked, bare, mistaken>>

\* Its UpdateUser names the user only, who may have moved since.
WriteVerified(r) ==
  /\ pc[r] = "verify"
  /\ \E u \in users :
       /\ u.id = loc[r].user
       /\ users' = (users \ {u}) \cup {[u EXCEPT !.verified = TRUE]}
       /\ mistaken' = mistaken \cup ({<<u.id, u.email>>} \ proved)
  /\ Return(r)
  /\ UNCHANGED <<accounts, registered, states, drawn, signedIn, unlinked, bare, proved>>

\* Mutant: the new address keeps the mark of the old one.
ChangeEmailKeepingMark(u, e) ==
  /\ ~EmailTaken(e) /\ drawn.moves < MaxMoves
  /\ users' = (users \ {u}) \cup {[u EXCEPT !.email = e]}
  /\ drawn' = [drawn EXCEPT !.moves = @ + 1]
  /\ UNCHANGED <<accounts, registered, states, pc, loc, History>>

\* handleChangeEmail of an unverified user, or an approved change: the one
\* write of either.  Whether it may be made is EmailFlows' matter.
ChangeEmail(u, e) ==
  /\ ~EmailTaken(e) /\ drawn.moves < MaxMoves
  /\ users' = (users \ {u}) \cup {[u EXCEPT !.email = e, !.verified = FALSE]}
  /\ drawn' = [drawn EXCEPT !.moves = @ + 1]
  /\ UNCHANGED <<accounts, registered, states, pc, loc, History>>

\* store.DeleteUser, of performDeleteUser and handleRemoveUser: one transaction.
DeleteUser(u) ==
  /\ users' = users \ {u}
  /\ accounts' = accounts \ AccountsOf(u.id)
  /\ unlinked' = unlinked \cup {a.identity : a \in AccountsOf(u.id)}
  /\ UNCHANGED <<registered, states, drawn, pc, loc, signedIn, bare, Proofs>>

\* The admin plugin's handleCreateUser: two calls, no transaction.  That the address
\* is free is asked before, and decided by the first.
AdminCreateUser(r, e) ==
  /\ InsertUser(e, TRUE)
  /\ drawn' = [drawn EXCEPT !.users = @ + 1]
  /\ Begin(r, "createCredential", [NoLocals EXCEPT !.user = drawn'.users])
  /\ bare' = bare \cup {drawn'.users}
  /\ proved' = proved \cup {<<drawn'.users, e>>}
  /\ UNCHANGED <<accounts, registered, states, signedIn, unlinked, mistaken>>

AdminInsertCredential(r) ==
  /\ pc[r] = "createCredential"
  /\ UNCHANGED <<users, registered, states, signedIn, unlinked, Proofs>>
  /\ InsertAccount(loc[r].user, "credential", "signUp", "none")
  /\ drawn' = [drawn EXCEPT !.accounts = @ + 1]
  /\ bare' = bare \ {loc[r].user}
  /\ Return(r)

-----------------------------------------------------------------------------
(* The SSO provider's row, and the start of a flow *)

\* RegisterProvider: the provider id is unique.
RegisterProvider ==
  /\ ~registered.live /\ registered.times < MaxRegistrations
  /\ registered' = [live |-> TRUE, times |-> registered.times + 1]
  /\ UNCHANGED <<users, accounts, states, drawn, pc, loc, History>>

DeleteProvider ==
  /\ registered.live
  /\ registered' = [registered EXCEPT !.live = FALSE]
  /\ UNCHANGED <<users, accounts, states, drawn, pc, loc, History>>

\* SocialProvider finds the provider's row.
SocialProvider == registered.live

\* startOAuthFlow and storeOAuthState: a token to be consumed once, bound to
\* this browser.
StartOAuthFlow(link) ==
  /\ drawn.states < MaxStates
  /\ drawn' = [drawn EXCEPT !.states = @ + 1]
  /\ states' = states \cup {[id |-> drawn'.states, link |-> link]}
  /\ UNCHANGED <<users, accounts, registered, pc, loc, History>>

\* handleSignInSocial without an ID token.
SignInSocial == SocialProvider /\ StartOAuthFlow(NoUser)

\* The SSO plugin's handleSignIn, by provider, domain or address.
SignInSSO == SocialProvider /\ StartOAuthFlow(NoUser)

\* handleLinkSocial, by the user of a session.
LinkSocial(id) == SocialProvider /\ SessionUser(id) # {} /\ StartOAuthFlow(id)

\* handleIDTokenNonce asks for no provider; the nonce is consumed by the native
\* flow like a state.
IDTokenNonce == StartOAuthFlow(NoUser)

-----------------------------------------------------------------------------
(* The callback *)

\* linkOAuthAccount's policy for user u and the profile's address e.
MayLink(u, e) ==
  IF LinkingDisabled THEN AccountsOf(u.id) = {}
  ELSE AllowDifferentEmails \/ e \in {"none", u.email}

\* resolveOAuthUser: the provider is trusted and both sides proved the address.
MayLinkByEmail(u, verified) ==
  verified /\ TrustedProvider /\ u.verified

\* What a callback does next with the profile: sign in when the identity has
\* its account, link it by address, or create a user.
Resolve(r, identity, e, verified) ==
  \/ \E a \in accounts :
       /\ a.identity = identity /\ \E u \in users : u.id = a.user
       /\ Begin(r, "signIn", [NoLocals EXCEPT !.user = a.user, !.identity = identity])
  \/ /\ \A a \in accounts : a.identity # identity
     /\ ~LinkingDisabled
     /\ \E u \in users :
          /\ u.email = e /\ MayLinkByEmail(u, verified) /\ MayLink(u, e)
          /\ Begin(r, "link", [NoLocals EXCEPT !.user = u.id, !.identity = identity,
                                               !.email = e, !.via = "email"])
  \/ /\ \A a \in accounts : a.identity # identity
     /\ LinkingDisabled \/ ~EmailTaken(e)
     /\ ~DisableSocialSignUp /\ e # "none"
     /\ Begin(r, "signUp", [NoLocals EXCEPT !.identity = identity, !.email = e,
                                            !.verified = verified])

\* handleOAuthCallback without a link, and handleSignInSocial with an ID token:
\* the state or nonce is consumed, the profile fetched and resolved.
Callback(r, s, identity, e, verified) ==
  /\ SocialProvider
  /\ s.link = NoUser
  /\ states' = states \ {s}
  /\ Resolve(r, identity, e, verified)
  /\ UNCHANGED <<users, accounts, registered, drawn, History>>

\* handleOAuthCallback of a flow that handleLinkSocial started, in a browser
\* still signed in as that user.
LinkCallback(r, s, identity) ==
  /\ SocialProvider
  /\ states' = states \ {s}
  /\ {e \in Emails \cup {"none"} : \E u \in SessionUser(s.link) : MayLink(u, e)} # {}
  /\ Begin(r, "link", [NoLocals EXCEPT !.user = s.link, !.via = "session",
                                       !.identity = identity])
  /\ UNCHANGED <<users, accounts, registered, drawn, History>>

\* A flow that ends early has consumed its state all the same.
RefusedCallback(s) ==
  /\ SocialProvider
  /\ states' = states \ {s}
  /\ UNCHANGED <<users, accounts, registered, drawn, pc, loc, History>>

\* The request signs user u in with the identity of the profile.
SignsIn(r, u) ==
  /\ pc' = [pc EXCEPT ![r] = "signIn"]
  /\ loc' = [loc EXCEPT ![r] = [NoLocals EXCEPT !.user = u, !.identity = loc[r].identity]]

\* After linking: an explicit link is done, a sign-in goes on.
Linked(r) ==
  IF loc[r].via = "session" THEN Return(r)
  ELSE SignsIn(r, loc[r].user)

LinkAccount(r) ==
  /\ pc[r] = "link"
  /\ UNCHANGED <<users, registered, states, signedIn, unlinked, Proofs>>
  /\ InsertAccount(loc[r].user, loc[r].identity, loc[r].via,
                   IF loc[r].via = "email" THEN loc[r].email ELSE "none")
  /\ drawn' = [drawn EXCEPT !.accounts = @ + 1]
  /\ bare' = bare \ {loc[r].user}
  /\ Linked(r)

\* Mutant: any conflict counts as already linked.
AlreadyLinkedAnyone(r) ==
  /\ pc[r] = "link"
  /\ \E a \in accounts : a.identity = loc[r].identity
  /\ Linked(r)
  /\ UNCHANGED <<users, accounts, registered, states, drawn, History>>

\* The unique constraint refused the row: linking to the same user is
\* idempotent, to another one an error (Abandon).
AlreadyLinked(r) ==
  /\ pc[r] = "link"
  /\ \E a \in accounts : a.identity = loc[r].identity /\ a.user = loc[r].user
  /\ Linked(r)
  /\ UNCHANGED <<users, accounts, registered, states, drawn, History>>

\* Mutant: the user row is committed without its account.
SignUpAloneFirst(r) ==
  /\ pc[r] = "signUp"
  /\ InsertUser(loc[r].email, loc[r].verified)
  /\ drawn' = [drawn EXCEPT !.users = @ + 1]
  /\ loc' = [loc EXCEPT ![r].user = drawn'.users, ![r].via = "signUp"]
  /\ pc' = [pc EXCEPT ![r] = "link"]
  /\ UNCHANGED <<accounts, registered, states, History>>

\* A new user: the user and its account in one transaction.  The provider's
\* word that the address is verified is taken.
SignUp(r) ==
  /\ pc[r] = "signUp"
  /\ InsertUser(loc[r].email, loc[r].verified)
  /\ InsertAccount(drawn.users + 1, loc[r].identity, "signUp", "none")
  /\ drawn' = [drawn EXCEPT !.users = @ + 1, !.accounts = @ + 1]
  /\ proved' = IF loc[r].verified THEN proved \cup {<<drawn'.users, loc[r].email>>} ELSE proved
  /\ SignsIn(r, drawn'.users)
  /\ UNCHANGED <<registered, states, signedIn, unlinked, bare, mistaken>>

\* SignInUser for the user found, linked or created: the session refers to it.
SignIn(r) ==
  /\ pc[r] = "signIn"
  /\ UNCHANGED <<users, accounts, registered, states, drawn, unlinked, bare, Proofs>>
  /\ Referable(loc[r].user)
  /\ signedIn' = signedIn \cup {<<loc[r].identity, loc[r].user>>}
  /\ Return(r)

-----------------------------------------------------------------------------
(* Unlinking *)

\* handleUnlinkAccount: not the last account, as counted here.
UnlinkAccount(r, a) ==
  /\ SessionUser(a.user) # {}
  /\ Cardinality(AccountsOf(a.user)) > 1 \/ AllowUnlinkingAll
  /\ Begin(r, "unlink", [NoLocals EXCEPT !.user = a.user, !.id = a.id])
  /\ UNCHANGED <<users, accounts, registered, states, drawn, History>>

\* DeleteAccount by row id.  Users for whom two unlinks run are noted.
DeleteAccount(r) ==
  LET overlapping == \E q \in Requests \ {r} : pc[q] = "unlink" /\ loc[q].user = loc[r].user IN
  /\ pc[r] = "unlink"
  /\ accounts' = {a \in accounts : a.id # loc[r].id}
  /\ unlinked' = unlinked \cup {a.identity : a \in accounts \ accounts'}
  /\ bare' = bare \cup (IF overlapping \/ AllowUnlinkingAll THEN {loc[r].user} ELSE {})
  /\ Return(r)
  /\ UNCHANGED <<users, registered, states, drawn, signedIn, Proofs>>

-----------------------------------------------------------------------------
\* A call fails, a constraint refuses a row, or the process dies.
Abandon(r) ==
  /\ pc[r] # "idle"
  /\ Return(r)
  /\ UNCHANGED <<users, accounts, registered, states, drawn, History>>

Serve(r) ==
  \/ WriteVerified(r)
  \/ AdminInsertCredential(r)
  \/ LinkAccount(r) \/ AlreadyLinked(r) \/ SignUp(r) \/ SignIn(r)
  \/ DeleteAccount(r) \/ Abandon(r)

Next ==
  \/ RegisterProvider \/ DeleteProvider
  \/ \E e \in Emails : SignUpEmail(e)
  \/ \E u \in users : DeleteUser(u) \/ \E e \in Emails : ChangeEmail(u, e)
  \/ SignInSocial \/ SignInSSO \/ IDTokenNonce
  \/ \E id \in UserId : LinkSocial(id)
  \/ \E s \in states : RefusedCallback(s)
  \/ \E r \in Requests :
       \/ Serve(r)
       \/ \E u \in users : VerifyEmail(r, u)
       \/ \E e \in Emails : AdminCreateUser(r, e)
       \/ \E a \in accounts : UnlinkAccount(r, a)
       \/ \E s \in states, i \in Identities :
            \/ \E e \in Emails \cup {"none"}, verified \in BOOLEAN : Callback(r, s, i, e, verified)
            \/ LinkCallback(r, s, i)

Spec == Init /\ [][Next]_vars

-----------------------------------------------------------------------------
(* Properties *)

\* "Exactly one row can ever exist for an external identity": whatever
\* callbacks, explicit links and sign-ups race, an identity signs in to one
\* user only, unless its account was unlinked and linked anew.
IdentityHasOneUser ==
  \A s, t \in signedIn : s[1] = t[1] /\ s[1] \notin unlinked => s = t

\* "The local account must have proven the address too": an identity that
\* came to a user by an address is on a user who was shown to own that very
\* address (by a link mailed there, or on the word of the provider or the
\* administrator that created the user), however users move, verify, leave
\* and make room for others while callbacks are under way.  Excepted is an
\* address that a move put under a verification being written.
LinkedByProvenAddress ==
  \A a \in accounts : a.via = "email" => <<a.user, a.by>> \in proved \cup mistaken

\* "A failure after the first leaves an address taken by a user with no way
\* in": no user is left without an account, except one that an administrator
\* created and whose password was not written, or whose last two accounts were
\* unlinked at the same time.
EveryUserHasAWayIn ==
  \A u \in users : AccountsOf(u.id) = {} => u.id \in bare
=============================================================================
