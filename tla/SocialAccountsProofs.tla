------------------------ MODULE SocialAccountsProofs ------------------------
(***************************************************************************)
(* Proofs about SocialAccounts, for any number of requests, identities,    *)
(* addresses and rows and any account-linking options: type correctness,   *)
(* IdentityHasOneUser, LinkedByProvenAddress and EveryUserHasAWayIn.       *)
(***************************************************************************)
EXTENDS SocialAccounts, FiniteSetTheorems, TLAPS

\* Rows carry the ids drawn for their table.
Inv_Ids ==
  /\ \A u \in users : u.id <= drawn.users
  /\ \A a \in accounts : a.id <= drawn.accounts /\ a.user <= drawn.users
  /\ \A s \in states : s.link <= drawn.users
  /\ IsFiniteSet(accounts)

\* A user drawn once; it may be gone.
Known(id) == id \in UserId /\ id <= drawn.users
HasUser(id) == \E u \in users : u.id = id
\* The pairs that may count as proven.
Vouched(id, e) == <<id, e>> \in proved \cup mistaken
HasAccount(identity, id) == \E a \in accounts : a.identity = identity /\ a.user = id

\* What a request has read still supports the write it is about to make: the
\* address is vouched for if that is why the identity is linked; the
\* identity that signs in is that user's, or was unlinked meanwhile; the
\* account to delete is that user's and is not the only one, or the user is
\* noted as bare or gone.
Supported(r) ==
  /\ pc[r] = "createCredential" => Known(loc[r].user)
  /\ pc[r] = "link" =>
       /\ loc[r].identity \in Identities /\ loc[r].via \in {"session", "email"}
       /\ Known(loc[r].user)
       /\ loc[r].via = "email" => Vouched(loc[r].user, loc[r].email)
  /\ pc[r] = "signUp" => loc[r].identity \in Identities /\ loc[r].email \in Emails
  /\ pc[r] = "signIn" =>
       /\ loc[r].identity \in Identities /\ loc[r].user \in UserId
       /\ loc[r].identity \in unlinked \/ HasAccount(loc[r].identity, loc[r].user)
  /\ pc[r] = "unlink" =>
       /\ loc[r].id <= drawn.accounts /\ Known(loc[r].user)
       /\ \A a \in accounts : a.id = loc[r].id => a.user = loc[r].user
       /\ \/ AllowUnlinkingAll \/ loc[r].user \in bare \/ ~HasUser(loc[r].user)
          \/ \E a \in accounts : a.user = loc[r].user /\ a.id # loc[r].id

Inv_Requests == \A r \in Requests : Supported(r)

\* An identity that signed in still has the account it signed in with, unless
\* it was unlinked.
Inv_SignedIn == \A s \in signedIn : s[1] \in unlinked \/ HasAccount(s[1], s[2])

\* An address marked verified is vouched for.
Inv_Marks == \A u \in users : u.verified => Vouched(u.id, u.email)

\* The inductive invariant.
IInv ==
  /\ TypeOK
  /\ Inv_Ids
  /\ Inv_Requests
  /\ Inv_SignedIn
  /\ Inv_Marks
  /\ LinkedByProvenAddress
  /\ EveryUserHasAWayIn

\* What the assumption says of each constant.
LEMMA Constants ==
  /\ "credential" \notin Identities
  /\ AllowUnlinkingAll \in BOOLEAN /\ ForeignKeys \in BOOLEAN
  /\ MaxUsers \in Nat /\ MaxRows \in Nat /\ MaxStates \in Nat /\ MaxRegistrations \in Nat
  /\ MaxMoves \in Nat
BY SocialAccountsAssumption DEF SocialAccountsAssumption

LEMMA NoLocalsType == NoLocals \in Locals
BY Constants DEF NoLocals, Locals

\* Request r goes on at label with these locals, the others stay.
Moves(r, label, locals) ==
  pc' = [pc EXCEPT ![r] = label] /\ loc' = [loc EXCEPT ![r] = locals]

LEMMA MovesType ==
  ASSUME NEW r \in Requests, NEW label \in PCs, NEW locals \in Locals,
         pc \in [Requests -> PCs], loc \in [Requests -> Locals], Moves(r, label, locals)
  PROVE  /\ pc' \in [Requests -> PCs] /\ loc' \in [Requests -> Locals]
         /\ pc'[r] = label /\ loc'[r] = locals
         /\ \A q \in Requests \ {r} : pc'[q] = pc[q] /\ loc'[q] = loc[q]
<1> HIDE DEF Locals
<1> QED
  BY DEF Moves

\* What drawn counts.
Counts == [users : 0 .. MaxUsers, accounts : 0 .. MaxRows, states : 0 .. MaxStates,
           moves : 0 .. MaxMoves]

\* The rows of a table that the invariant speaks of.
User == [id : UserId, email : Emails, verified : BOOLEAN]

UsersOK(table, last) ==
  /\ table \subseteq User
  /\ \A a, b \in table : a.id = b.id \/ a.email = b.email => a = b
  /\ \A u \in table : u.id <= last

AccountsOK(table, last) ==
  /\ table \subseteq Account /\ IsFiniteSet(table)
  /\ \A a, b \in table : a.id = b.id \/ Same(a, b) => a = b
  /\ \A a \in table : a.id <= last

LEMMA Rows ==
  ASSUME IInv
  PROVE  /\ UsersOK(users, drawn.users) /\ AccountsOK(accounts, drawn.accounts)
         /\ drawn.users \in 0 .. MaxUsers /\ drawn.accounts \in 0 .. MaxRows
         /\ \A a \in accounts : Known(a.user)
BY DEF IInv, TypeOK, Inv_Ids, UsersOK, AccountsOK, User, Known, Account

\* CreateUser adds one row with the next id.
LEMMA InsertUserOK ==
  ASSUME IInv, NEW e \in Emails, NEW verified \in BOOLEAN, InsertUser(e, verified)
  PROVE  LET new == [id |-> drawn.users + 1, email |-> e, verified |-> verified] IN
         /\ users' = users \cup {new} /\ new.id \in UserId
         /\ UsersOK(users', new.id)
         /\ \A id \in UserId : id <= drawn.users => id # new.id /\ (HasUser(id)' => HasUser(id))
<1> DEFINE new == [id |-> drawn.users + 1, email |-> e, verified |-> verified]
<1>1. drawn.users + 1 \in UserId /\ drawn.users \in Nat /\ \A u \in users : u.id \in Nat /\ u.id <= drawn.users
  BY Rows, Constants DEF InsertUser, UserId, UsersOK, User
<1>2. new \in User /\ new.id = drawn.users + 1 /\ new.email = e
  BY <1>1 DEF User
<1>3. users' = users \cup {new} /\ \A u \in users : u.email # e
  BY DEF InsertUser, EmailTaken
<1>4. \A id \in UserId : id <= drawn.users => id # new.id /\ (HasUser(id)' => HasUser(id))
  BY <1>1, <1>2, <1>3 DEF UserId, HasUser
<1> HIDE DEF new
<1>5. UsersOK(users', new.id)
  BY <1>1, <1>2, <1>3, Rows DEF UsersOK
<1> QED
  BY <1>1, <1>2, <1>3, <1>4, <1>5 DEF new

\* CreateAccount adds one row with the next id.
LEMMA InsertAccountOK ==
  ASSUME IInv, NEW u \in UserId, NEW identity \in Identities \cup {"credential"},
         NEW via \in {"signUp", "session", "email"}, NEW by \in Emails \cup {"none"},
         InsertAccount(u, identity, via, by)
  PROVE  LET new == [id |-> drawn.accounts + 1, user |-> u, identity |-> identity, via |-> via,
                     by |-> by] IN
         /\ accounts' = accounts \cup {new} /\ new.id \in 1 .. MaxRows
         /\ ForeignKeys => \E w \in users' : w.id = u
         /\ AccountsOK(accounts', new.id)
         /\ \A a \in accounts : a.id < new.id
<1> DEFINE new == [id |-> drawn.accounts + 1, user |-> u, identity |-> identity, via |-> via,
                   by |-> by]
<1>1. /\ drawn.accounts + 1 \in 1 .. MaxRows /\ drawn.accounts \in Nat
      /\ \A a \in accounts : a.id \in Nat /\ a.id <= drawn.accounts
  BY Rows, Constants DEF InsertAccount, AccountsOK, Account
<1>2. new \in Account /\ new.id = drawn.accounts + 1
  BY <1>1 DEF Account
<1>3. /\ accounts' = accounts \cup {new} /\ \A a \in accounts : ~Same(a, new)
      /\ ForeignKeys => \E w \in users' : w.id = u
  BY DEF InsertAccount, Referable, HasUser
<1> HIDE DEF new
<1>4. \A a \in accounts : ~Same(new, a)
  BY <1>3 DEF Same
<1>5. IsFiniteSet(accounts')
  BY <1>3, Rows, FS_AddElement DEF AccountsOK
<1>6. \A a, b \in accounts' : a.id = b.id \/ Same(a, b) => a = b
  BY <1>1, <1>2, <1>3, <1>4, Rows DEF AccountsOK
<1>7. AccountsOK(accounts', new.id)
  BY <1>1, <1>2, <1>3, <1>5, <1>6, Rows DEF AccountsOK
<1> QED
  BY <1>1, <1>2, <1>3, <1>7 DEF new

\* What another request has read survives new rows, better proofs and more
\* unlinked identities, as long as no user comes back and a user ceases to be
\* bare only with a new account.
LEMMA SupportKept ==
  ASSUME IInv, NEW q \in Requests, pc'[q] = pc[q], loc'[q] = loc[q],
         \A id \in UserId : id <= drawn.users => (HasUser(id)' => HasUser(id)),
         accounts \subseteq accounts',
         \A a \in accounts' \ accounts : a.id \in Nat /\ a.id > drawn.accounts,
         drawn'.accounts \in Nat, drawn.accounts <= drawn'.accounts,
         drawn'.users \in Nat, drawn.users <= drawn'.users,
         unlinked \subseteq unlinked', proved \cup mistaken \subseteq (proved \cup mistaken)',
         \A x \in bare \ bare' : \E a \in accounts' \ accounts : a.user = x
  PROVE  Supported(q)'
<1>1. Supported(q) /\ loc[q] \in Locals /\ drawn.accounts \in Nat /\ drawn.users \in Nat
      /\ loc[q].id \in Nat
  BY Rows DEF IInv, Inv_Requests, TypeOK, Locals
<1>2. \A id : Known(id) => Known(id)' /\ (HasUser(id)' => HasUser(id))
  BY <1>1 DEF Known, UserId
<1>3. \A i, id : /\ HasAccount(i, id) => HasAccount(i, id)'
                 /\ Vouched(id, i) => Vouched(id, i)'
  BY DEF HasAccount, Vouched
<1>4. ASSUME pc[q] = "unlink"
      PROVE  /\ \A a \in accounts' : a.id = loc[q].id => a.user = loc[q].user
             /\ \/ AllowUnlinkingAll \/ loc[q].user \in bare' \/ ~HasUser(loc[q].user)'
                \/ \E a \in accounts' : a.user = loc[q].user /\ a.id # loc[q].id
  <2>1. /\ Known(loc[q].user) /\ loc[q].id <= drawn.accounts
        /\ \A a \in accounts : a.id = loc[q].id => a.user = loc[q].user
        /\ \/ AllowUnlinkingAll \/ loc[q].user \in bare \/ ~HasUser(loc[q].user)
           \/ \E a \in accounts : a.user = loc[q].user /\ a.id # loc[q].id
    BY <1>1, <1>4 DEF Supported
  <2>2. \A a \in accounts' : a.id = loc[q].id => a \in accounts
    BY <1>1, <2>1
  <2>3. loc[q].user \in bare => loc[q].user \in bare'
          \/ \E a \in accounts' : a.user = loc[q].user /\ a.id # loc[q].id
    BY <1>1, <2>1
  <2> QED
    BY <1>2, <2>1, <2>2, <2>3
<1>5. loc[q].id <= drawn.accounts => loc[q].id <= drawn'.accounts
  BY <1>1
<1> QED
  BY <1>1, <1>2, <1>3, <1>4, <1>5 DEF Supported

\* A step that only reads: it may draw or consume a state, change the
\* provider's row, or move a request.
LEMMA ReadStep ==
  ASSUME IInv, UNCHANGED <<users, accounts, History>>,
         drawn'.users = drawn.users, drawn'.accounts = drawn.accounts,
         \A s \in states' : s.link <= drawn.users, TypeOK', Inv_Requests'
  PROVE  IInv'
BY DEF IInv, Inv_Ids, Inv_SignedIn, Inv_Marks, Vouched, HasAccount, History, Proofs,
   LinkedByProvenAddress, EveryUserHasAWayIn, AccountsOf

LEMMA RequestStep ==
  ASSUME IInv, NEW r \in Requests, NEW label \in PCs, NEW locals \in Locals,
         Moves(r, label, locals), Supported(r)',
         UNCHANGED <<users, accounts, registered, drawn, History>>, states' \subseteq states
  PROVE  IInv'
<1>1. /\ pc' \in [Requests -> PCs] /\ loc' \in [Requests -> Locals]
      /\ \A q \in Requests \ {r} : pc'[q] = pc[q] /\ loc'[q] = loc[q]
  BY MovesType DEF IInv, TypeOK
<1>2. TypeOK'
  BY <1>1 DEF IInv, TypeOK, History, Proofs
<1>3. ASSUME NEW q \in Requests, q # r PROVE Supported(q)'
  BY <1>1, <1>3 DEF IInv, Inv_Requests, Supported, Known, HasUser, Vouched, HasAccount, History,
     Proofs
<1>4. \A s \in states' : s.link <= drawn.users
  BY DEF IInv, Inv_Ids
<1> QED
  BY <1>2, <1>3, <1>4, ReadStep DEF Inv_Requests

\* Initially every table is empty.
LEMMA InitInv == Init => IInv
<1> SUFFICES ASSUME Init PROVE IInv
  OBVIOUS
<1>1. TypeOK
  BY NoLocalsType, Constants DEF Init, TypeOK, PCs
<1>2. Inv_Ids
  BY FS_EmptySet DEF Init, Inv_Ids
<1>3. Inv_Requests
  BY DEF Init, Inv_Requests, Supported
<1>4. Inv_SignedIn /\ Inv_Marks /\ LinkedByProvenAddress /\ EveryUserHasAWayIn
  BY DEF Init, Inv_SignedIn, Inv_Marks, LinkedByProvenAddress, EveryUserHasAWayIn
<1> QED
  BY <1>1, <1>2, <1>3, <1>4 DEF IInv

-----------------------------------------------------------------------------
(* Steps of no request *)

\* The provider's row, the start of a flow and a refused callback.
LEMMA FlowInv ==
  ASSUME IInv, UNCHANGED <<users, accounts, pc, loc, History>>,
         drawn'.users = drawn.users, drawn'.accounts = drawn.accounts,
         registered' \in [live : BOOLEAN, times : 0 .. MaxRegistrations],
         states' \subseteq State, \A s \in states' : s.link <= drawn.users,
         drawn' \in Counts
  PROVE  IInv'
<1>1. TypeOK'
  BY DEF IInv, TypeOK, History, Proofs, Counts
<1>2. Inv_Requests'
  BY DEF IInv, Inv_Requests, Supported, Known, HasUser, Vouched, HasAccount, History, Proofs
<1> QED
  BY <1>1, <1>2, ReadStep

LEMMA StartOAuthFlowInv ==
  ASSUME IInv, NEW link \in UserId \cup {NoUser}, link <= drawn.users, StartOAuthFlow(link)
  PROVE  IInv'
<1>1. /\ drawn \in Counts
      /\ drawn' = [drawn EXCEPT !.states = @ + 1] /\ drawn.states < MaxStates
  BY DEF IInv, TypeOK, StartOAuthFlow, Counts
<1>2. drawn' \in Counts
      /\ drawn'.users = drawn.users /\ drawn'.accounts = drawn.accounts /\ drawn'.states \in 1 .. MaxStates
  BY <1>1, Constants DEF Counts
<1>3. states' \subseteq State /\ \A s \in states' : s.link <= drawn.users
  BY <1>2 DEF StartOAuthFlow, State, IInv, TypeOK, Inv_Ids
<1> QED
  BY <1>2, <1>3, FlowInv DEF StartOAuthFlow, IInv, TypeOK

\* Whoever has a session was drawn once.
LEMMA SessionUserKnown ==
  ASSUME IInv, NEW id, SessionUser(id) # {}
  PROVE  Known(id)
<1>1. CASE \E u \in users : u.id = id
  BY <1>1, Rows DEF UsersOK, User, Known
<1>2. CASE CookieCache /\ id \in 1 .. drawn.users
  BY <1>2, Rows, Constants DEF Known, UserId
<1> QED
  BY <1>1, <1>2 DEF SessionUser

LEMMA LinkSocialInv ==
  ASSUME IInv, NEW id \in UserId, LinkSocial(id)
  PROVE  IInv'
<1>1. Known(id)
  BY SessionUserKnown DEF LinkSocial
<1> QED
  BY <1>1, StartOAuthFlowInv DEF LinkSocial, Known

LEMMA ProviderInv ==
  ASSUME IInv, RegisterProvider \/ DeleteProvider
  PROVE  IInv'
<1>0. registered \in [live : BOOLEAN, times : 0 .. MaxRegistrations]
  BY DEF IInv, TypeOK
<1>1. registered' \in [live : BOOLEAN, times : 0 .. MaxRegistrations]
  <2>1. CASE RegisterProvider
    <3>1. registered.times + 1 \in 0 .. MaxRegistrations
      BY <1>0, <2>1, Constants DEF RegisterProvider
    <3> QED
      BY <2>1, <3>1 DEF RegisterProvider
  <2>2. CASE DeleteProvider
    BY <1>0, <2>2 DEF DeleteProvider
  <2> QED
    BY <2>1, <2>2
<1>2. states' = states /\ drawn' = drawn /\ drawn \in Counts /\ states \subseteq State
      /\ \A s \in states : s.link <= drawn.users
  BY DEF RegisterProvider, DeleteProvider, IInv, TypeOK, Inv_Ids, Counts
<1> QED
  BY <1>1, <1>2, FlowInv DEF RegisterProvider, DeleteProvider

\* User and credential come in one transaction, so the user is not bare.
LEMMA SignUpEmailInv ==
  ASSUME IInv, NEW e \in Emails, SignUpEmail(e)
  PROVE  IInv'
<1> DEFINE user == [id |-> drawn.users + 1, email |-> e, verified |-> FALSE]
           account == [id |-> drawn.accounts + 1, user |-> user.id, identity |-> "credential",
                       via |-> "signUp", by |-> "none"]
<1>1. /\ users' = users \cup {user} /\ user.id \in UserId /\ UsersOK(users', user.id)
      /\ \A id \in UserId : id <= drawn.users => id # user.id /\ (HasUser(id)' => HasUser(id))
  BY InsertUserOK DEF SignUpEmail
<1>2. /\ accounts' = accounts \cup {account} /\ account.id \in 1 .. MaxRows
      /\ ForeignKeys => \E w \in users' : w.id = user.id
      /\ AccountsOK(accounts', account.id) /\ \A a \in accounts : a.id < account.id
  BY <1>1, InsertAccountOK DEF SignUpEmail
<1>3. /\ drawn'.users = user.id /\ drawn'.accounts = account.id
      /\ drawn' \in Counts
      /\ UNCHANGED <<registered, states, pc, loc, signedIn, unlinked, bare, proved, mistaken>>
  <2>1. drawn' = [drawn EXCEPT !.users = user.id, !.accounts = account.id]
    BY DEF SignUpEmail, IInv, TypeOK
  <2>2. user.id \in 0 .. MaxUsers /\ account.id \in 0 .. MaxRows
    BY <1>1, <1>2, Constants DEF UserId
  <2>3. UNCHANGED <<registered, states, pc, loc, signedIn, unlinked, bare, proved, mistaken>>
    BY DEF SignUpEmail, History, Proofs
  <2> HIDE DEF user, account
  <2> QED
    BY <2>1, <2>2, <2>3 DEF IInv, TypeOK, Counts
<1>4. /\ account.user = user.id /\ account.via = "signUp" /\ account.id = drawn.accounts + 1
      /\ user.id = drawn.users + 1 /\ user.verified = FALSE /\ drawn.users \in Nat
  BY Rows
<1> HIDE DEF user, account
<1>5. TypeOK'
  BY <1>1, <1>2, <1>3, <1>4 DEF IInv, TypeOK, UsersOK, AccountsOK, User, HasUser, Counts
<1>6. Inv_Ids'
  <2>1. /\ \A u \in users : u.id <= drawn.users
        /\ \A a \in accounts : a.id <= drawn.accounts /\ a.user \in Nat /\ a.user <= drawn.users
        /\ \A s \in states : s.link \in Nat /\ s.link <= drawn.users
        /\ IsFiniteSet(accounts)
    BY Rows DEF IInv, Inv_Ids, TypeOK, State, NoUser, UserId, Known
  <2>2. \A a \in accounts : a.user <= user.id
    BY <1>4, <2>1
  <2>3. \A s \in states : s.link <= user.id
    BY <1>4, <2>1
  <2> QED
    BY <1>1, <1>2, <1>3, <1>4, <2>1, <2>2, <2>3 DEF Inv_Ids, UsersOK, AccountsOK
<1>7. Inv_Requests'
  BY <1>1, <1>2, <1>3, <1>4, SupportKept, Rows, Constants DEF Inv_Requests, UserId
<1>8. Inv_SignedIn' /\ Inv_Marks'
  BY <1>1, <1>2, <1>3, <1>4 DEF IInv, Inv_SignedIn, HasAccount, Inv_Marks, Vouched
<1>9. LinkedByProvenAddress'
  BY <1>2, <1>3, <1>4 DEF IInv, LinkedByProvenAddress
<1>10. EveryUserHasAWayIn'
  BY <1>1, <1>2, <1>3, <1>4 DEF IInv, EveryUserHasAWayIn, AccountsOf
<1> QED
  BY <1>5, <1>6, <1>7, <1>8, <1>9, <1>10 DEF IInv

\* A write to one row of the user table: the id stays, the address is free.
EditsUser(u, new) ==
  /\ u \in users /\ new \in User /\ new.id = u.id
  /\ \A w \in users : w.email = new.email => w = u
  /\ users' = (users \ {u}) \cup {new}
  /\ drawn' \in Counts /\ drawn'.users = drawn.users /\ drawn'.accounts = drawn.accounts
  /\ UNCHANGED <<accounts, registered, states, signedIn, unlinked, bare, proved>>

LEMMA EditStep ==
  ASSUME IInv, NEW u, NEW new, EditsUser(u, new),
         mistaken \subseteq mistaken', mistaken' \subseteq UserId \X Emails,
         new.verified => Vouched(new.id, new.email)',
         pc' \in [Requests -> PCs], loc' \in [Requests -> Locals],
         \A q \in Requests : Supported(q)' \/ (pc'[q] = pc[q] /\ loc'[q] = loc[q])
  PROVE  IInv'
<1>1. UsersOK(users', drawn.users) /\ \A id : HasUser(id)' <=> HasUser(id)
  BY Rows DEF EditsUser, UsersOK, HasUser
<1>2. TypeOK'
  BY <1>1 DEF EditsUser, IInv, TypeOK, UsersOK, User, HasUser, Counts
<1>3. Inv_Ids'
  BY <1>1 DEF EditsUser, IInv, Inv_Ids, UsersOK
<1>4. Inv_Requests'
  <2> SUFFICES ASSUME NEW q \in Requests, pc'[q] = pc[q], loc'[q] = loc[q] PROVE Supported(q)'
    BY DEF Inv_Requests
  <2> QED
    BY <1>1, SupportKept, Rows DEF EditsUser
<1>5. Inv_Marks'
  BY DEF EditsUser, IInv, Inv_Marks, Vouched
<1>6. Inv_SignedIn' /\ LinkedByProvenAddress'
  BY DEF EditsUser, IInv, Inv_SignedIn, HasAccount, LinkedByProvenAddress
<1>7. EveryUserHasAWayIn'
  BY DEF EditsUser, IInv, EveryUserHasAWayIn, AccountsOf
<1> QED
  BY <1>2, <1>3, <1>4, <1>5, <1>6, <1>7 DEF IInv

\* A move takes the mark away.
LEMMA ChangeEmailInv ==
  ASSUME IInv, NEW u \in users, NEW e \in Emails, ChangeEmail(u, e)
  PROVE  IInv'
<1> DEFINE new == [u EXCEPT !.email = e, !.verified = FALSE]
<1>1. u \in User
  BY Rows DEF UsersOK
<1>2. new \in User /\ new.id = u.id /\ new.email = e /\ new.verified = FALSE
  BY <1>1 DEF User
<1>3. drawn' = [drawn EXCEPT !.moves = @ + 1] /\ drawn.moves < MaxMoves /\ drawn \in Counts
  BY DEF ChangeEmail, IInv, TypeOK, Counts
<1>4. drawn' \in Counts /\ drawn'.users = drawn.users /\ drawn'.accounts = drawn.accounts
  BY <1>3, Constants DEF Counts
<1>5. /\ users' = (users \ {u}) \cup {new} /\ \A w \in users : w.email # e
      /\ UNCHANGED <<accounts, registered, states, pc, loc, History>>
  BY DEF ChangeEmail, EmailTaken
<1> HIDE DEF new
<1>6. EditsUser(u, new) /\ mistaken' = mistaken
  BY <1>2, <1>4, <1>5 DEF EditsUser, History, Proofs
<1> QED
  BY <1>2, <1>5, <1>6, EditStep DEF IInv, TypeOK

\* A deleted user takes its accounts along; requests that read them write on.
LEMMA DeleteUserInv ==
  ASSUME IInv, NEW u \in users, DeleteUser(u)
  PROVE  IInv'
<1>1. /\ users' = users \ {u}
      /\ accounts' = {a \in accounts : a.user # u.id}
      /\ unlinked' = unlinked \cup {a.identity : a \in accounts \ accounts'}
      /\ UNCHANGED <<registered, states, drawn, pc, loc, signedIn, bare, proved, mistaken>>
  BY DEF DeleteUser, AccountsOf, Proofs
<1>2. unlinked' \subseteq Identities \cup {"credential"}
  BY <1>1 DEF IInv, TypeOK, Account
<1>3. ForeignKeys => \A a \in accounts' : \E w \in users' : w.id = a.user
  BY <1>1 DEF IInv, TypeOK
<1>4. TypeOK'
  BY <1>1, <1>2, <1>3 DEF IInv, TypeOK
<1>5. Inv_Ids'
  BY <1>1, FS_Subset DEF IInv, Inv_Ids
<1>6. \A i, id : HasAccount(i, id) => i \in unlinked' \/ HasAccount(i, id)'
  BY <1>1 DEF HasAccount
<1>7. Inv_Requests'
  <2> SUFFICES ASSUME NEW q \in Requests PROVE Supported(q)'
    BY DEF Inv_Requests
  <2>1. Supported(q) /\ pc'[q] = pc[q] /\ loc'[q] = loc[q]
    BY <1>1 DEF IInv, Inv_Requests
  <2>2. \A i, id : (Known(id) => Known(id)') /\ (Vouched(id, i) => Vouched(id, i)')
                   /\ (HasUser(id)' => HasUser(id))
    BY <1>1 DEF Known, Vouched, HasUser
  <2>3. CASE pc[q] = "unlink"
    <3>1. loc[q].user = u.id => ~HasUser(loc[q].user)'
      BY <1>1, Rows DEF HasUser, UsersOK
    <3>2. loc[q].user # u.id => \A a \in accounts : a.user = loc[q].user => a \in accounts'
      BY <1>1
    <3> QED
      BY <1>1, <2>1, <2>2, <2>3, <3>1, <3>2 DEF Supported
  <2>4. CASE pc[q] # "unlink"
    BY <1>1, <1>6, <2>1, <2>2, <2>4 DEF Supported
  <2> QED
    BY <2>3, <2>4
<1>8. Inv_SignedIn'
  BY <1>1, <1>6 DEF IInv, Inv_SignedIn
<1>9. Inv_Marks' /\ LinkedByProvenAddress'
  BY <1>1 DEF IInv, Inv_Marks, Vouched, LinkedByProvenAddress
<1>10. EveryUserHasAWayIn'
  <2> SUFFICES ASSUME NEW x \in users', AccountsOf(x.id)' = {} PROVE x.id \in bare'
    BY DEF EveryUserHasAWayIn
  <2>1. x \in users /\ x.id # u.id
    BY <1>1, Rows DEF UsersOK
  <2>2. AccountsOf(x.id) = {}
    BY <1>1, <2>1 DEF AccountsOf
  <2> QED
    BY <1>1, <2>1, <2>2 DEF IInv, EveryUserHasAWayIn
<1> QED
  BY <1>4, <1>5, <1>7, <1>8, <1>9, <1>10 DEF IInv

-----------------------------------------------------------------------------
(* Steps of a request *)

\* A link redeemed proves the address that the user has when it is read.
LEMMA VerifyEmailInv ==
  ASSUME IInv, NEW r \in Requests, NEW u \in users, VerifyEmail(r, u)
  PROVE  IInv'
<1> DEFINE locals == [NoLocals EXCEPT !.user = u.id, !.email = u.email]
<1>1. u.id \in UserId /\ u.email \in Emails
  BY Rows DEF UsersOK, User
<1>2. locals \in Locals
  BY <1>1, NoLocalsType DEF Locals, NoLocals
<1>3. /\ Moves(r, "verify", locals) /\ "verify" \in PCs
      /\ proved' = proved \cup {<<u.id, u.email>>}
      /\ UNCHANGED <<users, accounts, registered, states, drawn, signedIn, unlinked, bare, mistaken>>
  BY DEF VerifyEmail, Begin, Moves, PCs
<1> HIDE DEF locals
<1>4. /\ pc' \in [Requests -> PCs] /\ loc' \in [Requests -> Locals] /\ pc'[r] = "verify"
      /\ \A q \in Requests \ {r} : pc'[q] = pc[q] /\ loc'[q] = loc[q]
  BY <1>2, <1>3, MovesType DEF IInv, TypeOK
<1>5. TypeOK'
  BY <1>1, <1>3, <1>4 DEF IInv, TypeOK
<1>6. Inv_Requests'
  <2>1. Supported(r)'
    BY <1>4 DEF Supported
  <2>2. \A q \in Requests \ {r} : Supported(q)'
    BY <1>3, <1>4 DEF IInv, Inv_Requests, Supported, Known, HasUser, Vouched, HasAccount
  <2> QED
    BY <2>1, <2>2 DEF Inv_Requests
<1>7. Inv_Ids' /\ Inv_SignedIn' /\ EveryUserHasAWayIn'
  BY <1>3 DEF IInv, Inv_Ids, Inv_SignedIn, HasAccount, EveryUserHasAWayIn, AccountsOf
<1>8. Inv_Marks' /\ LinkedByProvenAddress'
  BY <1>3 DEF IInv, Inv_Marks, Vouched, LinkedByProvenAddress
<1> QED
  BY <1>5, <1>6, <1>7, <1>8 DEF IInv

\* The mark is written on whatever address the user has by now, which is
\* noted as mistaken unless it was proved.
LEMMA WriteVerifiedInv ==
  ASSUME IInv, NEW r \in Requests, WriteVerified(r)
  PROVE  IInv'
<1>1. PICK u \in users :
        /\ users' = (users \ {u}) \cup {[u EXCEPT !.verified = TRUE]}
        /\ mistaken' = mistaken \cup ({<<u.id, u.email>>} \ proved)
  BY DEF WriteVerified
<1> DEFINE new == [u EXCEPT !.verified = TRUE]
<1>2. u \in User /\ new \in User /\ new.id = u.id /\ new.email = u.email
  BY Rows DEF UsersOK, User
<1>3. /\ Moves(r, "idle", NoLocals) /\ "idle" \in PCs
      /\ UNCHANGED <<accounts, registered, states, drawn, signedIn, unlinked, bare, proved>>
  BY DEF WriteVerified, Return, Moves, PCs
<1>4. users' = (users \ {u}) \cup {new}
  BY <1>1
<1> HIDE DEF new
<1>5. EditsUser(u, new)
  BY <1>2, <1>3, <1>4, Rows DEF EditsUser, UsersOK, IInv, TypeOK, Counts
<1>6. Vouched(new.id, new.email)'
  BY <1>1, <1>2, <1>3 DEF Vouched
<1>7. mistaken \subseteq mistaken' /\ mistaken' \subseteq UserId \X Emails
  BY <1>1, <1>2 DEF IInv, TypeOK, User
<1>8. /\ pc' \in [Requests -> PCs] /\ loc' \in [Requests -> Locals] /\ pc'[r] = "idle"
      /\ \A q \in Requests \ {r} : pc'[q] = pc[q] /\ loc'[q] = loc[q]
  BY <1>3, NoLocalsType, MovesType DEF IInv, TypeOK
<1>9. \A q \in Requests : Supported(q)' \/ (pc'[q] = pc[q] /\ loc'[q] = loc[q])
  BY <1>8 DEF Supported
<1> QED
  BY <1>5, <1>6, <1>7, <1>8, <1>9, EditStep

\* The heads of the requests read what their writes rely on.
LEMMA CallbackInv ==
  ASSUME IInv, NEW r \in Requests, NEW s \in states, NEW i \in Identities,
         NEW e \in Emails \cup {"none"}, NEW verified \in BOOLEAN, Callback(r, s, i, e, verified)
  PROVE  IInv'
<1>1. /\ Resolve(r, i, e, verified)
      /\ UNCHANGED <<users, accounts, registered, drawn, History>> /\ states' \subseteq states
  BY DEF Callback
<1>2. ASSUME NEW a \in accounts, a.identity = i,
             Begin(r, "signIn", [NoLocals EXCEPT !.user = a.user, !.identity = i])
      PROVE  IInv'
  <2> DEFINE locals == [NoLocals EXCEPT !.user = a.user, !.identity = i]
  <2>1. a.user \in UserId
    BY Rows DEF Known
  <2>2. locals \in Locals /\ locals.user = a.user /\ locals.identity = i
    BY <2>1, NoLocalsType DEF Locals, NoLocals
  <2>3. Moves(r, "signIn", locals) /\ "signIn" \in PCs
    BY <1>2 DEF Begin, Moves, PCs
  <2> HIDE DEF locals
  <2>4. pc'[r] = "signIn" /\ loc'[r] = locals
    BY <2>2, <2>3, MovesType DEF IInv, TypeOK
  <2>5. Supported(r)'
    BY <1>1, <1>2, <2>1, <2>2, <2>4 DEF Supported, HasAccount
  <2> QED
    BY <1>1, <2>2, <2>3, <2>5, RequestStep
<1>3. ASSUME NEW u \in users, u.email = e, u.verified,
             Begin(r, "link", [NoLocals EXCEPT !.user = u.id, !.identity = i, !.email = e,
                                               !.via = "email"])
      PROVE  IInv'
  <2> DEFINE locals == [NoLocals EXCEPT !.user = u.id, !.identity = i, !.email = e,
                                        !.via = "email"]
  <2>1. Known(u.id) /\ u.id \in UserId
    BY Rows DEF UsersOK, User, Known
  <2>2. /\ locals \in Locals /\ locals.user = u.id /\ locals.identity = i /\ locals.email = e
        /\ locals.via = "email"
    BY <2>1, NoLocalsType DEF Locals, NoLocals
  <2>3. Moves(r, "link", locals) /\ "link" \in PCs
    BY <1>3 DEF Begin, Moves, PCs
  <2> HIDE DEF locals
  <2>4. pc'[r] = "link" /\ loc'[r] = locals
    BY <2>2, <2>3, MovesType DEF IInv, TypeOK
  <2>5. Vouched(u.id, e)
    BY <1>3 DEF IInv, Inv_Marks
  <2>6. Known(u.id)' /\ Vouched(u.id, e)'
    BY <1>1, <2>1, <2>5 DEF Known, Vouched, History, Proofs
  <2>7. Supported(r)'
    BY <2>2, <2>4, <2>6 DEF Supported
  <2> QED
    BY <1>1, <2>2, <2>3, <2>7, RequestStep
<1>4. ASSUME e # "none",
             Begin(r, "signUp", [NoLocals EXCEPT !.identity = i, !.email = e, !.verified = verified])
      PROVE  IInv'
  <2> DEFINE locals == [NoLocals EXCEPT !.identity = i, !.email = e, !.verified = verified]
  <2>1. locals \in Locals /\ locals.identity = i /\ locals.email = e
    BY NoLocalsType DEF Locals, NoLocals
  <2>2. Moves(r, "signUp", locals) /\ "signUp" \in PCs
    BY <1>4 DEF Begin, Moves, PCs
  <2> HIDE DEF locals
  <2>3. pc'[r] = "signUp" /\ loc'[r] = locals
    BY <2>1, <2>2, MovesType DEF IInv, TypeOK
  <2>4. Supported(r)'
    BY <1>4, <2>1, <2>3 DEF Supported
  <2> QED
    BY <1>1, <2>1, <2>2, <2>4, RequestStep
<1> QED
  BY <1>1, <1>2, <1>3, <1>4 DEF Resolve, MayLinkByEmail

LEMMA LinkCallbackInv ==
  ASSUME IInv, NEW r \in Requests, NEW s \in states, NEW i \in Identities, LinkCallback(r, s, i)
  PROVE  IInv'
<1> DEFINE locals == [NoLocals EXCEPT !.user = s.link, !.via = "session", !.identity = i]
<1>1. Known(s.link) /\ s.link \in UserId
  BY SessionUserKnown DEF LinkCallback, Known
<1>2. locals \in Locals /\ locals.user = s.link /\ locals.via = "session" /\ locals.identity = i
  BY <1>1, NoLocalsType DEF Locals, NoLocals
<1>3. Moves(r, "link", locals) /\ UNCHANGED <<users, accounts, registered, drawn, History>>
      /\ states' \subseteq states /\ "link" \in PCs
  BY DEF LinkCallback, Begin, Moves, PCs
<1> HIDE DEF locals
<1>4. pc'[r] = "link" /\ loc'[r] = locals
  BY <1>2, <1>3, MovesType DEF IInv, TypeOK
<1>5. Supported(r)'
  BY <1>1, <1>2, <1>3, <1>4 DEF Supported, Known
<1> QED
  BY <1>2, <1>3, <1>5, RequestStep

\* A user with more than one account has one besides any of them.
LEMMA OtherAccount ==
  ASSUME IInv, NEW a \in accounts, Cardinality(AccountsOf(a.user)) > 1
  PROVE  \E b \in accounts : b.user = a.user /\ b.id # a.id
<1> SUFFICES ASSUME \A b \in accounts : b.user = a.user => b.id = a.id
             PROVE  FALSE
  OBVIOUS
<1>1. AccountsOf(a.user) = {a}
  BY Rows DEF AccountsOf, AccountsOK
<1>2. Cardinality({a}) = 1
  BY FS_Singleton
<1> QED
  BY <1>1, <1>2

LEMMA UnlinkAccountInv ==
  ASSUME IInv, NEW r \in Requests, NEW a \in accounts, UnlinkAccount(r, a)
  PROVE  IInv'
<1> DEFINE locals == [NoLocals EXCEPT !.user = a.user, !.id = a.id]
<1>1. a.user \in UserId /\ a.id \in 0 .. MaxRows /\ a.id <= drawn.accounts
  BY Rows, Constants DEF AccountsOK, Account
<1>2. locals \in Locals /\ locals.user = a.user /\ locals.id = a.id
  BY <1>1, NoLocalsType DEF Locals, NoLocals
<1>3. Moves(r, "unlink", locals) /\ UNCHANGED <<users, accounts, registered, states, drawn, History>>
      /\ "unlink" \in PCs
  BY DEF UnlinkAccount, Begin, Moves, PCs
<1> HIDE DEF locals
<1>4. pc'[r] = "unlink" /\ loc'[r] = locals
  BY <1>2, <1>3, MovesType DEF IInv, TypeOK
<1>5. AllowUnlinkingAll \/ \E b \in accounts : b.user = a.user /\ b.id # a.id
  BY OtherAccount DEF UnlinkAccount
<1>6. \A b \in accounts : b.id = a.id => b.user = a.user
  BY Rows DEF AccountsOK
<1>7. Supported(r)'
  BY <1>1, <1>2, <1>3, <1>4, <1>5, <1>6, Rows DEF Supported, Known
<1> QED
  BY <1>2, <1>3, <1>7, RequestStep

\* Giving up leaves everything as it is.
LEMMA AbandonInv ==
  ASSUME IInv, NEW r \in Requests, Abandon(r)
  PROVE  IInv'
<1>1. Moves(r, "idle", NoLocals) /\ "idle" \in PCs
      /\ UNCHANGED <<users, accounts, registered, states, drawn, History>>
  BY DEF Abandon, Return, Moves, PCs
<1>2. Supported(r)'
  BY <1>1, NoLocalsType, MovesType DEF Supported, IInv, TypeOK
<1> QED
  BY <1>1, <1>2, NoLocalsType, RequestStep

\* The administrator's new user is bare until its credential is written, and
\* owns the address on the administrator's word.
LEMMA AdminCreateUserInv ==
  ASSUME IInv, NEW r \in Requests, NEW e \in Emails, AdminCreateUser(r, e)
  PROVE  IInv'
<1>0. drawn \in Counts
  BY DEF IInv, TypeOK, Counts
<1> DEFINE user == [id |-> drawn.users + 1, email |-> e, verified |-> TRUE]
           locals == [NoLocals EXCEPT !.user = user.id]
<1>1. /\ users' = users \cup {user} /\ user.id \in UserId /\ UsersOK(users', user.id)
      /\ \A id \in UserId : id <= drawn.users => id # user.id /\ (HasUser(id)' => HasUser(id))
  BY InsertUserOK DEF AdminCreateUser
<1>2. /\ drawn' = [drawn EXCEPT !.users = user.id] /\ user.id \in 0 .. MaxUsers
      /\ user.id = drawn.users + 1 /\ user.email = e
  BY <1>0, <1>1, Constants DEF AdminCreateUser, UserId, Counts
<1>3. locals \in Locals /\ locals.user = user.id
  BY <1>1, NoLocalsType DEF Locals, NoLocals
<1>4. drawn'.users = user.id /\ drawn'.accounts = drawn.accounts
      /\ drawn' \in Counts /\ drawn.users \in Nat
  BY <1>0, <1>2, Rows DEF Counts
<1>5. /\ Moves(r, "createCredential", locals) /\ "createCredential" \in PCs
      /\ bare' = bare \cup {user.id}
      /\ proved' = proved \cup {<<user.id, user.email>>}
      /\ UNCHANGED <<accounts, registered, states, signedIn, unlinked, mistaken>>
  BY <1>4 DEF AdminCreateUser, Begin, Moves, PCs, IInv, TypeOK
<1> HIDE DEF user, locals
<1>6. /\ pc' \in [Requests -> PCs] /\ loc' \in [Requests -> Locals]
      /\ pc'[r] = "createCredential" /\ loc'[r] = locals
      /\ \A q \in Requests \ {r} : pc'[q] = pc[q] /\ loc'[q] = loc[q]
  BY <1>3, <1>5, MovesType DEF IInv, TypeOK
<1>7. TypeOK'
  BY <1>0, <1>1, <1>2, <1>4, <1>5, <1>6 DEF IInv, TypeOK, UsersOK, User, Counts
<1>8. Inv_Ids'
  <2>1. /\ \A u \in users : u.id <= drawn.users
        /\ \A a \in accounts : a.id <= drawn.accounts /\ a.user \in Nat /\ a.user <= drawn.users
        /\ \A s \in states : s.link \in Nat /\ s.link <= drawn.users
        /\ IsFiniteSet(accounts)
    BY Rows DEF IInv, Inv_Ids, TypeOK, State, NoUser, UserId, Known
  <2>2. \A a \in accounts : a.user <= user.id
    BY <1>2, <1>4, <2>1
  <2>3. \A s \in states : s.link <= user.id
    BY <1>2, <1>4, <2>1
  <2> QED
    BY <1>1, <1>2, <1>4, <1>5, <2>1, <2>2, <2>3 DEF Inv_Ids, UsersOK, AccountsOK
<1>9. Inv_Requests'
  <2>1. Supported(r)'
    BY <1>1, <1>3, <1>4, <1>6 DEF Supported, Known, UserId
  <2>2. \A q \in Requests \ {r} : Supported(q)'
    BY <1>1, <1>2, <1>4, <1>5, <1>6, SupportKept, Rows, Constants DEF UserId
  <2> QED
    BY <2>1, <2>2 DEF Inv_Requests
<1>10. Inv_SignedIn' /\ LinkedByProvenAddress' /\ EveryUserHasAWayIn'
  BY <1>1, <1>5 DEF IInv, Inv_SignedIn, HasAccount, LinkedByProvenAddress, EveryUserHasAWayIn, AccountsOf
<1>11. Inv_Marks'
  BY <1>1, <1>5 DEF IInv, Inv_Marks, Vouched
<1> QED
  BY <1>7, <1>8, <1>9, <1>10, <1>11 DEF IInv

\* A request that adds an account for a user drawn before, and then is done or
\* signs that user in with the identity of the account.
LEMMA AccountStep ==
  ASSUME IInv, NEW r \in Requests, NEW u \in UserId,
         NEW identity \in Identities \cup {"credential"},
         NEW via \in {"signUp", "session", "email"}, NEW by \in Emails \cup {"none"},
         InsertAccount(u, identity, via, by), Known(u),
         via = "email" => Vouched(u, by),
         drawn' = [drawn EXCEPT !.accounts = @ + 1], bare' = bare \ {u},
         UNCHANGED <<users, registered, states, signedIn, unlinked, proved, mistaken>>,
         NEW label \in {"idle", "signIn"}, NEW locals \in Locals, Moves(r, label, locals),
         label = "signIn" =>
           locals.user = u /\ locals.identity = identity /\ identity \in Identities
  PROVE  IInv'
<1> DEFINE account == [id |-> drawn.accounts + 1, user |-> u, identity |-> identity, via |-> via,
                       by |-> by]
<1>0. drawn \in Counts
  BY DEF IInv, TypeOK, Counts
<1>1. /\ accounts' = accounts \cup {account} /\ account.id \in 0 .. MaxRows
      /\ AccountsOK(accounts', account.id) /\ \A a \in accounts : a.id < account.id
      /\ ForeignKeys => \E w \in users' : w.id = u
      /\ drawn'.accounts = account.id
  BY <1>0, InsertAccountOK, Constants DEF Counts
<1>2. /\ account.user = u /\ account.identity = identity /\ account.via = via
      /\ account.by = by /\ account.id = drawn.accounts + 1
  OBVIOUS
<1>3. drawn'.users = drawn.users /\ drawn' = [drawn EXCEPT !.accounts = account.id]
  BY <1>0 DEF Counts
<1> HIDE DEF account
<1>4. drawn' \in Counts
  BY <1>0, <1>1, <1>3 DEF Counts
<1>5. /\ pc' \in [Requests -> PCs] /\ loc' \in [Requests -> Locals]
      /\ pc'[r] = label /\ loc'[r] = locals
      /\ \A q \in Requests \ {r} : pc'[q] = pc[q] /\ loc'[q] = loc[q]
  BY MovesType DEF IInv, TypeOK, PCs
<1>6. TypeOK'
  BY <1>1, <1>2, <1>4, <1>5 DEF IInv, TypeOK, AccountsOK, HasUser, Counts
<1>7. Inv_Ids'
  BY <1>1, <1>2, <1>3 DEF IInv, Inv_Ids, AccountsOK, Known
<1>8. Inv_Requests'
  <2>1. Supported(r)'
    BY <1>1, <1>2, <1>5 DEF Supported, HasAccount
  <2>2. \A q \in Requests \ {r} : Supported(q)'
    BY <1>0, <1>1, <1>2, <1>3, <1>5, SupportKept, Rows DEF HasUser
  <2> QED
    BY <2>1, <2>2 DEF Inv_Requests
<1>9. Inv_SignedIn'
  BY <1>1 DEF IInv, Inv_SignedIn, HasAccount
<1>10. LinkedByProvenAddress' /\ Inv_Marks'
  BY <1>1, <1>2 DEF IInv, LinkedByProvenAddress, Inv_Marks, Vouched
<1>11. EveryUserHasAWayIn'
  <2>1. \A x \in users : x.id # u /\ AccountsOf(x.id)' = {} => x.id \in bare'
    BY <1>1 DEF IInv, EveryUserHasAWayIn, AccountsOf
  <2>2. AccountsOf(u)' # {}
    BY <1>1, <1>2 DEF AccountsOf
  <2> QED
    BY <2>1, <2>2 DEF EveryUserHasAWayIn
<1> QED
  BY <1>6, <1>7, <1>8, <1>9, <1>10, <1>11 DEF IInv

LEMMA AdminInsertCredentialInv ==
  ASSUME IInv, NEW r \in Requests, AdminInsertCredential(r)
  PROVE  IInv'
<1>1. Known(loc[r].user) /\ loc[r].user \in UserId
  BY DEF AdminInsertCredential, IInv, Inv_Requests, Supported, Known
<1>2. Moves(r, "idle", NoLocals)
  BY DEF AdminInsertCredential, Return, Moves
<1> QED
  BY <1>1, <1>2, NoLocalsType, AccountStep DEF AdminInsertCredential, Proofs

\* What a sign-in goes on with.
LEMMA SignsInMoves ==
  ASSUME IInv, NEW r \in Requests, NEW u \in UserId, loc[r].identity \in Identities, SignsIn(r, u)
  PROVE  \E locals \in Locals : /\ Moves(r, "signIn", locals)
                               /\ locals.user = u /\ locals.identity = loc[r].identity
<1> DEFINE locals == [NoLocals EXCEPT !.user = u, !.identity = loc[r].identity]
<1>1. locals \in Locals /\ locals.user = u /\ locals.identity = loc[r].identity
  BY NoLocalsType DEF Locals, NoLocals
<1>2. Moves(r, "signIn", locals)
  BY DEF SignsIn, Moves
<1> QED
  BY <1>1, <1>2

\* Where a request goes once its identity is linked.
LEMMA LinkedMoves ==
  ASSUME IInv, NEW r \in Requests, Linked(r), pc[r] = "link"
  PROVE  \E label \in {"idle", "signIn"}, locals \in Locals :
           /\ Moves(r, label, locals)
           /\ label = "signIn" => locals.user = loc[r].user /\ locals.identity = loc[r].identity
<1>1. CASE loc[r].via = "session"
  BY <1>1, NoLocalsType DEF Linked, Return, Moves
<1>2. CASE loc[r].via # "session"
  <2>1. loc[r].user \in UserId /\ loc[r].identity \in Identities
    BY DEF IInv, Inv_Requests, Supported, Known
  <2> QED
    BY <1>2, <2>1, SignsInMoves DEF Linked
<1> QED
  BY <1>1, <1>2

LEMMA LinkAccountInv ==
  ASSUME IInv, NEW r \in Requests, LinkAccount(r)
  PROVE  IInv'
<1> DEFINE by == IF loc[r].via = "email" THEN loc[r].email ELSE "none"
<1>1. /\ Known(loc[r].user) /\ loc[r].user \in UserId /\ loc[r].identity \in Identities
      /\ loc[r].via \in {"session", "email"} /\ by \in Emails \cup {"none"}
      /\ loc[r].via = "email" => Vouched(loc[r].user, by)
  BY DEF LinkAccount, IInv, Inv_Requests, Supported, Known, TypeOK, Locals
<1>2. PICK label \in {"idle", "signIn"}, locals \in Locals :
        /\ Moves(r, label, locals)
        /\ label = "signIn" => locals.user = loc[r].user /\ locals.identity = loc[r].identity
  BY LinkedMoves DEF LinkAccount
<1>3. /\ InsertAccount(loc[r].user, loc[r].identity, loc[r].via, by)
      /\ drawn' = [drawn EXCEPT !.accounts = @ + 1] /\ bare' = bare \ {loc[r].user}
      /\ UNCHANGED <<users, registered, states, signedIn, unlinked, proved, mistaken>>
  BY DEF LinkAccount, Proofs
<1> HIDE DEF by
<1> QED
  BY <1>1, <1>2, <1>3, AccountStep

LEMMA AlreadyLinkedInv ==
  ASSUME IInv, NEW r \in Requests, AlreadyLinked(r)
  PROVE  IInv'
<1>1. /\ loc[r].user \in UserId /\ loc[r].identity \in Identities
      /\ HasAccount(loc[r].identity, loc[r].user)
      /\ UNCHANGED <<users, accounts, registered, states, drawn, History>>
  BY DEF AlreadyLinked, HasAccount, IInv, Inv_Requests, Supported, Known
<1>2. PICK label \in {"idle", "signIn"}, locals \in Locals :
        /\ Moves(r, label, locals)
        /\ label = "signIn" => locals.user = loc[r].user /\ locals.identity = loc[r].identity
  BY LinkedMoves DEF AlreadyLinked
<1>3. pc'[r] = label /\ loc'[r] = locals /\ label \in PCs
  BY <1>2, MovesType DEF IInv, TypeOK, PCs
<1>4. Supported(r)'
  BY <1>1, <1>2, <1>3 DEF Supported, HasAccount
<1> QED
  BY <1>1, <1>2, <1>3, <1>4, RequestStep

\* A new user comes with its account, which signs it in.
LEMMA SignUpInv ==
  ASSUME IInv, NEW r \in Requests, SignUp(r)
  PROVE  IInv'
<1>0. /\ loc[r] \in Locals /\ loc[r].identity \in Identities /\ loc[r].email \in Emails
      /\ loc[r].verified \in BOOLEAN
      /\ drawn \in Counts
  BY DEF SignUp, IInv, TypeOK, Inv_Requests, Supported, Locals, Counts
<1> DEFINE user == [id |-> drawn.users + 1, email |-> loc[r].email, verified |-> loc[r].verified]
           account == [id |-> drawn.accounts + 1, user |-> user.id, identity |-> loc[r].identity,
                       via |-> "signUp", by |-> "none"]
<1>1. /\ users' = users \cup {user} /\ user.id \in UserId /\ UsersOK(users', user.id)
      /\ \A id \in UserId : id <= drawn.users => id # user.id /\ (HasUser(id)' => HasUser(id))
  BY <1>0, InsertUserOK DEF SignUp
<1>2. /\ accounts' = accounts \cup {account} /\ account.id \in 1 .. MaxRows
      /\ ForeignKeys => \E w \in users' : w.id = user.id
      /\ AccountsOK(accounts', account.id) /\ \A a \in accounts : a.id < account.id
  BY <1>0, <1>1, InsertAccountOK DEF SignUp
<1>3. /\ account.user = user.id /\ account.via = "signUp" /\ account.id = drawn.accounts + 1
      /\ account.identity = loc[r].identity /\ user.id = drawn.users + 1
      /\ user.email = loc[r].email /\ user.verified = loc[r].verified /\ drawn.users \in Nat
  BY Rows
<1>5. /\ drawn'.users = user.id /\ drawn'.accounts = account.id
      /\ drawn' \in Counts
  <2>1. drawn' = [drawn EXCEPT !.users = user.id, !.accounts = account.id]
    BY DEF SignUp, IInv, TypeOK
  <2>2. user.id \in 0 .. MaxUsers /\ account.id \in 0 .. MaxRows
    BY <1>1, <1>2, Constants DEF UserId
  <2> HIDE DEF user, account
  <2> QED
    BY <1>0, <2>1, <2>2 DEF Counts
<1>4. PICK locals \in Locals : /\ Moves(r, "signIn", locals)
                              /\ locals.user = user.id /\ locals.identity = loc[r].identity
  BY <1>0, <1>1, <1>5, SignsInMoves DEF SignUp
<1>6. /\ UNCHANGED <<registered, states, signedIn, unlinked, bare, mistaken>>
      /\ proved' = IF loc[r].verified THEN proved \cup {<<user.id, user.email>>} ELSE proved
      /\ "signIn" \in PCs
  BY <1>5 DEF SignUp, PCs
<1> HIDE DEF user, account
<1>7. /\ pc' \in [Requests -> PCs] /\ loc' \in [Requests -> Locals]
      /\ pc'[r] = "signIn" /\ loc'[r] = locals
      /\ \A q \in Requests \ {r} : pc'[q] = pc[q] /\ loc'[q] = loc[q]
  BY <1>4, <1>6, MovesType DEF IInv, TypeOK
<1>8. TypeOK'
  BY <1>0, <1>1, <1>2, <1>3, <1>5, <1>6, <1>7 DEF IInv, TypeOK, UsersOK, AccountsOK, User, HasUser, Counts
<1>9. Inv_Ids'
  <2>1. /\ \A u \in users : u.id <= drawn.users
        /\ \A a \in accounts : a.id <= drawn.accounts /\ a.user \in Nat /\ a.user <= drawn.users
        /\ \A s \in states : s.link \in Nat /\ s.link <= drawn.users
        /\ IsFiniteSet(accounts)
    BY Rows DEF IInv, Inv_Ids, TypeOK, State, NoUser, UserId, Known
  <2>2. \A a \in accounts : a.user <= user.id
    BY <1>3, <2>1
  <2>3. \A s \in states : s.link <= user.id
    BY <1>3, <2>1
  <2> QED
    BY <1>1, <1>2, <1>3, <1>5, <1>6, <2>1, <2>2, <2>3 DEF Inv_Ids, UsersOK, AccountsOK
<1>10. Inv_Requests'
  <2>1. Supported(r)'
    BY <1>0, <1>1, <1>2, <1>3, <1>4, <1>7 DEF Supported, HasAccount
  <2>2. \A q \in Requests \ {r} : Supported(q)'
    BY <1>1, <1>2, <1>3, <1>5, <1>6, <1>7, SupportKept, Rows, Constants DEF UserId
  <2> QED
    BY <2>1, <2>2 DEF Inv_Requests
<1>11. Inv_SignedIn'
  BY <1>2, <1>6 DEF IInv, Inv_SignedIn, HasAccount
<1>12. LinkedByProvenAddress' /\ Inv_Marks'
  BY <1>1, <1>2, <1>3, <1>6 DEF IInv, LinkedByProvenAddress, Inv_Marks, Vouched
<1>13. EveryUserHasAWayIn'
  BY <1>1, <1>2, <1>3, <1>6 DEF IInv, EveryUserHasAWayIn, AccountsOf
<1> QED
  BY <1>8, <1>9, <1>10, <1>11, <1>12, <1>13 DEF IInv

LEMMA SignInInv ==
  ASSUME IInv, NEW r \in Requests, SignIn(r)
  PROVE  IInv'
<1>1. /\ loc[r].identity \in Identities /\ loc[r].user \in UserId
      /\ loc[r].identity \in unlinked \/ HasAccount(loc[r].identity, loc[r].user)
  BY DEF SignIn, IInv, Inv_Requests, Supported
<1>2. /\ signedIn' = signedIn \cup {<<loc[r].identity, loc[r].user>>}
      /\ Moves(r, "idle", NoLocals) /\ "idle" \in PCs
      /\ UNCHANGED <<users, accounts, registered, states, drawn, unlinked, bare, proved, mistaken>>
  BY DEF SignIn, Return, Moves, PCs, Proofs
<1>3. /\ pc' \in [Requests -> PCs] /\ loc' \in [Requests -> Locals] /\ pc'[r] = "idle"
      /\ \A q \in Requests \ {r} : pc'[q] = pc[q] /\ loc'[q] = loc[q]
  BY <1>2, NoLocalsType, MovesType DEF IInv, TypeOK
<1>4. TypeOK'
  BY <1>1, <1>2, <1>3 DEF IInv, TypeOK
<1>5. Inv_Ids' /\ Inv_Marks' /\ LinkedByProvenAddress' /\ EveryUserHasAWayIn'
  BY <1>2 DEF IInv, Inv_Ids, Inv_Marks, Vouched, LinkedByProvenAddress, EveryUserHasAWayIn, AccountsOf
<1>6. Inv_Requests'
  BY <1>2, <1>3 DEF IInv, Inv_Requests, Supported, Known, HasUser, Vouched, HasAccount
<1>7. Inv_SignedIn'
  BY <1>1, <1>2 DEF IInv, Inv_SignedIn, HasAccount
<1> QED
  BY <1>4, <1>5, <1>6, <1>7 DEF IInv

\* Only an unlink that ran alone leaves its user unnoted, and it had read
\* another account, which is still there.
LEMMA DeleteAccountInv ==
  ASSUME IInv, NEW r \in Requests, DeleteAccount(r)
  PROVE  IInv'
<1> DEFINE u == loc[r].user
           overlapping == \E q \in Requests \ {r} : pc[q] = "unlink" /\ loc[q].user = u
<1>1. /\ u \in UserId /\ \A a \in accounts : a.id = loc[r].id => a.user = u
      /\ \/ AllowUnlinkingAll \/ u \in bare \/ ~HasUser(u)
         \/ \E a \in accounts : a.user = u /\ a.id # loc[r].id
  BY DEF DeleteAccount, IInv, Inv_Requests, Supported, Known
<1>2. /\ pc[r] = "unlink"
      /\ accounts' = {a \in accounts : a.id # loc[r].id}
      /\ unlinked' = unlinked \cup {a.identity : a \in accounts \ accounts'}
      /\ bare' = bare \cup (IF overlapping \/ AllowUnlinkingAll THEN {u} ELSE {})
      /\ Moves(r, "idle", NoLocals) /\ "idle" \in PCs
      /\ UNCHANGED <<users, registered, states, drawn, signedIn, proved, mistaken>>
  BY DEF DeleteAccount, Return, Moves, PCs, Proofs
<1>3. /\ pc' \in [Requests -> PCs] /\ loc' \in [Requests -> Locals] /\ pc'[r] = "idle"
      /\ \A q \in Requests \ {r} : pc'[q] = pc[q] /\ loc'[q] = loc[q]
  BY <1>2, NoLocalsType, MovesType DEF IInv, TypeOK
<1>4. unlinked' \subseteq Identities \cup {"credential"} /\ bare' \subseteq UserId
  BY <1>1, <1>2 DEF IInv, TypeOK, Account
<1>5. TypeOK'
  BY <1>2, <1>3, <1>4 DEF IInv, TypeOK
<1>6. Inv_Ids'
  BY <1>2, FS_Subset DEF IInv, Inv_Ids
<1>7. \A i, id : HasAccount(i, id) => i \in unlinked' \/ HasAccount(i, id)'
  BY <1>2 DEF HasAccount
<1>8. Inv_Requests'
  <2> SUFFICES ASSUME NEW q \in Requests, q # r PROVE Supported(q)'
    BY <1>3 DEF Inv_Requests, Supported
  <2>1. Supported(q) /\ pc'[q] = pc[q] /\ loc'[q] = loc[q]
    BY <1>3 DEF IInv, Inv_Requests
  <2>2. \A i, id : (Known(id) => Known(id)') /\ (Vouched(id, i) => Vouched(id, i)')
                   /\ (HasUser(id)' => HasUser(id))
    BY <1>2 DEF Known, Vouched, HasUser
  <2>3. CASE pc[q] = "unlink"
    <3>1. CASE loc[q].user = u
      <4>1. u \in bare'
        BY <1>2, <2>3, <3>1
      <4> QED
        BY <1>2, <2>1, <2>2, <2>3, <3>1, <4>1 DEF Supported
    <3>2. CASE loc[q].user # u
      <4>1. \A a \in accounts : a.user = loc[q].user => a \in accounts'
        BY <1>1, <1>2, <3>2
      <4> QED
        BY <1>2, <2>1, <2>2, <2>3, <4>1 DEF Supported
    <3> QED
      BY <3>1, <3>2
  <2>4. CASE pc[q] # "unlink"
    BY <1>2, <1>7, <2>1, <2>2, <2>4 DEF Supported
  <2> QED
    BY <2>3, <2>4
<1>9. Inv_SignedIn'
  BY <1>2, <1>7 DEF IInv, Inv_SignedIn
<1>10. LinkedByProvenAddress' /\ Inv_Marks'
  BY <1>2 DEF IInv, LinkedByProvenAddress, Inv_Marks, Vouched
<1>11. EveryUserHasAWayIn'
  <2> SUFFICES ASSUME NEW x \in users, AccountsOf(x.id)' = {} PROVE x.id \in bare'
    BY <1>2 DEF EveryUserHasAWayIn
  <2>1. CASE x.id = u
    BY <1>1, <1>2, <2>1 DEF AccountsOf, HasUser
  <2>2. CASE x.id # u
    <3>1. AccountsOf(x.id) = {}
      BY <1>1, <1>2, <2>2 DEF AccountsOf
    <3> QED
      BY <1>2, <3>1 DEF IInv, EveryUserHasAWayIn
  <2> QED
    BY <2>1, <2>2
<1> QED
  BY <1>5, <1>6, <1>8, <1>9, <1>10, <1>11 DEF IInv

-----------------------------------------------------------------------------

\* Every step keeps the invariant.
LEMMA NextInv == IInv /\ [Next]_vars => IInv'
<1> SUFFICES ASSUME IInv, [Next]_vars PROVE IInv'
  OBVIOUS
<1>1. CASE SignInSocial \/ SignInSSO \/ IDTokenNonce
  BY <1>1, Rows, StartOAuthFlowInv DEF SignInSocial, SignInSSO, IDTokenNonce, NoUser
<1>2. ASSUME NEW u \in users, DeleteUser(u) \/ \E e \in Emails : ChangeEmail(u, e) PROVE IInv'
  BY <1>2, DeleteUserInv, ChangeEmailInv
<1>3. ASSUME NEW s \in states, RefusedCallback(s) PROVE IInv'
  BY <1>3, FlowInv DEF RefusedCallback, IInv, TypeOK, Inv_Ids, Counts
<1>4. ASSUME NEW r \in Requests, Serve(r) PROVE IInv'
  BY <1>4, WriteVerifiedInv, AdminInsertCredentialInv, LinkAccountInv, AlreadyLinkedInv,
     SignUpInv, SignInInv, DeleteAccountInv, AbandonInv DEF Serve
<1>5. CASE UNCHANGED vars
  BY <1>5, FlowInv DEF vars, History, Proofs, IInv, TypeOK, Inv_Ids, Counts
<1> QED
  BY <1>1, <1>2, <1>3, <1>4, <1>5, ProviderInv, SignUpEmailInv, VerifyEmailInv, LinkSocialInv,
     AdminCreateUserInv, UnlinkAccountInv, CallbackInv, LinkCallbackInv DEF Next

\* Rows, states and request locals keep their types; the addresses of users
\* and the identities of accounts, in particular, stay unique, and where the
\* database enforces references no account outlives or precedes its user.
THEOREM TypeCorrect == Spec => []TypeOK
<1>1. IInv => TypeOK
  BY DEF IInv
<1> QED
  BY <1>1, InitInv, NextInv, PTL DEF Spec

\* A provider identity signs in to one user only, whatever callbacks, links
\* and sign-ups race, until its account is unlinked.
THEOREM OneUserPerIdentity == Spec => []IdentityHasOneUser
<1>1. IInv => IdentityHasOneUser
  <2> SUFFICES ASSUME IInv, NEW s \in signedIn, NEW t \in signedIn, s[1] = t[1], s[1] \notin unlinked
               PROVE  s = t
    BY DEF IdentityHasOneUser
  <2>1. s \in Identities \X UserId /\ t \in Identities \X UserId
    BY DEF IInv, TypeOK
  <2>2. PICK a \in accounts : a.identity = s[1] /\ a.user = s[2]
    BY DEF IInv, Inv_SignedIn, HasAccount
  <2>3. PICK b \in accounts : b.identity = t[1] /\ b.user = t[2]
    BY DEF IInv, Inv_SignedIn, HasAccount
  <2>4. a = b
    BY <2>1, <2>2, <2>3, Rows, Constants DEF AccountsOK, Same
  <2> QED
    BY <2>1, <2>2, <2>3, <2>4
<1> QED
  BY <1>1, InitInv, NextInv, PTL DEF Spec

\* An identity that resolveOAuthUser linked by address is on a user who was
\* shown to own that address, through moves, deletions and verifications
\* between the callback's reads and its write, unless a move slipped under a
\* verification.
THEOREM LinksNeedProof == Spec => []LinkedByProvenAddress
<1>1. IInv => LinkedByProvenAddress
  BY DEF IInv
<1> QED
  BY <1>1, InitInv, NextInv, PTL DEF Spec

\* handleUnlinkAccount's count and the two-row transactions leave a user
\* without an account only in the cases EveryUserHasAWayIn excepts.
THEOREM UsersHaveAWayIn == Spec => []EveryUserHasAWayIn
<1>1. IInv => EveryUserHasAWayIn
  BY DEF IInv
<1> QED
  BY <1>1, InitInv, NextInv, PTL DEF Spec
=============================================================================
