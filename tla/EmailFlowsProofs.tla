-------------------------- MODULE EmailFlowsProofs --------------------------
(***************************************************************************)
(* Proofs about EmailFlows, for every set of requests and addresses and    *)
(* every number of accounts and links.                                     *)
(*                                                                         *)
(* Neither property is inductive.  A verification is written one call      *)
(* after the row was compared with the link, so the invariant follows what *)
(* the request still knows in between: the address it read was proven, and *)
(* the account has it still or is one of the overlapped (Writing).  An     *)
(* approval link is redeemed long after it was sent, so the invariant      *)
(* carries the fact that it went to an address verified then through the   *)
(* link, and from there to the request that redeems it (Tables, Holds).    *)
(***************************************************************************)
EXTENDS EmailFlows, TLAPS

\* The user table and the links, with what they say about held and proven.
TablesTyped ==
  /\ users \subseteq User
  /\ \A a, b \in users : a.id = b.id \/ a.email = b.email => a = b
  /\ created \in 0 .. MaxUsers
  /\ \A u \in users : u.id < created
  /\ links \subseteq Link
  /\ sent \in 0 .. MaxLinks
  /\ proven \subseteq UserId \X Emails
  /\ held \subseteq UserId \X Emails
  /\ overlapped \subseteq UserId

LinksSound ==
  \A l \in links :
    /\ l.kind # "magic" => l.user \in UserId
    /\ l.kind = "verify" => l.email = l.sentTo
    /\ l.kind = "change" => <<l.user, l.sentTo>> \in held

UsersHeld == \A u \in users : u.verified => <<u.id, u.email>> \in held

Tables == TablesTyped /\ LinksSound /\ UsersHeld /\ ProvenUnlessOverlapped

\* What request r has in hand, at the call it makes next.
Holds(r) ==
  /\ pc[r] = "signUp" => loc[r].email \in Emails
  /\ pc[r] = "sendVerify" => loc[r].user \in User
  /\ pc[r] = "changeEmail" =>
       /\ loc[r].user \in User
       /\ loc[r].email \in Emails
       /\ loc[r].user.verified => <<loc[r].user.id, loc[r].user.email>> \in held
  /\ pc[r] \in {"approve", "verify", "magic", "delete"} => loc[r].link \in Link
  /\ pc[r] = "approve" => <<loc[r].link.user, loc[r].link.sentTo>> \in held
  /\ pc[r] = "verify" => <<loc[r].link.user, loc[r].link.email>> \in proven

\* The account whose verification r is about to write has the address r read,
\* or was moved under it.
Writing(r) ==
  pc[r] = "setVerified" =>
    /\ <<loc[r].user.id, loc[r].user.email>> \in proven
    /\ loc[r].user.id < created
    /\ \A u \in users : u.id = loc[r].user.id =>
         u.email = loc[r].user.email \/ u.id \in overlapped

IInv ==
  /\ Tables
  /\ pc \in [Requests -> PCs]
  /\ loc \in [Requests -> Locals]
  /\ \A r \in Requests : Holds(r) /\ Writing(r)

-----------------------------------------------------------------------------
\* The empty tables and the idle requests satisfy the invariant.
LEMMA InitIInv == Init => IInv
  BY EmailFlowsAssumption
  DEF Init, IInv, Tables, TablesTyped, LinksSound, UsersHeld, ProvenUnlessOverlapped,
      Holds, Writing, PCs, Locals, NoLocals, UserId

\* The invariant contains the type invariant.
LEMMA IInvTypeOK == IInv => TypeOK
  BY DEF IInv, Tables, TablesTyped, TypeOK

\* The end of a request leaves it nothing to hold.
LEMMA ReturnKeeps ==
  ASSUME NEW r \in Requests, pc \in [Requests -> PCs], loc \in [Requests -> Locals], Return(r)
  PROVE  /\ pc' \in [Requests -> PCs] /\ loc' \in [Requests -> Locals]
         /\ Holds(r)' /\ Writing(r)'
         /\ \A q \in Requests \ {r} : pc'[q] = pc[q] /\ loc'[q] = loc[q]
<1>1. NoLocals \in Locals /\ "idle" \in PCs
  BY DEF NoLocals, Locals, PCs
<1>2. pc'[r] = "idle"
  BY DEF Return, Goto
<1> QED
  BY <1>1, <1>2 DEF Return, Goto, Holds, Writing

\* A request that does not step keeps what it holds: proofs and records of
\* verified addresses only accumulate, and whoever moves its account while it
\* writes marks it overlapped.
LEMMA OthersKeep ==
  ASSUME NEW q \in Requests, Holds(q), Writing(q),
         pc'[q] = pc[q], loc'[q] = loc[q],
         held \subseteq held', proven \subseteq proven',
         created \in Nat, created' \in Nat, created <= created',
         loc[q].user.id \in Nat,
         pc[q] = "setVerified" =>
           \A u \in users' : u.id = loc[q].user.id =>
             u.email = loc[q].user.email \/ u.id \in overlapped'
  PROVE  Holds(q)' /\ Writing(q)'
<1>1. Holds(q)'
  BY DEF Holds
<1>2. Writing(q)'
  BY DEF Writing
<1> QED
  BY <1>1, <1>2

\* The same for a step that leaves the user table alone.
LEMMA OthersKeepReading ==
  ASSUME NEW q \in Requests, Holds(q), Writing(q),
         pc'[q] = pc[q], loc'[q] = loc[q],
         held \subseteq held', proven \subseteq proven',
         UNCHANGED <<users, created, overlapped>>
  PROVE  Holds(q)' /\ Writing(q)'
  BY DEF Holds, Writing

-----------------------------------------------------------------------------
\* UpdateUser to another address, unverified, keeps the tables sound, and no
\* request is left writing a verification it does not know was overtaken.
LEMMA MoveToKeeps ==
  ASSUME IInv, NEW u \in users, NEW e \in Emails, MoveTo(u, e),
         UNCHANGED <<created, links, sent, proven, held>>
  PROVE  /\ Tables'
         /\ \A q \in Requests : pc[q] = "setVerified" =>
              \A v \in users' : v.id = loc[q].user.id =>
                v.email = loc[q].user.email \/ v.id \in overlapped'
<1> DEFINE moved == [u EXCEPT !.email = e, !.verified = FALSE]
           writing == {r \in Requests : pc[r] = "setVerified" /\ loc[r].user.id = u.id}
<1>1. /\ u \in User
      /\ users' = (users \ {u}) \cup {moved}
      /\ \A other \in users \ {u} : other.email # e
      /\ overlapped' = IF writing = {} THEN overlapped ELSE overlapped \cup {u.id}
  BY DEF MoveTo, IInv, Tables, TablesTyped
<1>2. moved \in User /\ moved.id = u.id /\ moved.email = e /\ moved.verified = FALSE
  BY <1>1 DEF User
<1>3. overlapped \subseteq overlapped' /\ u.id \in UserId
  BY <1>1 DEF User
<1> HIDE DEF moved
<1>4. TablesTyped'
  BY <1>1, <1>2, <1>3 DEF IInv, Tables, TablesTyped
<1>5. LinksSound' /\ UsersHeld'
  BY <1>1, <1>2 DEF IInv, Tables, LinksSound, UsersHeld
<1>6. ProvenUnlessOverlapped'
  BY <1>1, <1>2, <1>3 DEF IInv, Tables, ProvenUnlessOverlapped
<1>7. ASSUME NEW q \in Requests, pc[q] = "setVerified", NEW v \in users', v.id = loc[q].user.id
      PROVE  v.email = loc[q].user.email \/ v.id \in overlapped'
  <2>1. CASE v \in users
    BY <1>3, <1>7, <2>1 DEF IInv, Writing
  <2>2. CASE v = moved
    <3>1. q \in writing
      BY <1>2, <1>7, <2>2
    <3> QED
      BY <1>1, <1>2, <2>2, <3>1
  <2> QED
    BY <1>1, <2>1, <2>2
<1> QED
  BY <1>4, <1>5, <1>6, <1>7 DEF Tables

\* base.Create of a user draws an id no account ever had.
LEMMA CreateUserKeeps ==
  ASSUME IInv, NEW e \in Emails, NEW verified \in BOOLEAN, CreateUser(e, verified),
         proven \subseteq proven', proven' \subseteq UserId \X Emails,
         verified => <<created, e>> \in proven',
         UNCHANGED <<links, sent, overlapped>>
  PROVE  /\ Tables'
         /\ held \subseteq held'
         /\ created' = created + 1
         /\ [id |-> created, email |-> e, verified |-> verified] \in User
         /\ \A q \in Requests : pc[q] = "setVerified" =>
              \A v \in users' : v.id = loc[q].user.id =>
                v.email = loc[q].user.email \/ v.id \in overlapped'
<1> DEFINE new == [id |-> created, email |-> e, verified |-> verified]
<1>1. /\ users' = users \cup {new}
      /\ created' = created + 1
      /\ created \in UserId
      /\ created' \in 0 .. MaxUsers
      /\ \A v \in users : v.email # e
      /\ held' = IF verified THEN held \cup {<<created, e>>} ELSE held
  BY EmailFlowsAssumption DEF CreateUser, Taken, IInv, Tables, TablesTyped, UserId
<1>2. new \in User /\ new.id = created /\ new.email = e /\ new.verified = verified
  BY <1>1 DEF User
<1> HIDE DEF new
<1>3. \A v \in users : v.id \in Nat /\ v.id < created /\ v.id # created
  BY DEF IInv, Tables, TablesTyped, User, UserId
<1>4. TablesTyped'
  <2>1. \A v \in users' : v.id < created'
    BY <1>1, <1>2, <1>3 DEF UserId
  <2>2. held' \subseteq UserId \X Emails
    BY <1>1 DEF IInv, Tables, TablesTyped
  <2> QED
    BY <1>1, <1>2, <1>3, <2>1, <2>2 DEF IInv, Tables, TablesTyped
<1>5. LinksSound' /\ UsersHeld'
  BY <1>1, <1>2 DEF IInv, Tables, LinksSound, UsersHeld
<1>6. ProvenUnlessOverlapped'
  BY <1>1, <1>2 DEF IInv, Tables, ProvenUnlessOverlapped
<1>7. ASSUME NEW q \in Requests, pc[q] = "setVerified", NEW v \in users', v.id = loc[q].user.id
      PROVE  v.email = loc[q].user.email \/ v.id \in overlapped'
  <2>1. loc[q].user.id \in UserId /\ loc[q].user.id < created
    BY <1>7 DEF IInv, Writing, Tables, TablesTyped
  <2>2. v # new
    BY <1>1, <1>2, <1>7, <2>1 DEF UserId
  <2> QED
    BY <1>1, <1>7, <2>2 DEF IInv, Writing
<1> QED
  BY <1>1, <1>2, <1>4, <1>5, <1>6, <1>7 DEF Tables, new

\* StoreToken adds a link of the given kind and nothing else.
LEMMA SendKeeps ==
  ASSUME IInv, NEW kind \in {"verify", "change", "delete", "magic"},
         NEW id \in UserId \cup {NoId}, NEW e \in Emails, NEW to \in Emails,
         kind # "magic" => id \in UserId,
         kind = "verify" => e = to,
         kind = "change" => <<id, to>> \in held,
         Send(kind, id, e, to),
         UNCHANGED <<users, created, proven, held, overlapped>>
  PROVE  Tables'
<1> DEFINE new == [n |-> sent, kind |-> kind, user |-> id, email |-> e, sentTo |-> to]
<1>1. links' = links \cup {new} /\ sent' = sent + 1 /\ sent \in 0 .. MaxLinks - 1
  BY EmailFlowsAssumption DEF Send, IInv, Tables, TablesTyped
<1>2. new \in Link /\ new.kind = kind /\ new.user = id /\ new.email = e /\ new.sentTo = to
  BY <1>1 DEF Link
<1> HIDE DEF new
<1>3. TablesTyped'
  BY <1>1, <1>2, EmailFlowsAssumption DEF IInv, Tables, TablesTyped
<1>4. LinksSound'
  BY <1>1, <1>2 DEF IInv, Tables, LinksSound
<1> QED
  BY <1>3, <1>4 DEF IInv, Tables, UsersHeld, ProvenUnlessOverlapped

\* A step that changes no user and sends no link keeps the tables sound:
\* links are only consumed, and proofs only added.
LEMMA ReadingKeepsTables ==
  ASSUME IInv, links' \subseteq links, proven \subseteq proven',
         proven' \subseteq UserId \X Emails,
         UNCHANGED <<users, created, sent, held, overlapped>>
  PROVE  Tables'
  BY DEF IInv, Tables, TablesTyped, LinksSound, UsersHeld, ProvenUnlessOverlapped

\* Deleting an account keeps the tables sound.
LEMMA DeletionKeeps ==
  ASSUME IInv, users' \subseteq users,
         UNCHANGED <<created, links, sent, proven, held, overlapped>>
  PROVE  Tables'
  BY DEF IInv, Tables, TablesTyped, LinksSound, UsersHeld, ProvenUnlessOverlapped

\* UpdateUser(emailVerified: true) by id: the account has the address that
\* was proven, or is overlapped.
LEMMA SetVerifiedKeeps ==
  ASSUME IInv, NEW r \in Requests, SetVerified(r)
  PROVE  /\ Tables'
         /\ held \subseteq held'
         /\ \A q \in Requests : pc[q] = "setVerified" =>
              \A v \in users' : v.id = loc[q].user.id =>
                v.email = loc[q].user.email \/ v.id \in overlapped'
<1>1. PICK u \in users :
        /\ u.id = loc[r].user.id
        /\ users' = (users \ {u}) \cup {[u EXCEPT !.verified = TRUE]}
        /\ held' = held \cup {<<u.id, u.email>>}
  BY DEF SetVerified
<1> DEFINE new == [u EXCEPT !.verified = TRUE]
<1>2. new \in User /\ u \in User /\ new.id = u.id /\ new.email = u.email
  BY DEF IInv, Tables, TablesTyped, User
<1>3. users' = (users \ {u}) \cup {new}
  BY <1>1
<1> HIDE DEF new
<1>4. UNCHANGED <<created, links, sent, proven, overlapped>>
  BY DEF SetVerified
<1>5. <<u.id, u.email>> \in UserId \X Emails
  BY <1>2 DEF User
<1>6. TablesTyped'
  BY <1>1, <1>2, <1>3, <1>4, <1>5 DEF IInv, Tables, TablesTyped
<1>7. LinksSound' /\ UsersHeld'
  BY <1>1, <1>2, <1>3, <1>4 DEF IInv, Tables, LinksSound, UsersHeld
<1>8. u.id \notin overlapped => <<u.id, u.email>> \in proven
  BY <1>1 DEF SetVerified, IInv, Writing
<1>9. ProvenUnlessOverlapped'
  BY <1>2, <1>3, <1>4, <1>8 DEF IInv, Tables, ProvenUnlessOverlapped
<1>10. ASSUME NEW q \in Requests, pc[q] = "setVerified", NEW v \in users', v.id = loc[q].user.id
       PROVE  v.email = loc[q].user.email \/ v.id \in overlapped'
  BY <1>2, <1>3, <1>4, <1>10 DEF IInv, Writing
<1> QED
  BY <1>1, <1>6, <1>7, <1>9, <1>10 DEF Tables

-----------------------------------------------------------------------------
\* Every local a request can hold has an account id that is a number.
LEMMA LocalIds == ASSUME IInv, NEW q \in Requests PROVE loc[q].user.id \in Nat
  BY EmailFlowsAssumption DEF IInv, Locals, User, UserId, NoUser, NoId

\* A step of r that leaves the user table alone: what r holds after it, and
\* the tables, are all there is to show.
LEMMA ReadingStep ==
  ASSUME IInv, NEW r \in Requests, Tables',
         pc' \in [Requests -> PCs], loc' \in [Requests -> Locals],
         Holds(r)', Writing(r)',
         \A q \in Requests \ {r} : pc'[q] = pc[q] /\ loc'[q] = loc[q],
         held \subseteq held', proven \subseteq proven',
         UNCHANGED <<users, created, overlapped>>
  PROVE  IInv'
<1>1. ASSUME NEW q \in Requests \ {r} PROVE Holds(q)' /\ Writing(q)'
  BY <1>1, OthersKeepReading DEF IInv
<1> QED
  BY <1>1 DEF IInv

\* A step of r that writes the user table.
LEMMA WritingStep ==
  ASSUME IInv, NEW r \in Requests, Tables',
         pc' \in [Requests -> PCs], loc' \in [Requests -> Locals],
         Holds(r)', Writing(r)',
         \A q \in Requests \ {r} : pc'[q] = pc[q] /\ loc'[q] = loc[q],
         held \subseteq held', proven \subseteq proven', created <= created',
         \A q \in Requests : pc[q] = "setVerified" =>
           \A u \in users' : u.id = loc[q].user.id =>
             u.email = loc[q].user.email \/ u.id \in overlapped'
  PROVE  IInv'
<1>1. created \in Nat /\ created' \in Nat
  BY EmailFlowsAssumption DEF IInv, Tables, TablesTyped
<1>2. ASSUME NEW q \in Requests \ {r} PROVE Holds(q)' /\ Writing(q)'
  <2>1. Holds(q) /\ Writing(q) /\ pc'[q] = pc[q] /\ loc'[q] = loc[q]
    BY DEF IInv
  <2> QED
    BY <1>1, <2>1, OthersKeep, LocalIds
<1> QED
  BY <1>2 DEF IInv

\* Going on with the user just read or written, and no link.
LEMMA ContinueKeeps ==
  ASSUME IInv, NEW r \in Requests, NEW label \in PCs, NEW u \in User, Continue(r, label, u)
  PROVE  /\ pc' \in [Requests -> PCs] /\ loc' \in [Requests -> Locals]
         /\ pc'[r] = label /\ loc'[r].user = u
         /\ \A q \in Requests \ {r} : pc'[q] = pc[q] /\ loc'[q] = loc[q]
<1>1. /\ [NoLocals EXCEPT !.user = u] \in Locals
      /\ [NoLocals EXCEPT !.user = u].user = u
  BY DEF NoLocals, Locals
<1> QED
  BY <1>1 DEF Continue, Goto, IInv

\* Redeeming a link: the request goes on with it.
LEMMA RedeemKeeps ==
  ASSUME IInv, NEW r \in Requests, NEW label \in PCs, NEW l \in links,
         Goto(r, label), loc' = [loc EXCEPT ![r].link = l]
  PROVE  /\ l \in Link
         /\ pc' \in [Requests -> PCs] /\ loc' \in [Requests -> Locals]
         /\ pc'[r] = label /\ loc'[r].link = l
         /\ \A q \in Requests \ {r} : pc'[q] = pc[q] /\ loc'[q] = loc[q]
<1>1. l \in Link /\ loc[r] \in Locals
  BY DEF IInv, Tables, TablesTyped
<1>2. [loc[r] EXCEPT !.link = l] \in Locals /\ [loc[r] EXCEPT !.link = l].link = l
  BY <1>1 DEF Locals
<1>3. loc' = [loc EXCEPT ![r] = [loc[r] EXCEPT !.link = l]]
  BY DEF IInv
<1> QED
  BY <1>1, <1>2, <1>3 DEF Goto, IInv


-----------------------------------------------------------------------------
\* Sign-up and the verification mail.
LEMMA SignUpSteps ==
  ASSUME IInv, NEW r \in Requests,
         \/ \E e \in Emails : SignUpEmail(r, e) \/ HandleSendVerificationEmail(r, e)
         \/ SignUpCreate(r)
         \/ SendVerificationEmail(r)
  PROVE  IInv'
<1>1. ASSUME NEW e \in Emails, SignUpEmail(r, e) PROVE IInv'
  <2>1. [loc[r] EXCEPT !.email = e] \in Locals /\ [loc[r] EXCEPT !.email = e].email = e
    BY DEF IInv, Locals
  <2>2. /\ pc'[r] = "signUp" /\ loc'[r].email = e
        /\ pc' \in [Requests -> PCs] /\ loc' \in [Requests -> Locals]
        /\ \A q \in Requests \ {r} : pc'[q] = pc[q] /\ loc'[q] = loc[q]
    BY <1>1, <2>1 DEF SignUpEmail, Goto, IInv, PCs
  <2>3. Holds(r)' /\ Writing(r)'
    BY <2>2 DEF Holds, Writing
  <2>4. /\ UNCHANGED <<users, created, links, sent, proven, held, overlapped>>
        /\ proven \subseteq UserId \X Emails
    BY <1>1 DEF SignUpEmail, IInv, Tables, TablesTyped
  <2>5. Tables'
    BY <2>4, ReadingKeepsTables
  <2> QED
    BY <2>2, <2>3, <2>4, <2>5, ReadingStep
<1>2. ASSUME NEW e \in Emails, HandleSendVerificationEmail(r, e) PROVE IInv'
  <2>1. PICK u \in users : Continue(r, "sendVerify", u)
    BY <1>2 DEF HandleSendVerificationEmail
  <2>2. u \in User /\ "sendVerify" \in PCs
    BY DEF IInv, Tables, TablesTyped, PCs
  <2>3. /\ pc'[r] = "sendVerify" /\ loc'[r].user = u
        /\ pc' \in [Requests -> PCs] /\ loc' \in [Requests -> Locals]
        /\ \A q \in Requests \ {r} : pc'[q] = pc[q] /\ loc'[q] = loc[q]
    BY <2>1, <2>2, ContinueKeeps
  <2>4. Holds(r)' /\ Writing(r)'
    BY <2>2, <2>3 DEF Holds, Writing
  <2>5. /\ UNCHANGED <<users, created, links, sent, proven, held, overlapped>>
        /\ proven \subseteq UserId \X Emails
    BY <1>2 DEF HandleSendVerificationEmail, IInv, Tables, TablesTyped
  <2>6. Tables'
    BY <2>5, ReadingKeepsTables
  <2> QED
    BY <2>3, <2>4, <2>5, <2>6, ReadingStep
<1>3. CASE SignUpCreate(r)
  <2> DEFINE e == loc[r].email
             new == [id |-> created, email |-> e, verified |-> FALSE]
  <2>1. CASE CreateUser(e, FALSE) /\ Continue(r, "sendVerify", new)
    <3>1. e \in Emails /\ UNCHANGED <<links, sent, proven, overlapped>>
      BY <1>3 DEF SignUpCreate, IInv, Holds
    <3>2. /\ Tables' /\ held \subseteq held' /\ created' = created + 1 /\ new \in User
          /\ \A q \in Requests : pc[q] = "setVerified" =>
               \A v \in users' : v.id = loc[q].user.id =>
                 v.email = loc[q].user.email \/ v.id \in overlapped'
      <4>1. proven \subseteq UserId \X Emails
        BY DEF IInv, Tables, TablesTyped
      <4> HIDE DEF e
      <4> QED
        BY <2>1, <3>1, <4>1, CreateUserKeeps
    <3>3. /\ pc'[r] = "sendVerify" /\ loc'[r].user = new
          /\ pc' \in [Requests -> PCs] /\ loc' \in [Requests -> Locals]
          /\ \A q \in Requests \ {r} : pc'[q] = pc[q] /\ loc'[q] = loc[q]
      <4>1. "sendVerify" \in PCs
        BY DEF PCs
      <4> HIDE DEF new
      <4> QED
        BY <2>1, <3>2, <4>1, ContinueKeeps
    <3>4. Holds(r)' /\ Writing(r)'
      BY <3>2, <3>3 DEF Holds, Writing
    <3>5. created <= created'
      BY <3>2 DEF IInv, Tables, TablesTyped
    <3> QED
      BY <3>1, <3>2, <3>3, <3>4, <3>5, WritingStep
  <2>2. CASE Return(r) /\ UNCHANGED <<users, created, held>>
    <3>1. UNCHANGED <<links, sent, proven, overlapped>> /\ proven \subseteq UserId \X Emails
      BY <1>3 DEF SignUpCreate, IInv, Tables, TablesTyped
    <3>2. Tables'
      BY <2>2, <3>1, ReadingKeepsTables
    <3> QED
      BY <2>2, <3>1, <3>2, ReturnKeeps, ReadingStep DEF IInv
  <2> QED
    BY <1>3, <2>1, <2>2 DEF SignUpCreate
<1>4. CASE SendVerificationEmail(r)
  <2> DEFINE u == loc[r].user
  <2>1. u \in User /\ u.id \in UserId /\ u.email \in Emails
    BY <1>4 DEF SendVerificationEmail, IInv, Holds, User
  <2>2. /\ Send("verify", u.id, u.email, u.email) /\ Return(r)
        /\ UNCHANGED <<users, created, proven, held, overlapped>>
    BY <1>4 DEF SendVerificationEmail
  <2> HIDE DEF u
  <2>3. Tables'
    BY <2>1, <2>2, SendKeeps
  <2> QED
    BY <2>2, <2>3, ReturnKeeps, ReadingStep DEF IInv
<1> QED
  BY <1>1, <1>2, <1>3, <1>4

\* Changing the address, at once or by approval.
LEMMA ChangeSteps ==
  ASSUME IInv, NEW r \in Requests,
         \/ \E e \in Emails : ChangeEmail(r, e)
         \/ SendChangeEmailVerification(r)
         \/ ChangeUnverified(r)
         \/ RedeemChange(r)
         \/ ApproveChange(r)
  PROVE  IInv'
<1> DEFINE moved(u, e) == [u EXCEPT !.email = e, !.verified = FALSE]
<1>1. ASSUME NEW e \in Emails, ChangeEmail(r, e) PROVE IInv'
  <2>1. PICK u \in users : loc' = [loc EXCEPT ![r] = [NoLocals EXCEPT !.user = u, !.email = e]]
    BY <1>1 DEF ChangeEmail
  <2> DEFINE l == [NoLocals EXCEPT !.user = u, !.email = e]
  <2>2. u \in User /\ (u.verified => <<u.id, u.email>> \in held)
    BY DEF IInv, Tables, TablesTyped, UsersHeld
  <2>3. l \in Locals /\ l.user = u /\ l.email = e
    BY <2>2 DEF NoLocals, Locals
  <2> HIDE DEF l
  <2>4. /\ pc'[r] = "changeEmail" /\ loc'[r].user = u /\ loc'[r].email = e
        /\ pc' \in [Requests -> PCs] /\ loc' \in [Requests -> Locals]
        /\ \A q \in Requests \ {r} : pc'[q] = pc[q] /\ loc'[q] = loc[q]
    BY <1>1, <2>1, <2>3 DEF ChangeEmail, Goto, IInv, PCs, l
  <2>5. /\ UNCHANGED <<users, created, links, sent, proven, held, overlapped>>
        /\ proven \subseteq UserId \X Emails
    BY <1>1 DEF ChangeEmail, IInv, Tables, TablesTyped
  <2>6. Holds(r)' /\ Writing(r)'
    BY <2>2, <2>4, <2>5 DEF Holds, Writing
  <2>7. Tables'
    BY <2>5, ReadingKeepsTables
  <2> QED
    BY <2>4, <2>5, <2>6, <2>7, ReadingStep
<1>2. CASE SendChangeEmailVerification(r)
  <2> DEFINE u == loc[r].user
             e == loc[r].email
  <2>1. u.id \in UserId /\ u.email \in Emails /\ e \in Emails /\ <<u.id, u.email>> \in held
    BY <1>2 DEF SendChangeEmailVerification, IInv, Holds, User
  <2>2. /\ Send("change", u.id, e, u.email) /\ Return(r)
        /\ UNCHANGED <<users, created, proven, held, overlapped>>
    BY <1>2 DEF SendChangeEmailVerification
  <2> HIDE DEF u, e
  <2>3. Tables'
    BY <2>1, <2>2, SendKeeps
  <2> QED
    BY <2>2, <2>3, ReturnKeeps, ReadingStep DEF IInv
<1>3. ASSUME NEW u \in users, NEW e \in Emails, MoveTo(u, e),
             Continue(r, "sendVerify", moved(u, e)),
             UNCHANGED <<created, links, sent, proven, held>>
      PROVE  IInv'
  <2>1. moved(u, e) \in User /\ "sendVerify" \in PCs
    BY DEF IInv, Tables, TablesTyped, User, PCs
  <2>2. /\ pc'[r] = "sendVerify" /\ loc'[r].user = moved(u, e)
        /\ pc' \in [Requests -> PCs] /\ loc' \in [Requests -> Locals]
        /\ \A q \in Requests \ {r} : pc'[q] = pc[q] /\ loc'[q] = loc[q]
    <3> HIDE DEF moved
    <3> QED
      BY <1>3, <2>1, ContinueKeeps
  <2>3. Holds(r)' /\ Writing(r)'
    BY <2>1, <2>2 DEF Holds, Writing
  <2>4. /\ Tables'
        /\ \A q \in Requests : pc[q] = "setVerified" =>
             \A v \in users' : v.id = loc[q].user.id =>
               v.email = loc[q].user.email \/ v.id \in overlapped'
    BY <1>3, MoveToKeeps
  <2>5. created <= created'
    BY <1>3 DEF IInv, Tables, TablesTyped
  <2> QED
    BY <1>3, <2>2, <2>3, <2>4, <2>5, WritingStep
<1>4. CASE ChangeUnverified(r)
  BY <1>3, <1>4 DEF ChangeUnverified, IInv, Holds
<1>5. CASE ApproveChange(r)
  BY <1>3, <1>5 DEF ApproveChange, IInv, Holds, Link
<1>6. CASE RedeemChange(r)
  <2>1. PICK l \in links : /\ l.kind = "change"
                           /\ links' = links \ {l}
                           /\ proven' = proven \cup {<<l.user, l.sentTo>>}
                           /\ loc' = [loc EXCEPT ![r].link = l]
    BY <1>6 DEF RedeemChange, ConsumeToken
  <2>2. Goto(r, "approve") /\ "approve" \in PCs
        /\ UNCHANGED <<users, created, sent, held, overlapped>>
    BY <1>6 DEF RedeemChange, PCs
  <2>3. /\ l \in Link
        /\ pc' \in [Requests -> PCs] /\ loc' \in [Requests -> Locals]
        /\ pc'[r] = "approve" /\ loc'[r].link = l
        /\ \A q \in Requests \ {r} : pc'[q] = pc[q] /\ loc'[q] = loc[q]
    BY <2>1, <2>2, RedeemKeeps
  <2>4. <<l.user, l.sentTo>> \in held /\ proven' \subseteq UserId \X Emails
    BY <2>1 DEF IInv, Tables, TablesTyped, LinksSound
  <2>5. Holds(r)' /\ Writing(r)'
    BY <2>2, <2>3, <2>4 DEF Holds, Writing
  <2>6. Tables'
    BY <2>1, <2>2, <2>4, ReadingKeepsTables
  <2> QED
    BY <2>1, <2>2, <2>3, <2>5, <2>6, ReadingStep
<1> QED
  BY <1>1, <1>2, <1>4, <1>5, <1>6

\* Verifying an address by a link sent for it, or by a magic link.
LEMMA VerifySteps ==
  ASSUME IInv, NEW r \in Requests,
         RedeemVerify(r) \/ VerifyEmail(r) \/ SetVerified(r) \/ RedeemMagic(r) \/ MagicVerify(r)
  PROVE  IInv'
<1>1. CASE RedeemVerify(r)
  <2>1. PICK l \in links : /\ l.kind = "verify"
                           /\ links' = links \ {l}
                           /\ proven' = proven \cup {<<l.user, l.sentTo>>}
                           /\ loc' = [loc EXCEPT ![r].link = l]
    BY <1>1 DEF RedeemVerify, ConsumeToken
  <2>2. Goto(r, "verify") /\ "verify" \in PCs
        /\ UNCHANGED <<users, created, sent, held, overlapped>>
    BY <1>1 DEF RedeemVerify, PCs
  <2>3. /\ l \in Link
        /\ pc' \in [Requests -> PCs] /\ loc' \in [Requests -> Locals]
        /\ pc'[r] = "verify" /\ loc'[r].link = l
        /\ \A q \in Requests \ {r} : pc'[q] = pc[q] /\ loc'[q] = loc[q]
    BY <2>1, <2>2, RedeemKeeps
  <2>4. /\ l.user \in UserId /\ l.sentTo \in Emails /\ l.email = l.sentTo
        /\ proven' \subseteq UserId \X Emails
    <3>1. l.user \in UserId /\ l.email = l.sentTo
      BY <2>1 DEF IInv, Tables, LinksSound
    <3>2. l.sentTo \in Emails
      BY <2>3 DEF Link
    <3> QED
      BY <2>1, <3>1, <3>2 DEF IInv, Tables, TablesTyped
  <2>5. Holds(r)' /\ Writing(r)'
    BY <2>1, <2>3, <2>4 DEF Holds, Writing
  <2>6. Tables'
    BY <2>1, <2>2, <2>4, ReadingKeepsTables
  <2> QED
    BY <2>1, <2>2, <2>3, <2>5, <2>6, ReadingStep
<1>2. ASSUME NEW u \in users, Continue(r, "setVerified", u),
             proven \subseteq proven', proven' \subseteq UserId \X Emails,
             <<u.id, u.email>> \in proven',
             UNCHANGED <<users, created, links, sent, held, overlapped>>
      PROVE  IInv'
  <2>1. u \in User /\ u.id < created /\ "setVerified" \in PCs
    BY DEF IInv, Tables, TablesTyped, PCs
  <2>2. /\ pc'[r] = "setVerified" /\ loc'[r].user = u
        /\ pc' \in [Requests -> PCs] /\ loc' \in [Requests -> Locals]
        /\ \A q \in Requests \ {r} : pc'[q] = pc[q] /\ loc'[q] = loc[q]
    BY <1>2, <2>1, ContinueKeeps
  <2>3. \A v \in users : v.id = u.id => v = u
    BY DEF IInv, Tables, TablesTyped
  <2>4. Holds(r)' /\ Writing(r)'
    BY <1>2, <2>1, <2>2, <2>3 DEF Holds, Writing
  <2>5. Tables'
    BY <1>2, ReadingKeepsTables
  <2> QED
    BY <1>2, <2>2, <2>4, <2>5, ReadingStep
<1>3. CASE VerifyEmail(r)
  <2>1. PICK u \in users : /\ u.id = loc[r].link.user
                           /\ u.email = loc[r].link.email
                           /\ Continue(r, "setVerified", u)
    BY <1>3 DEF VerifyEmail
  <2>2. /\ <<u.id, u.email>> \in proven
        /\ UNCHANGED <<users, created, links, sent, proven, held, overlapped>>
        /\ proven \subseteq UserId \X Emails
    BY <1>3, <2>1 DEF VerifyEmail, IInv, Holds, Tables, TablesTyped
  <2> QED
    BY <1>2, <2>1, <2>2
<1>4. CASE SetVerified(r)
  <2>1. /\ Tables' /\ held \subseteq held'
        /\ \A q \in Requests : pc[q] = "setVerified" =>
             \A v \in users' : v.id = loc[q].user.id =>
               v.email = loc[q].user.email \/ v.id \in overlapped'
    BY <1>4, SetVerifiedKeeps
  <2>2. Return(r) /\ UNCHANGED <<created, links, sent, proven, overlapped>> /\ created <= created'
    BY <1>4 DEF SetVerified, IInv, Tables, TablesTyped
  <2> QED
    BY <2>1, <2>2, ReturnKeeps, WritingStep DEF IInv
<1>5. CASE RedeemMagic(r)
  <2>1. PICK l \in links : links' = links \ {l} /\ loc' = [loc EXCEPT ![r].link = l]
    BY <1>5 DEF RedeemMagic, ConsumeToken
  <2>2. Goto(r, "magic") /\ "magic" \in PCs
        /\ UNCHANGED <<users, created, sent, proven, held, overlapped>>
    BY <1>5 DEF RedeemMagic, PCs
  <2>3. /\ l \in Link
        /\ pc' \in [Requests -> PCs] /\ loc' \in [Requests -> Locals]
        /\ pc'[r] = "magic" /\ loc'[r].link = l
        /\ \A q \in Requests \ {r} : pc'[q] = pc[q] /\ loc'[q] = loc[q]
    BY <2>1, <2>2, RedeemKeeps
  <2>4. Holds(r)' /\ Writing(r)'
    BY <2>3 DEF Holds, Writing
  <2>5. proven \subseteq UserId \X Emails
    BY DEF IInv, Tables, TablesTyped
  <2>6. Tables'
    BY <2>1, <2>2, <2>5, ReadingKeepsTables
  <2> QED
    BY <2>2, <2>3, <2>4, <2>6, ReadingStep
<1>6. CASE MagicVerify(r)
  <2> DEFINE e == loc[r].link.email
  <2>1. e \in Emails /\ UNCHANGED <<links, sent, overlapped>>
    BY <1>6 DEF MagicVerify, IInv, Holds, Link
  <2>2. ASSUME NEW u \in users, u.email = e, proven' = proven \cup {<<u.id, e>>},
               Continue(r, "setVerified", u), UNCHANGED <<users, created, held>>
        PROVE  IInv'
    <3>1. proven' \subseteq UserId \X Emails
      BY <2>1, <2>2 DEF IInv, Tables, TablesTyped, User
    <3> QED
      BY <1>2, <2>1, <2>2, <3>1
  <2>3. CASE CreateUser(e, TRUE) /\ proven' = proven \cup {<<created, e>>} /\ Return(r)
    <3>1. created \in UserId
      BY <2>3, EmailFlowsAssumption DEF CreateUser, IInv, Tables, TablesTyped, UserId
    <3>2. proven' \subseteq UserId \X Emails
      BY <2>1, <2>3, <3>1 DEF IInv, Tables, TablesTyped
    <3>3. /\ Tables' /\ held \subseteq held' /\ created' = created + 1
          /\ \A q \in Requests : pc[q] = "setVerified" =>
               \A v \in users' : v.id = loc[q].user.id =>
                 v.email = loc[q].user.email \/ v.id \in overlapped'
      <4> HIDE DEF e
      <4> QED
        BY <2>1, <2>3, <3>2, CreateUserKeeps
    <3>4. created <= created' /\ proven \subseteq proven'
      BY <2>3, <3>3 DEF IInv, Tables, TablesTyped
    <3> QED
      BY <2>3, <3>3, <3>4, ReturnKeeps, WritingStep DEF IInv
  <2> QED
    BY <1>6, <2>2, <2>3 DEF MagicVerify
<1> QED
  BY <1>1, <1>3, <1>4, <1>5, <1>6


\* Deleting an account, asking for the link that does, redeeming it, sending
\* a magic link, and giving up.
LEMMA OtherSteps ==
  ASSUME IInv, NEW r \in Requests,
         \/ \E e \in Emails : SendMagicLink(r, e)
         \/ DeleteUser(r)
         \/ SendDeleteAccountVerification(r)
         \/ RedeemDelete(r)
         \/ PerformDeleteUser(r)
         \/ Abandon(r)
  PROVE  IInv'
<1>1. ASSUME UNCHANGED <<pc, loc, users, created, held, proven, overlapped>>, Tables' PROVE IInv'
  BY <1>1 DEF IInv, Holds, Writing
<1>2. ASSUME NEW e \in Emails, SendMagicLink(r, e) PROVE IInv'
  <2>1. /\ Send("magic", NoId, e, e)
        /\ UNCHANGED <<pc, loc, users, created, held, proven, overlapped>>
    BY <1>2 DEF SendMagicLink
  <2> QED
    BY <1>1, <2>1, SendKeeps
<1>3. CASE SendDeleteAccountVerification(r)
  <2>1. PICK u \in users : Send("delete", u.id, u.email, u.email)
    BY <1>3 DEF SendDeleteAccountVerification
  <2>2. u.id \in UserId /\ u.email \in Emails
    BY DEF IInv, Tables, TablesTyped, User
  <2>3. UNCHANGED <<pc, loc, users, created, held, proven, overlapped>>
    BY <1>3 DEF SendDeleteAccountVerification
  <2>4. Tables'
    BY <2>1, <2>2, <2>3, SendKeeps
  <2> QED
    BY <1>1, <2>3, <2>4
<1>4. CASE DeleteUser(r)
  <2>1. /\ users' \subseteq users
        /\ UNCHANGED <<created, links, sent, pc, loc, proven, held, overlapped>>
    BY <1>4 DEF DeleteUser
  <2>2. Tables'
    BY <2>1, DeletionKeeps
  <2> QED
    BY <2>1, <2>2 DEF IInv, Holds, Writing
<1>5. CASE PerformDeleteUser(r)
  <2>1. /\ users' \subseteq users /\ Return(r)
        /\ UNCHANGED <<created, links, sent, proven, held, overlapped>>
    BY <1>5 DEF PerformDeleteUser
  <2>2. Tables'
    BY <2>1, DeletionKeeps
  <2>3. \A q \in Requests : pc[q] = "setVerified" =>
          \A v \in users' : v.id = loc[q].user.id =>
            v.email = loc[q].user.email \/ v.id \in overlapped'
    BY <2>1 DEF IInv, Writing
  <2>4. created <= created'
    BY <2>1 DEF IInv, Tables, TablesTyped
  <2> QED
    BY <2>1, <2>2, <2>3, <2>4, ReturnKeeps, WritingStep DEF IInv
<1>6. CASE RedeemDelete(r)
  <2>1. PICK l \in links : links' = links \ {l} /\ loc' = [loc EXCEPT ![r].link = l]
    BY <1>6 DEF RedeemDelete, ConsumeToken
  <2>2. Goto(r, "delete") /\ "delete" \in PCs
        /\ UNCHANGED <<users, created, sent, proven, held, overlapped>>
    BY <1>6 DEF RedeemDelete, PCs
  <2>3. /\ l \in Link
        /\ pc' \in [Requests -> PCs] /\ loc' \in [Requests -> Locals]
        /\ pc'[r] = "delete" /\ loc'[r].link = l
        /\ \A q \in Requests \ {r} : pc'[q] = pc[q] /\ loc'[q] = loc[q]
    BY <2>1, <2>2, RedeemKeeps
  <2>4. Holds(r)' /\ Writing(r)'
    BY <2>3 DEF Holds, Writing
  <2>5. proven \subseteq UserId \X Emails
    BY DEF IInv, Tables, TablesTyped
  <2>6. Tables'
    BY <2>1, <2>2, <2>5, ReadingKeepsTables
  <2> QED
    BY <2>2, <2>3, <2>4, <2>6, ReadingStep
<1>7. CASE Abandon(r)
  <2>1. Return(r) /\ UNCHANGED <<users, created, links, sent, proven, held, overlapped>>
    BY <1>7 DEF Abandon
  <2>2. proven \subseteq UserId \X Emails
    BY DEF IInv, Tables, TablesTyped
  <2>3. Tables'
    BY <2>1, <2>2, ReadingKeepsTables
  <2> QED
    BY <2>1, <2>3, ReturnKeeps, ReadingStep DEF IInv
<1> QED
  BY <1>2, <1>3, <1>4, <1>5, <1>6, <1>7

\* Every step keeps the invariant.
LEMMA NextIInv == IInv /\ [Next]_vars => IInv'
<1> SUFFICES ASSUME IInv, [Next]_vars PROVE IInv'
  OBVIOUS
<1>1. ASSUME NEW r \in Requests, RequestStep(r) PROVE IInv'
  BY <1>1, SignUpSteps, ChangeSteps, VerifySteps, OtherSteps DEF RequestStep
<1>2. CASE LinkExpires
  <2>1. /\ links' \subseteq links
        /\ UNCHANGED <<users, created, sent, pc, loc, proven, held, overlapped>>
        /\ proven \subseteq UserId \X Emails
    BY <1>2 DEF LinkExpires, IInv, Tables, TablesTyped
  <2>2. Tables'
    BY <2>1, ReadingKeepsTables
  <2> QED
    BY <2>1, <2>2 DEF IInv, Holds, Writing
<1>3. CASE UNCHANGED vars
  BY <1>3 DEF vars, IInv, Tables, TablesTyped, LinksSound, UsersHeld, ProvenUnlessOverlapped,
              Holds, Writing
<1> QED
  BY <1>1, <1>2, <1>3 DEF Next

-----------------------------------------------------------------------------
\* No two accounts ever share an address or an id, and every table, local and
\* history has its type, whatever the number of racing sign-ups and moves.
THEOREM TypeCorrect == Spec => []TypeOK
  BY InitIInv, NextIInv, IInvTypeOK, PTL DEF Spec

\* A verified address was proven for this very account, unless the account
\* was moved between performVerifyEmail's read and its write.
THEOREM ProvenHolds == Spec => []ProvenUnlessOverlapped
<1>1. IInv => ProvenUnlessOverlapped
  BY DEF IInv, Tables
<1> QED
  BY <1>1, InitIInv, NextIInv, PTL DEF Spec


-----------------------------------------------------------------------------
\* The two ways out of a verified address, as MovesNeedApproval states them.
LeavesProperly(u) ==
  \E r \in Requests :
    \/ /\ pc[r] = "approve" /\ pc'[r] # "approve"
       /\ loc[r].link.user = u.id /\ <<u.id, loc[r].link.sentTo>> \in held
    \/ /\ pc[r] = "changeEmail" /\ pc'[r] # "changeEmail"
       /\ loc[r].user.id = u.id /\ ~loc[r].user.verified

\* A step that is neither handler's move leaves every address where it was.
LEMMA OnlyMovesMove ==
  ASSUME IInv, [Next]_vars, NEW u \in users, Moved(u)
  PROVE  \E r \in Requests : ChangeUnverified(r) \/ ApproveChange(r)
<1> SUFFICES ASSUME \A r \in Requests : ~ChangeUnverified(r) /\ ~ApproveChange(r)
             PROVE  FALSE
  OBVIOUS
<1>1. \A v \in users : v.id = u.id => v.email = u.email
  BY DEF IInv, Tables, TablesTyped
<1>2. users' \subseteq users => FALSE
  BY <1>1 DEF Moved
<1>3. ASSUME NEW e, NEW verified, CreateUser(e, verified) PROVE FALSE
  <2>1. u.id # created
    BY DEF IInv, Tables, TablesTyped, User, UserId
  <2> QED
    BY <1>1, <1>3, <2>1 DEF CreateUser, Moved
<1>4. ASSUME NEW r \in Requests, SetVerified(r) PROVE FALSE
  <2>1. PICK v \in users : users' = (users \ {v}) \cup {[v EXCEPT !.verified = TRUE]}
    BY <1>4 DEF SetVerified
  <2>2. [v EXCEPT !.verified = TRUE].id = v.id /\ [v EXCEPT !.verified = TRUE].email = v.email
    BY DEF IInv, Tables, TablesTyped, User
  <2> QED
    BY <1>1, <2>1, <2>2 DEF Moved
<1>5. ASSUME NEW r \in Requests, SignUpCreate(r) \/ MagicVerify(r) PROVE FALSE
  BY <1>2, <1>3, <1>5 DEF SignUpCreate, MagicVerify
<1>6. ASSUME NEW r \in Requests, NEW e \in Emails,
             \/ SignUpEmail(r, e) \/ HandleSendVerificationEmail(r, e)
             \/ ChangeEmail(r, e) \/ SendMagicLink(r, e)
      PROVE  FALSE
  BY <1>2, <1>6 DEF SignUpEmail, HandleSendVerificationEmail, ChangeEmail, SendMagicLink
<1>7. ASSUME NEW r \in Requests,
             \/ SendVerificationEmail(r) \/ SendChangeEmailVerification(r)
             \/ RedeemChange(r) \/ RedeemVerify(r) \/ VerifyEmail(r) \/ RedeemMagic(r)
      PROVE  FALSE
  BY <1>2, <1>7 DEF SendVerificationEmail, SendChangeEmailVerification, RedeemChange,
                    RedeemVerify, VerifyEmail, RedeemMagic
<1>8. ASSUME NEW r \in Requests,
             \/ DeleteUser(r) \/ SendDeleteAccountVerification(r)
             \/ RedeemDelete(r) \/ PerformDeleteUser(r) \/ Abandon(r)
      PROVE  FALSE
  BY <1>2, <1>8 DEF DeleteUser, SendDeleteAccountVerification, RedeemDelete,
                    PerformDeleteUser, Abandon
<1>9. LinkExpires \/ UNCHANGED vars => FALSE
  BY <1>2 DEF LinkExpires, vars
<1> QED
  BY <1>4, <1>5, <1>6, <1>7, <1>8, <1>9 DEF Next, RequestStep

\* Either move is made with what the invariant says the request holds.
LEMMA MovesAreProper ==
  ASSUME IInv, [Next]_vars, NEW u \in users, Moved(u)
  PROVE  LeavesProperly(u)
<1>1. PICK r \in Requests : ChangeUnverified(r) \/ ApproveChange(r)
  BY OnlyMovesMove
<1>2. PICK v \in users, e \in Emails :
        /\ MoveTo(v, e)
        /\ \/ pc[r] = "changeEmail" /\ v.id = loc[r].user.id /\ ~loc[r].user.verified
           \/ pc[r] = "approve" /\ v.id = loc[r].link.user
        /\ Continue(r, "sendVerify", [v EXCEPT !.email = e, !.verified = FALSE])
  BY <1>1 DEF ChangeUnverified, ApproveChange, IInv, Holds, Link
<1>3. v.id = u.id
  <2>1. [v EXCEPT !.email = e, !.verified = FALSE].id = v.id
    BY DEF IInv, Tables, TablesTyped, User
  <2> QED
    BY <1>2, <2>1 DEF MoveTo, Moved, IInv, Tables, TablesTyped
<1>4. pc'[r] = "sendVerify"
  BY <1>2 DEF Continue, Goto, IInv
<1>5. pc[r] = "approve" => <<loc[r].link.user, loc[r].link.sentTo>> \in held
  BY DEF IInv, Holds
<1> QED
  BY <1>2, <1>3, <1>4, <1>5 DEF LeavesProperly

\* An account leaves a verified address only by an approval mailed to an
\* address verified on it, or in a request that read it before it was.
THEOREM MovesApproved == Spec => MovesNeedApproval
<1>1. IInv /\ [Next]_vars => [\A u \in users : u.verified /\ Moved(u) => LeavesProperly(u)]_vars
  BY MovesAreProper
<1>2. Spec => [][\A u \in users : u.verified /\ Moved(u) => LeavesProperly(u)]_vars
  BY <1>1, InitIInv, NextIInv, PTL DEF Spec
<1> QED
  BY <1>2 DEF MovesNeedApproval, LeavesProperly

=============================================================================
