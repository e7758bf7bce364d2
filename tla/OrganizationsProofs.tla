------------------------- MODULE OrganizationsProofs -------------------------
(***************************************************************************)
(* Proofs about Organizations, for any number of requests, users, rows and *)
(* limits: type correctness, AcceptedOnce, JoinsWithinLimit and            *)
(* LeaveKeepsAnOwner.                                                      *)
(***************************************************************************)
EXTENDS Organizations, FiniteSetTheorems, TLAPS

\* The tables and the ids drawn for them.
OrgsOK(table, last) ==
  /\ table \subseteq Organization
  /\ \A a, b \in table : a.id = b.id \/ a.slug = b.slug => a = b
  /\ \A o \in table : o.id < last

MembersOK(table, last) ==
  /\ table \subseteq Member /\ IsFiniteSet(table)
  /\ \A a, b \in table : a.id = b.id \/ (a.org = b.org /\ a.user = b.user) => a = b
  /\ \A m \in table : m.id < last

InvitationsOK(table, last) ==
  /\ table \subseteq Invitation
  /\ \A a, b \in table : a.id = b.id => a = b
  /\ \A i \in table : i.id < last

Drawn == [orgs : 0 .. MaxOrgs, members : 0 .. MaxRows, invitations : 0 .. MaxInvitations]

Inv_Rows ==
  /\ OrgsOK(orgs, drawn.orgs)
  /\ MembersOK(members, drawn.members)
  /\ InvitationsOK(invitations, drawn.invitations)

\* The values a request has read are the kind its next write takes.
Supported(r) ==
  /\ pc[r] = "createOrg" => loc[r].user \in Users /\ loc[r].slug \in Slugs
  /\ pc[r] = "createMember" => loc[r].user \in Users /\ loc[r].org \in OrgId
  /\ pc[r] = "update" => loc[r].slug \in Slugs
  /\ pc[r] \in {"invite", "claim", "join", "handBack"} =>
       loc[r].org \in OrgId /\ loc[r].user \in Users
  /\ pc[r] \in {"invite", "resend", "claim", "join", "handBack"} =>
       loc[r].role \in Roles \ {"owner"}
  /\ pc[r] \in {"claim", "join", "handBack"} =>
       loc[r].id \in InvId /\ loc[r].id < drawn.invitations
  /\ pc[r] = "setRole" => loc[r].role \in Roles

Inv_Requests == \A r \in Requests : Supported(r)

\* A request at one of these labels has moved its invitation out of pending.
Claimed(r) == pc[r] \in {"join", "handBack"}

\* The right to accept an invitation is in one place at most: with the pending
\* row, or with the one request that claimed it, or spent.
Inv_OneClaim ==
  /\ AcceptedOnce
  /\ \A i \in InvId : i >= drawn.invitations => joined[i] = 0
  /\ \A i \in invitations : i.pending => joined[i.id] = 0
  /\ \A r \in Requests :
       Claimed(r) => /\ joined[loc[r].id] = 0
                     /\ \A i \in invitations : i.id = loc[r].id => ~i.pending
  /\ \A q, r \in Requests : Claimed(q) /\ Claimed(r) /\ loc[q].id = loc[r].id => q = r

\* What a request counted is still so, unless it was overtaken.
Counted(r) ==
  r \notin overtaken =>
    /\ pc[r] \in {"claim", "join"} => Cardinality(MembersOf(loc[r].org)) < MembershipLimit
    /\ pc[r] = "leave" /\ loc[r].role = "owner" =>
         \E m \in Owners(loc[r].org) : m.id # loc[r].id

Inv_Counted == \A r \in Requests : Counted(r)

\* The inductive invariant.
IInv == TypeOK /\ Inv_Rows /\ Inv_Requests /\ Inv_OneClaim /\ Inv_Counted

\* What the assumption says of each constant.
LEMMA Constants ==
  /\ BodyRoles \subseteq Roles
  /\ MembershipLimit \in Nat /\ MembershipLimit > 0
  /\ MaxOrgs \in Nat /\ MaxRows \in Nat /\ MaxInvitations \in Nat
BY OrganizationsAssumption DEF OrganizationsAssumption, Roles

LEMMA NoLocalsType == NoLocals \in Locals
BY Constants DEF NoLocals, Locals

\* Request r goes on at label with these locals, the others stay.
Moves(r, label, locals) ==
  pc' = [pc EXCEPT ![r] = label] /\ loc' = [loc EXCEPT ![r] = locals]

LEMMA MovesType ==
  ASSUME NEW r \in Requests, NEW label \in PCs, NEW locals \in Locals,
         pc \in [Requests -> PCs], loc \in [Requests -> Locals], Moves(r, label, locals)
  PROVE  /\ pc' \in [Requests -> PCs] /\ loc' \in [Requests -> Locals]
         /\ pc'[r] = label /\ loc'[r] = locals
         /\ \A q \in Requests \ {r} : pc'[q] = pc[q] /\ loc'[q] = loc[q]
<1> HIDE DEF Locals
<1> QED
  BY DEF Moves

LEMMA Numbers ==
  ASSUME IInv
  PROVE  /\ drawn \in Drawn
         /\ drawn.orgs \in Nat /\ drawn.members \in Nat /\ drawn.invitations \in Nat
BY Constants DEF IInv, TypeOK, Drawn

\* The other requests noted as overtaken are at least those that counted
\* members before the member table changed.
Notes(r) ==
  /\ overtaken' \subseteq Requests
  /\ \A q \in Requests \ {r} : q \in overtaken => q \in overtaken'
  /\ members' # members =>
       \A q \in Requests \ {r} : pc[q] \in {"leave", "claim", "join"} => q \in overtaken'

\* A step of request r: what it did to the tables and to its own locals is
\* shown apart, the other requests are as they were.
LEMMA Step ==
  ASSUME IInv, NEW r \in Requests, NEW label \in PCs, NEW locals \in Locals,
         Moves(r, label, locals), Notes(r),
         drawn' \in Drawn, drawn'.invitations \in Nat, drawn.invitations <= drawn'.invitations,
         OrgsOK(orgs', drawn'.orgs), MembersOK(members', drawn'.members),
         InvitationsOK(invitations', drawn'.invitations), joined' \in [InvId -> Nat],
         Supported(r)', Inv_OneClaim', Counted(r)'
  PROVE  IInv'
<1>1. /\ pc' \in [Requests -> PCs] /\ loc' \in [Requests -> Locals]
      /\ \A q \in Requests \ {r} : pc'[q] = pc[q] /\ loc'[q] = loc[q]
  BY MovesType DEF IInv, TypeOK
<1>2. TypeOK'
  BY <1>1 DEF IInv, TypeOK, OrgsOK, MembersOK, InvitationsOK, Drawn, Notes
<1>3. Inv_Rows'
  BY DEF Inv_Rows
<1>4. Inv_Requests'
  <2> SUFFICES ASSUME NEW q \in Requests, q # r PROVE Supported(q)'
    BY DEF Inv_Requests
  <2>1. Supported(q) /\ pc'[q] = pc[q] /\ loc'[q] = loc[q] /\ drawn.invitations \in Nat
    BY <1>1, Numbers DEF IInv, Inv_Requests
  <2>2. loc[q].id \in InvId /\ loc[q].id < drawn.invitations => loc[q].id < drawn'.invitations
    BY <2>1, Constants DEF InvId
  <2> QED
    BY <2>1, <2>2 DEF Supported
<1>5. Inv_Counted'
  <2> SUFFICES ASSUME NEW q \in Requests, q # r, q \notin overtaken' PROVE Counted(q)'
    BY DEF Inv_Counted, Counted
  <2>1. Counted(q) /\ pc'[q] = pc[q] /\ loc'[q] = loc[q] /\ q \notin overtaken
    BY <1>1 DEF IInv, Inv_Counted, Notes
  <2>2. CASE members' = members
    BY <2>1, <2>2 DEF Counted, MembersOf, Owners
  <2>3. CASE members' # members
    BY <2>1, <2>3 DEF Counted, Notes
  <2> QED
    BY <2>2, <2>3
<1> QED
  BY <1>2, <1>3, <1>4, <1>5 DEF IInv

\* The claims are unchanged when invitations and acceptances are, and the
\* request keeps its claim or has none.
LEMMA ClaimKept ==
  ASSUME IInv, NEW r \in Requests, NEW label \in PCs, NEW locals \in Locals,
         Moves(r, label, locals),
         label \in {"join", "handBack"} => Claimed(r) /\ locals.id = loc[r].id,
         UNCHANGED <<invitations, joined>>, drawn'.invitations = drawn.invitations
  PROVE  Inv_OneClaim'
<1>1. /\ pc'[r] = label /\ loc'[r] = locals
      /\ \A q \in Requests \ {r} : pc'[q] = pc[q] /\ loc'[q] = loc[q]
  BY MovesType DEF IInv, TypeOK
<1>2. \A q \in Requests : Claimed(q)' => Claimed(q) /\ loc'[q].id = loc[q].id
  BY <1>1 DEF Claimed
<1> QED
  BY <1>2 DEF IInv, Inv_OneClaim, AcceptedOnce

\* A step that writes at most organizations.
LEMMA ReadStep ==
  ASSUME IInv, NEW r \in Requests, NEW label \in PCs \ {"join", "handBack"}, NEW locals \in Locals,
         Moves(r, label, locals), overtaken' \subseteq Requests,
         \A q \in Requests \ {r} : q \in overtaken => q \in overtaken',
         UNCHANGED <<members, invitations, joined>>, drawn' \in Drawn,
         drawn'.members = drawn.members, drawn'.invitations = drawn.invitations,
         OrgsOK(orgs', drawn'.orgs),
         Supported(r)', Counted(r)'
  PROVE  IInv'
<1>1. Inv_OneClaim' /\ Notes(r)
  BY ClaimKept DEF Notes
<1>2. /\ MembersOK(members', drawn'.members) /\ InvitationsOK(invitations', drawn'.invitations)
      /\ drawn'.invitations \in Nat /\ drawn.invitations <= drawn'.invitations
  BY Numbers DEF IInv, Inv_Rows
<1>3. joined' \in [InvId -> Nat]
  BY DEF IInv, TypeOK
<1> QED
  BY <1>1, <1>2, <1>3, Step

\* The heads of the handlers read and begin.
LEMMA BeginStep ==
  ASSUME IInv, NEW r \in Requests, NEW label \in PCs \ {"join", "handBack"}, NEW locals \in Locals,
         Begin(r, label, locals), UNCHANGED <<orgs, members, invitations, drawn, joined>>,
         Supported(r)', Counted(r)'
  PROVE  IInv'
BY ReadStep, Numbers DEF Begin, Moves, IInv, TypeOK, Inv_Rows

\* A request that returns has read nothing and counted nothing.
LEMMA ReturnMoves ==
  ASSUME IInv, NEW r \in Requests, Return(r)
  PROVE  /\ Moves(r, "idle", NoLocals) /\ NoLocals \in Locals
         /\ "idle" \in PCs \ {"join", "handBack"}
         /\ Supported(r)' /\ Counted(r)'
<1>1. Moves(r, "idle", NoLocals) /\ "idle" \in PCs
  BY DEF Return, Moves, PCs
<1>2. pc'[r] = "idle"
  BY <1>1, NoLocalsType, MovesType DEF IInv, TypeOK
<1> QED
  BY <1>1, <1>2, NoLocalsType DEF Supported, Counted

\* Initially every table is empty.
LEMMA InitInv == Init => IInv
<1> SUFFICES ASSUME Init PROVE IInv
  OBVIOUS
<1>1. TypeOK
  <2>1. loc \in [Requests -> Locals] /\ pc \in [Requests -> PCs]
    BY NoLocalsType DEF Init, PCs
  <2>2. drawn \in Drawn /\ joined \in [InvId -> Nat]
    BY Constants DEF Init, Drawn
  <2> QED
    BY <2>1, <2>2 DEF Init, TypeOK, Drawn
<1>2. Inv_Rows
  BY FS_EmptySet DEF Init, Inv_Rows, OrgsOK, MembersOK, InvitationsOK
<1>3. Inv_Requests /\ Inv_Counted
  BY DEF Init, Inv_Requests, Supported, Inv_Counted, Counted
<1>4. Inv_OneClaim
  BY DEF Init, Inv_OneClaim, AcceptedOnce, Claimed
<1> QED
  BY <1>1, <1>2, <1>3, <1>4 DEF IInv

-----------------------------------------------------------------------------
(* The heads of the handlers *)

\* Where a handler goes that begins.
LEMMA BeginMoves ==
  ASSUME IInv, NEW r \in Requests, NEW label \in PCs, NEW locals \in Locals,
         Begin(r, label, locals)
  PROVE  pc'[r] = label /\ loc'[r] = locals
BY MovesType DEF Begin, Moves, IInv, TypeOK

LEMMA CreateInv ==
  ASSUME IInv, NEW r \in Requests, NEW u \in Users, NEW s \in Slugs, Create(r, u, s)
  PROVE  IInv'
<1> DEFINE locals == [NoLocals EXCEPT !.user = u, !.slug = s]
<1>1. locals \in Locals /\ locals.user = u /\ locals.slug = s
  BY NoLocalsType DEF Locals, NoLocals
<1>2. Begin(r, "createOrg", locals) /\ UNCHANGED <<orgs, members, invitations, drawn, joined>>
      /\ "createOrg" \in PCs \ {"join", "handBack"}
  BY DEF Create, PCs
<1> HIDE DEF locals
<1>3. Supported(r)' /\ Counted(r)'
  BY <1>1, <1>2, BeginMoves DEF Supported, Counted
<1> QED
  BY <1>1, <1>2, <1>3, BeginStep

LEMMA UpdateInv ==
  ASSUME IInv, NEW r \in Requests, NEW o \in OrgId, NEW u \in Users, NEW s \in Slugs, Update(r, o, u, s)
  PROVE  IInv'
<1> DEFINE locals == [NoLocals EXCEPT !.org = o, !.slug = s]
<1>0. o \in 0 .. MaxOrgs
  BY Constants DEF OrgId
<1>1. locals \in Locals /\ locals.org = o /\ locals.slug = s
  BY <1>0, NoLocalsType DEF Locals, NoLocals
<1>2. Begin(r, "update", locals) /\ UNCHANGED <<orgs, members, invitations, drawn, joined>>
      /\ "update" \in PCs \ {"join", "handBack"}
  BY DEF Update, PCs
<1> HIDE DEF locals
<1>3. Supported(r)' /\ Counted(r)'
  BY <1>1, <1>2, BeginMoves DEF Supported, Counted
<1> QED
  BY <1>1, <1>2, <1>3, BeginStep

LEMMA HandleDeleteInv ==
  ASSUME IInv, NEW r \in Requests, NEW o \in OrgId, NEW u \in Users, HandleDelete(r, o, u)
  PROVE  IInv'
<1> DEFINE locals == [NoLocals EXCEPT !.org = o]
<1>1. locals \in Locals
  BY NoLocalsType, Constants DEF Locals, NoLocals, OrgId
<1>2. Begin(r, "deleteMembers", locals) /\ UNCHANGED <<orgs, members, invitations, drawn, joined>>
      /\ "deleteMembers" \in PCs \ {"join", "handBack"}
  BY DEF HandleDelete, PCs
<1> HIDE DEF locals
<1>3. Supported(r)' /\ Counted(r)'
  BY <1>1, <1>2, BeginMoves DEF Supported, Counted
<1> QED
  BY <1>1, <1>2, <1>3, BeginStep

LEMMA InviteInv ==
  ASSUME IInv, NEW r \in Requests, NEW o \in OrgId, NEW u \in Users, NEW to \in Users,
         NEW role \in BodyRoles \ {"owner"}, Invite(r, o, u, to, role)
  PROVE  IInv'
<1> DEFINE locals == [NoLocals EXCEPT !.org = o, !.user = to, !.role = role]
<1>1. role \in Roles \ {"owner"} /\ o \in 0 .. MaxOrgs
  BY Constants DEF OrgId
<1>2. locals \in Locals /\ locals.org = o /\ locals.user = to /\ locals.role = role
  BY <1>1, NoLocalsType DEF Locals, NoLocals
<1>3. Begin(r, "invite", locals) /\ UNCHANGED <<orgs, members, invitations, drawn, joined>>
      /\ "invite" \in PCs \ {"join", "handBack"}
  BY DEF Invite, PCs
<1> HIDE DEF locals
<1>4. Supported(r)' /\ Counted(r)'
  BY <1>1, <1>2, <1>3, BeginMoves DEF Supported, Counted
<1> QED
  BY <1>2, <1>3, <1>4, BeginStep

LEMMA ResendInv ==
  ASSUME IInv, NEW r \in Requests, NEW o \in OrgId, NEW u \in Users, NEW to \in Users,
         NEW role \in BodyRoles \ {"owner"}, Resend(r, o, u, to, role)
  PROVE  IInv'
<1>1. PICK i \in invitations : Begin(r, "resend", [NoLocals EXCEPT !.id = i.id, !.role = role])
  BY DEF Resend, Pending
<1> DEFINE locals == [NoLocals EXCEPT !.id = i.id, !.role = role]
<1>2. role \in Roles \ {"owner"} /\ i.id \in Nat
  BY Constants DEF IInv, Inv_Rows, InvitationsOK, Invitation, InvId
<1>3. locals \in Locals /\ locals.role = role
  BY <1>2, NoLocalsType DEF Locals, NoLocals
<1>4. Begin(r, "resend", locals) /\ UNCHANGED <<orgs, members, invitations, drawn, joined>>
      /\ "resend" \in PCs \ {"join", "handBack"}
  BY <1>1 DEF Resend, PCs
<1> HIDE DEF locals
<1>5. Supported(r)' /\ Counted(r)'
  BY <1>2, <1>3, <1>4, BeginMoves DEF Supported, Counted
<1> QED
  BY <1>3, <1>4, <1>5, BeginStep

LEMMA AcceptInvitationInv ==
  ASSUME IInv, NEW r \in Requests, AcceptInvitation(r)
  PROVE  IInv'
<1>1. PICK i \in invitations :
        /\ Cardinality(MembersOf(i.org)) < MembershipLimit
        /\ Begin(r, "claim", [NoLocals EXCEPT !.org = i.org, !.user = i.user,
                                              !.role = i.role, !.id = i.id])
  BY DEF AcceptInvitation
<1> DEFINE locals == [NoLocals EXCEPT !.org = i.org, !.user = i.user, !.role = i.role, !.id = i.id]
<1>2. i \in Invitation /\ i.id < drawn.invitations
  BY DEF IInv, Inv_Rows, InvitationsOK
<1>3. /\ i.org \in OrgId /\ i.org \in 0 .. MaxOrgs /\ i.user \in Users
      /\ i.role \in Roles \ {"owner"} /\ i.id \in InvId /\ i.id \in Nat
  BY <1>2, Constants DEF Invitation, OrgId, InvId
<1>4. /\ locals \in Locals /\ locals.org = i.org /\ locals.user = i.user
      /\ locals.role = i.role /\ locals.id = i.id
  BY <1>3, NoLocalsType DEF Locals, NoLocals
<1>5. Begin(r, "claim", locals) /\ UNCHANGED <<orgs, members, invitations, drawn, joined>>
      /\ "claim" \in PCs \ {"join", "handBack"}
  BY <1>1 DEF AcceptInvitation, PCs
<1> HIDE DEF locals
<1>6. pc'[r] = "claim" /\ loc'[r] = locals
  BY <1>4, <1>5, BeginMoves
<1>7. Supported(r)'
  BY <1>2, <1>3, <1>4, <1>5, <1>6 DEF Supported
<1>8. Counted(r)'
  BY <1>1, <1>4, <1>5, <1>6 DEF Counted, MembersOf
<1> QED
  BY <1>4, <1>5, <1>7, <1>8, BeginStep

\* Refusals, cancellations, removals and role changes keep an id, and a role.
LEMMA ByIdInv ==
  ASSUME IInv, NEW r \in Requests, NEW label \in {"end", "remove", "setRole"},
         NEW locals \in Locals, label = "setRole" => locals.role \in Roles,
         Begin(r, label, locals), UNCHANGED <<orgs, members, invitations, drawn, joined>>
  PROVE  IInv'
<1>1. label \in PCs \ {"join", "handBack"}
  BY DEF PCs
<1>2. Supported(r)' /\ Counted(r)'
  BY <1>1, BeginMoves DEF Supported, Counted
<1> QED
  BY <1>1, <1>2, BeginStep

\* Rows are found by their ids, which are numbers.
LEMMA Ids ==
  ASSUME IInv
  PROVE  /\ \A m \in members : m.id \in Nat /\ m.role \in Roles
         /\ \A i \in invitations : i.id \in Nat
BY Constants DEF IInv, Inv_Rows, MembersOK, InvitationsOK, Member, Invitation, InvId

LEMMA EndsInv ==
  ASSUME IInv, NEW r \in Requests,
         RejectInvitation(r) \/ \E u \in Users : CancelInvitation(r, u)
  PROVE  IInv'
<1>1. PICK i \in invitations : Begin(r, "end", [NoLocals EXCEPT !.id = i.id])
  BY DEF RejectInvitation, CancelInvitation
<1>2. [NoLocals EXCEPT !.id = i.id] \in Locals
  BY Ids, NoLocalsType DEF Locals, NoLocals
<1> QED
  BY <1>1, <1>2, ByIdInv DEF RejectInvitation, CancelInvitation

LEMMA RemoveMemberInv ==
  ASSUME IInv, NEW r \in Requests, NEW o \in OrgId, NEW u \in Users, RemoveMember(r, o, u)
  PROVE  IInv'
<1>1. PICK m \in members : Begin(r, "remove", [NoLocals EXCEPT !.id = m.id])
  BY DEF RemoveMember, MembersOf
<1>2. [NoLocals EXCEPT !.id = m.id] \in Locals
  BY Ids, NoLocalsType DEF Locals, NoLocals
<1> QED
  BY <1>1, <1>2, ByIdInv DEF RemoveMember

LEMMA UpdateMemberRoleInv ==
  ASSUME IInv, NEW r \in Requests, NEW o \in OrgId, NEW u \in Users, NEW role \in BodyRoles,
         UpdateMemberRole(r, o, u, role)
  PROVE  IInv'
<1>1. PICK m \in members : Begin(r, "setRole", [NoLocals EXCEPT !.id = m.id, !.role = role])
  BY DEF UpdateMemberRole, MembersOf
<1> DEFINE locals == [NoLocals EXCEPT !.id = m.id, !.role = role]
<1>2. role \in Roles
  BY Constants
<1>3. locals \in Locals /\ locals.role = role
  BY <1>2, Ids, NoLocalsType DEF Locals, NoLocals
<1> HIDE DEF locals
<1> QED
  BY <1>1, <1>2, <1>3, ByIdInv DEF UpdateMemberRole, locals

\* Of two owners one is another than the one who leaves.
LEMMA AnotherOwner ==
  ASSUME IInv, NEW o, NEW m \in Owners(o), Cardinality(Owners(o)) > 1
  PROVE  \E other \in Owners(o) : other.id # m.id
<1> SUFFICES ASSUME \A other \in Owners(o) : other.id = m.id PROVE FALSE
  OBVIOUS
<1>1. Owners(o) = {m}
  BY DEF Owners, MembersOf, IInv, Inv_Rows, MembersOK
<1>2. Cardinality({m}) = 1
  BY FS_Singleton
<1> QED
  BY <1>1, <1>2

LEMMA LeaveInv ==
  ASSUME IInv, NEW r \in Requests, NEW o \in OrgId, NEW u \in Users, Leave(r, o, u)
  PROVE  IInv'
<1>1. PICK m \in Membership(o, u) :
        /\ m.role = "owner" => Cardinality(Owners(o)) > 1
        /\ Begin(r, "leave", [NoLocals EXCEPT !.org = o, !.id = m.id, !.role = m.role])
  BY DEF Leave
<1> DEFINE locals == [NoLocals EXCEPT !.org = o, !.id = m.id, !.role = m.role]
<1>2. m \in members /\ m.org = o /\ m.id \in Nat /\ m.role \in Roles /\ o \in 0 .. MaxOrgs
  BY <1>1, Ids, Constants DEF Membership, MembersOf, OrgId
<1>3. locals \in Locals /\ locals.org = o /\ locals.id = m.id /\ locals.role = m.role
  BY <1>2, NoLocalsType DEF Locals, NoLocals
<1>4. Begin(r, "leave", locals) /\ UNCHANGED <<orgs, members, invitations, drawn, joined>>
      /\ "leave" \in PCs \ {"join", "handBack"}
  BY <1>1 DEF Leave, PCs
<1> HIDE DEF locals
<1>5. pc'[r] = "leave" /\ loc'[r] = locals
  BY <1>3, <1>4, BeginMoves
<1>6. m.role = "owner" => \E other \in Owners(o) : other.id # m.id
  BY <1>1, <1>2, AnotherOwner DEF Owners, MembersOf
<1>7. Supported(r)' /\ Counted(r)'
  BY <1>3, <1>4, <1>5, <1>6 DEF Supported, Counted, Owners, MembersOf
<1> QED
  BY <1>3, <1>4, <1>7, BeginStep

-----------------------------------------------------------------------------
(* The writes to organizations *)

LEMMA CreateOrganizationInv ==
  ASSUME IInv, NEW r \in Requests, CreateOrganization(r)
  PROVE  IInv'
<1> DEFINE new == [id |-> drawn.orgs, slug |-> loc[r].slug]
           locals == [loc[r] EXCEPT !.org = drawn.orgs]
<1>1. /\ loc[r] \in Locals /\ loc[r].user \in Users /\ loc[r].slug \in Slugs
      /\ drawn.orgs \in OrgId /\ drawn.orgs \in 0 .. MaxOrgs /\ drawn.orgs + 1 \in 0 .. MaxOrgs
  BY Numbers, Constants DEF CreateOrganization, IInv, TypeOK, Inv_Requests, Supported, OrgId
<1>2. new \in Organization /\ new.id = drawn.orgs /\ new.slug = loc[r].slug
  BY <1>1 DEF Organization
<1>3. locals \in Locals /\ locals.org = drawn.orgs /\ locals.user = loc[r].user
  BY <1>1 DEF Locals
<1>4. /\ drawn' \in Drawn /\ drawn'.orgs = drawn.orgs + 1
      /\ drawn'.members = drawn.members /\ drawn'.invitations = drawn.invitations
  BY <1>1, Numbers DEF CreateOrganization, Drawn
<1>5. /\ orgs' = orgs \cup {new} /\ \A o \in orgs : o.slug # new.slug
      /\ Moves(r, "createMember", locals) /\ "createMember" \in PCs \ {"join", "handBack"}
      /\ UNCHANGED <<members, invitations, joined, overtaken>>
  BY <1>2 DEF CreateOrganization, Moves, PCs, IInv, TypeOK
<1> HIDE DEF new, locals
<1>6. \A o \in orgs : o.id \in Nat /\ o.id < drawn.orgs
  BY Constants DEF IInv, Inv_Rows, OrgsOK, Organization, OrgId
<1>7. OrgsOK(orgs', drawn'.orgs)
  BY <1>2, <1>4, <1>5, <1>6, Numbers DEF IInv, Inv_Rows, OrgsOK
<1>8. pc'[r] = "createMember" /\ loc'[r] = locals
  BY <1>3, <1>5, MovesType DEF IInv, TypeOK
<1>9. Supported(r)' /\ Counted(r)'
  BY <1>1, <1>3, <1>8 DEF Supported, Counted
<1>10. overtaken' \subseteq Requests
  BY <1>5 DEF IInv, TypeOK
<1> QED
  BY <1>3, <1>4, <1>5, <1>7, <1>9, <1>10, ReadStep

LEMMA UpdateSlugInv ==
  ASSUME IInv, NEW r \in Requests, UpdateSlug(r)
  PROVE  IInv'
<1> DEFINE new(o) == [o EXCEPT !.slug = loc[r].slug]
<1>1. loc[r].slug \in Slugs
  BY DEF UpdateSlug, IInv, Inv_Requests, Supported
<1>2. \A o \in orgs : new(o) \in Organization /\ new(o).id = o.id /\ new(o).slug = loc[r].slug
  BY <1>1 DEF IInv, Inv_Rows, OrgsOK, Organization
<1>3. /\ orgs' = {IF o.id = loc[r].org THEN new(o) ELSE o : o \in orgs}
      /\ \A other \in orgs : other.slug = loc[r].slug => other.id = loc[r].org
      /\ Return(r) /\ UNCHANGED <<members, invitations, drawn, joined, overtaken>>
  BY DEF UpdateSlug
<1> HIDE DEF new
<1>4. OrgsOK(orgs', drawn'.orgs)
  <2>1. ASSUME NEW x \in orgs'
        PROVE  \E o \in orgs : /\ x.id = o.id /\ x \in Organization
                               /\ IF o.id = loc[r].org THEN x = new(o) ELSE x = o
    BY <1>2, <1>3 DEF IInv, Inv_Rows, OrgsOK
  <2>2. ASSUME NEW a \in orgs', NEW b \in orgs', a.id = b.id \/ a.slug = b.slug
        PROVE  a = b
    <3>1. PICK o \in orgs : a.id = o.id /\ IF o.id = loc[r].org THEN a = new(o) ELSE a = o
      BY <2>1
    <3>2. PICK q \in orgs : b.id = q.id /\ IF q.id = loc[r].org THEN b = new(q) ELSE b = q
      BY <2>1
    <3>3. o.id = q.id
      BY <1>2, <1>3, <2>2, <3>1, <3>2 DEF IInv, Inv_Rows, OrgsOK
    <3> QED
      BY <3>1, <3>2, <3>3 DEF IInv, Inv_Rows, OrgsOK
  <2> QED
    BY <1>3, <2>1, <2>2 DEF IInv, Inv_Rows, OrgsOK
<1>5. overtaken' \subseteq Requests /\ drawn' \in Drawn
  BY <1>3, Numbers DEF IInv, TypeOK
<1> QED
  BY <1>3, <1>4, <1>5, ReturnMoves, ReadStep

LEMMA DeleteOrganizationInv ==
  ASSUME IInv, NEW r \in Requests, DeleteOrganization(r)
  PROVE  IInv'
<1>1. orgs' \subseteq orgs /\ Return(r) /\ UNCHANGED <<members, invitations, drawn, joined, overtaken>>
  BY DEF DeleteOrganization
<1>2. OrgsOK(orgs', drawn'.orgs)
  BY <1>1 DEF IInv, Inv_Rows, OrgsOK
<1>3. overtaken' \subseteq Requests /\ drawn' \in Drawn
  BY <1>1, Numbers DEF IInv, TypeOK
<1> QED
  BY <1>1, <1>2, <1>3, ReturnMoves, ReadStep

LEMMA AbandonInv ==
  ASSUME IInv, NEW r \in Requests, Abandon(r)
  PROVE  IInv'
<1>1. Return(r) /\ UNCHANGED <<orgs, members, invitations, drawn, joined, overtaken>>
  BY DEF Abandon
<1>2. overtaken' \subseteq Requests /\ drawn' \in Drawn /\ OrgsOK(orgs', drawn'.orgs)
  BY <1>1, Numbers DEF IInv, TypeOK, Inv_Rows
<1> QED
  BY <1>1, <1>2, ReturnMoves, ReadStep

-----------------------------------------------------------------------------
(* The writes to members *)

LEMMA WriteMembersNotes ==
  ASSUME IInv, NEW r \in Requests, NEW rows, WriteMembers(r, rows)
  PROVE  members' = rows /\ Notes(r)
BY DEF IInv, TypeOK, WriteMembers, Notes

\* CreateMember adds one row with the next id.
LEMMA CreateMemberRowOK ==
  ASSUME IInv, NEW r \in Requests, NEW o \in OrgId, NEW u \in Users, NEW role \in Roles,
         CreateMemberRow(r, o, u, role)
  PROVE  /\ Notes(r) /\ MembersOK(members', drawn'.members)
         /\ drawn' \in Drawn /\ drawn'.orgs = drawn.orgs /\ drawn'.invitations = drawn.invitations
         /\ \E new : new \notin members /\ new.org = o /\ members' = members \cup {new}
<1> DEFINE new == [id |-> drawn.members, org |-> o, user |-> u, role |-> role]
<1>1. drawn.members \in 0 .. MaxRows - 1 /\ drawn.members + 1 \in 0 .. MaxRows
  BY Numbers, Constants DEF CreateMemberRow
<1>2. new \in Member /\ new.id = drawn.members /\ new.org = o /\ new.user = u
  BY <1>1 DEF Member
<1>3. /\ drawn' \in Drawn /\ drawn'.members = drawn.members + 1
      /\ drawn'.orgs = drawn.orgs /\ drawn'.invitations = drawn.invitations
  BY <1>1, Numbers DEF CreateMemberRow, Drawn
<1>4. members' = members \cup {new} /\ Notes(r)
  BY WriteMembersNotes DEF CreateMemberRow
<1>5. \A m \in members : ~(m.org = o /\ m.user = u)
  BY DEF CreateMemberRow, Membership, MembersOf
<1>6. \A m \in members : m.id \in Nat /\ m.id < drawn.members
  BY Ids DEF IInv, Inv_Rows, MembersOK
<1> HIDE DEF new
<1>7. IsFiniteSet(members')
  BY <1>4, FS_AddElement DEF IInv, Inv_Rows, MembersOK
<1>8. MembersOK(members', drawn'.members)
  BY <1>2, <1>3, <1>4, <1>5, <1>6, <1>7, Numbers DEF IInv, Inv_Rows, MembersOK
<1>9. new \notin members
  BY <1>2, <1>5
<1> QED
  BY <1>2, <1>3, <1>4, <1>8, <1>9

\* A step that writes members and leaves the claims alone.
LEMMA MemberStep ==
  ASSUME IInv, NEW r \in Requests, NEW label \in PCs, NEW locals \in Locals,
         Moves(r, label, locals), Notes(r),
         label \in {"join", "handBack"} => Claimed(r) /\ locals.id = loc[r].id,
         UNCHANGED <<orgs, invitations, joined>>, drawn' \in Drawn,
         drawn'.orgs = drawn.orgs, drawn'.invitations = drawn.invitations,
         MembersOK(members', drawn'.members), Supported(r)', Counted(r)'
  PROVE  IInv'
<1>1. Inv_OneClaim'
  BY ClaimKept
<1>2. /\ OrgsOK(orgs', drawn'.orgs) /\ InvitationsOK(invitations', drawn'.invitations)
      /\ drawn'.invitations \in Nat /\ drawn.invitations <= drawn'.invitations
  BY Numbers DEF IInv, Inv_Rows
<1>3. joined' \in [InvId -> Nat]
  BY DEF IInv, TypeOK
<1> QED
  BY <1>1, <1>2, <1>3, Step

LEMMA CreateOwnerInv ==
  ASSUME IInv, NEW r \in Requests, CreateOwner(r)
  PROVE  IInv'
<1>1. loc[r].org \in OrgId /\ loc[r].user \in Users /\ "owner" \in Roles
  BY DEF CreateOwner, IInv, Inv_Requests, Supported, Roles
<1>2. /\ CreateMemberRow(r, loc[r].org, loc[r].user, "owner") /\ Return(r)
      /\ UNCHANGED <<orgs, invitations, joined>>
  BY DEF CreateOwner
<1> QED
  BY <1>1, <1>2, CreateMemberRowOK, ReturnMoves, MemberStep

\* A member table that lost rows is still in order.
LEMMA FewerMembers ==
  ASSUME IInv, NEW rows, rows \subseteq members
  PROVE  MembersOK(rows, drawn.members)
BY FS_Subset DEF IInv, Inv_Rows, MembersOK

LEMMA DeleteMembersInv ==
  ASSUME IInv, NEW r \in Requests, DeleteMembers(r)
  PROVE  IInv'
<1>1. /\ members' \subseteq members /\ Notes(r)
      /\ pc' = [pc EXCEPT ![r] = "deleteInvitations"] /\ UNCHANGED loc
      /\ UNCHANGED <<orgs, invitations, drawn, joined>>
  BY WriteMembersNotes DEF DeleteMembers, Goto, Notes, IInv, TypeOK
<1>2. /\ loc[r] \in Locals /\ Moves(r, "deleteInvitations", loc[r])
      /\ "deleteInvitations" \in PCs
  BY <1>1 DEF Moves, PCs, IInv, TypeOK
<1>3. MembersOK(members', drawn'.members) /\ drawn' \in Drawn
  BY <1>1, FewerMembers, Numbers
<1>4. pc'[r] = "deleteInvitations"
  BY <1>2, MovesType DEF IInv, TypeOK
<1>5. Supported(r)' /\ Counted(r)'
  BY <1>4 DEF Supported, Counted
<1> QED
  BY <1>1, <1>2, <1>3, <1>5, MemberStep

LEMMA DeleteMemberInv ==
  ASSUME IInv, NEW r \in Requests, DeleteMember(r)
  PROVE  IInv'
<1>1. /\ members' \subseteq members /\ Notes(r) /\ Return(r)
      /\ UNCHANGED <<orgs, invitations, drawn, joined>>
  BY WriteMembersNotes DEF DeleteMember
<1>2. MembersOK(members', drawn'.members) /\ drawn' \in Drawn
  BY <1>1, FewerMembers, Numbers
<1> QED
  BY <1>1, <1>2, ReturnMoves, MemberStep

LEMMA SetRoleInv ==
  ASSUME IInv, NEW r \in Requests, SetRole(r)
  PROVE  IInv'
<1> DEFINE new(m) == [m EXCEPT !.role = loc[r].role]
           row(m) == IF m.id = loc[r].id THEN new(m) ELSE m
<1>1. loc[r].role \in Roles
  BY DEF SetRole, IInv, Inv_Requests, Supported
<1>2. \A m \in members : /\ row(m) \in Member /\ row(m).id = m.id
                         /\ row(m).org = m.org /\ row(m).user = m.user
  BY <1>1 DEF IInv, Inv_Rows, MembersOK, Member
<1>3. /\ members' = {row(m) : m \in members} /\ Notes(r) /\ Return(r)
      /\ UNCHANGED <<orgs, invitations, drawn, joined>>
  BY WriteMembersNotes DEF SetRole
<1> HIDE DEF new, row
<1>4. IsFiniteSet({row(m) : m \in members})
  <2> DEFINE rows == {row(m) : m \in members}
             change == [m \in members |-> row(m)]
  <2>1. change \in Surjection(members, rows)
    BY DEF Surjection
  <2>2. IsFiniteSet(members)
    BY DEF IInv, Inv_Rows, MembersOK
  <2> HIDE DEF rows, change
  <2>3. IsFiniteSet(rows)
    BY <2>1, <2>2, FS_Surjection
  <2> QED
    BY <2>3 DEF rows
<1>5. \A a, b \in members' : a.id = b.id \/ (a.org = b.org /\ a.user = b.user) => a = b
  <2> SUFFICES ASSUME NEW a \in members', NEW b \in members',
                      a.id = b.id \/ (a.org = b.org /\ a.user = b.user)
               PROVE  a = b
    OBVIOUS
  <2>1. PICK m \in members : a = row(m)
    BY <1>3
  <2>2. PICK n \in members : b = row(n)
    BY <1>3
  <2>3. m = n
    BY <1>2, <2>1, <2>2 DEF IInv, Inv_Rows, MembersOK
  <2> QED
    BY <2>1, <2>2, <2>3
<1>6. MembersOK(members', drawn'.members)
  BY <1>2, <1>3, <1>4, <1>5 DEF IInv, Inv_Rows, MembersOK
<1>7. drawn' \in Drawn
  BY <1>3, Numbers
<1> QED
  BY <1>3, <1>6, <1>7, ReturnMoves, MemberStep

-----------------------------------------------------------------------------
(* The writes to invitations *)

\* A step that writes invitations and leaves organizations and members alone.
LEMMA InvitationStep ==
  ASSUME IInv, NEW r \in Requests, NEW label \in PCs, NEW locals \in Locals,
         Moves(r, label, locals), UNCHANGED <<orgs, members, joined, overtaken>>,
         drawn' \in Drawn, drawn'.orgs = drawn.orgs, drawn'.members = drawn.members,
         drawn'.invitations \in Nat, drawn.invitations <= drawn'.invitations,
         InvitationsOK(invitations', drawn'.invitations),
         Supported(r)', Inv_OneClaim', Counted(r)'
  PROVE  IInv'
<1>1. OrgsOK(orgs', drawn'.orgs) /\ MembersOK(members', drawn'.members)
  BY DEF IInv, Inv_Rows
<1>2. Notes(r) /\ joined' \in [InvId -> Nat]
  BY DEF IInv, TypeOK, Notes
<1> QED
  BY <1>1, <1>2, Step

LEMMA DeleteInvitationsInv ==
  ASSUME IInv, NEW r \in Requests, DeleteInvitations(r)
  PROVE  IInv'
<1>1. /\ invitations' \subseteq invitations /\ loc[r] \in Locals
      /\ Moves(r, "deleteOrg", loc[r]) /\ "deleteOrg" \in PCs
      /\ UNCHANGED <<orgs, members, drawn, joined, overtaken, loc>>
  BY DEF DeleteInvitations, Goto, Moves, PCs, IInv, TypeOK
<1>2. /\ pc'[r] = "deleteOrg" /\ loc'[r] = loc[r]
      /\ \A q \in Requests \ {r} : pc'[q] = pc[q] /\ loc'[q] = loc[q]
  BY <1>1, MovesType DEF IInv, TypeOK
<1>3. InvitationsOK(invitations', drawn'.invitations)
  BY <1>1 DEF IInv, Inv_Rows, InvitationsOK
<1>4. Inv_OneClaim'
  <2>1. \A q \in Requests : Claimed(q)' => Claimed(q)
    BY <1>2 DEF Claimed
  <2> QED
    BY <1>1, <2>1 DEF IInv, Inv_OneClaim, AcceptedOnce
<1>5. Supported(r)' /\ Counted(r)'
  BY <1>2 DEF Supported, Counted
<1> QED
  BY <1>1, <1>3, <1>4, <1>5, Numbers, InvitationStep

\* A new invitation has an id that nobody claimed and nobody accepted.
LEMMA CreateInvitationInv ==
  ASSUME IInv, NEW r \in Requests, CreateInvitation(r)
  PROVE  IInv'
<1> DEFINE new == [id |-> drawn.invitations, org |-> loc[r].org, user |-> loc[r].user,
                   role |-> loc[r].role, pending |-> TRUE]
<1>1. /\ loc[r].org \in OrgId /\ loc[r].user \in Users /\ loc[r].role \in Roles \ {"owner"}
      /\ drawn.invitations \in InvId /\ drawn.invitations + 1 \in 0 .. MaxInvitations
  BY Numbers, Constants DEF CreateInvitation, IInv, Inv_Requests, Supported, InvId
<1>2. new \in Invitation /\ new.id = drawn.invitations
  BY <1>1 DEF Invitation
<1>3. /\ drawn' \in Drawn /\ drawn'.invitations = drawn.invitations + 1
      /\ drawn'.orgs = drawn.orgs /\ drawn'.members = drawn.members
  BY <1>1, Numbers DEF CreateInvitation, Drawn
<1>4. /\ invitations' = invitations \cup {new} /\ Return(r)
      /\ UNCHANGED <<orgs, members, joined, overtaken>>
  BY DEF CreateInvitation
<1> HIDE DEF new
<1>5. \A i \in invitations : i.id \in Nat /\ i.id < drawn.invitations
  BY Ids DEF IInv, Inv_Rows, InvitationsOK
<1>6. InvitationsOK(invitations', drawn'.invitations)
  BY <1>2, <1>3, <1>4, <1>5, Numbers DEF IInv, Inv_Rows, InvitationsOK
<1>7. /\ pc'[r] = "idle" /\ \A q \in Requests \ {r} : pc'[q] = pc[q] /\ loc'[q] = loc[q]
  BY <1>4, ReturnMoves, MovesType DEF IInv, TypeOK
<1>8. Inv_OneClaim'
  <2>1. \A q \in Requests : Claimed(q)' => Claimed(q) /\ q # r /\ loc'[q] = loc[q]
    BY <1>7 DEF Claimed
  <2>2. \A q \in Requests : Claimed(q) => loc[q].id # drawn.invitations
    BY Numbers, Constants DEF Claimed, IInv, Inv_Requests, Supported, InvId
  <2>3. /\ joined[drawn.invitations] = 0
        /\ \A i \in InvId : i >= drawn.invitations + 1 => i >= drawn.invitations
    BY <1>1, Numbers, Constants DEF IInv, Inv_OneClaim, InvId
  <2> QED
    BY <1>2, <1>3, <1>4, <2>1, <2>2, <2>3 DEF IInv, Inv_OneClaim, AcceptedOnce
<1>9. drawn'.invitations \in Nat /\ drawn.invitations <= drawn'.invitations
  BY <1>3, Numbers
<1> QED
  BY <1>3, <1>4, <1>6, <1>8, <1>9, ReturnMoves, InvitationStep

\* An update of invitations that keeps their ids keeps the table in order.
LEMMA UpdateInvitations ==
  ASSUME IInv, NEW new, drawn' = drawn,
         \A i \in invitations : new[i] \in Invitation /\ new[i].id = i.id,
         \A x \in invitations' : \E i \in invitations : x = new[i]
  PROVE  InvitationsOK(invitations', drawn'.invitations)
BY DEF IInv, Inv_Rows, InvitationsOK

LEMMA RenewInvitationInv ==
  ASSUME IInv, NEW r \in Requests, RenewInvitation(r)
  PROVE  IInv'
<1> DEFINE new == [i \in invitations |-> IF i.id = loc[r].id
                                         THEN [i EXCEPT !.role = loc[r].role] ELSE i]
<1>1. loc[r].role \in Roles \ {"owner"}
  BY DEF RenewInvitation, IInv, Inv_Requests, Supported
<1>2. \A i \in invitations : /\ new[i] \in Invitation /\ new[i].id = i.id
                             /\ new[i].pending = i.pending
  BY <1>1 DEF IInv, Inv_Rows, InvitationsOK, Invitation
<1>3. Return(r) /\ UNCHANGED <<orgs, members, drawn, joined, overtaken>>
  BY DEF RenewInvitation
<1>4. \A x \in invitations' : \E i \in invitations : x = new[i]
  BY DEF RenewInvitation
<1> HIDE DEF new
<1>5. InvitationsOK(invitations', drawn'.invitations)
  BY <1>2, <1>3, <1>4, UpdateInvitations
<1>6. \A x \in invitations' : \E i \in invitations : x.id = i.id /\ x.pending = i.pending
  BY <1>2, <1>4
<1>7. \A q \in Requests : Claimed(q)' => Claimed(q) /\ loc'[q] = loc[q]
  BY <1>3, ReturnMoves, MovesType DEF Claimed, IInv, TypeOK
<1>8. Inv_OneClaim'
  BY <1>3, <1>6, <1>7 DEF IInv, Inv_OneClaim, AcceptedOnce
<1> QED
  BY <1>3, <1>5, <1>8, Numbers, ReturnMoves, InvitationStep

\* SetPending writes the status of one invitation only.
LEMMA SetPendingOK ==
  ASSUME IInv, NEW id, NEW pending \in BOOLEAN, SetPending(id, pending), drawn' = drawn
  PROVE  /\ InvitationsOK(invitations', drawn'.invitations)
         /\ \A x \in invitations' : \E i \in invitations :
              /\ x.id = i.id
              /\ i.id = id => (x.pending <=> pending)
              /\ i.id # id => (x.pending <=> i.pending)
<1> DEFINE new == [i \in invitations |-> IF i.id = id THEN [i EXCEPT !.pending = pending] ELSE i]
<1>1. \A i \in invitations : /\ new[i] \in Invitation /\ new[i].id = i.id
                             /\ i.id = id => new[i].pending = pending
                             /\ i.id # id => new[i] = i
  BY DEF IInv, Inv_Rows, InvitationsOK, Invitation
<1>2. \A x \in invitations' : \E i \in invitations : x = new[i]
  BY DEF SetPending
<1> HIDE DEF new
<1>3. InvitationsOK(invitations', drawn'.invitations)
  BY <1>1, <1>2, UpdateInvitations
<1> QED
  BY <1>1, <1>2, <1>3

\* The request that finds the row pending is the only one to claim it.
LEMMA ClaimInvitationInv ==
  ASSUME IInv, NEW r \in Requests, ClaimInvitation(r)
  PROVE  IInv'
<1> DEFINE id == loc[r].id
<1>1. /\ pc[r] = "claim" /\ loc[r] \in Locals /\ SetPending(id, FALSE)
      /\ Moves(r, "join", loc[r]) /\ "join" \in PCs
      /\ UNCHANGED <<orgs, members, drawn, joined, overtaken>>
  BY DEF ClaimInvitation, Goto, Moves, PCs, IInv, TypeOK
<1>2. PICK i \in invitations : i.id = id /\ i.pending
  BY DEF ClaimInvitation
<1>3. /\ pc'[r] = "join" /\ loc'[r] = loc[r]
      /\ \A q \in Requests \ {r} : pc'[q] = pc[q] /\ loc'[q] = loc[q]
  BY <1>1, MovesType DEF IInv, TypeOK
<1>4. /\ InvitationsOK(invitations', drawn'.invitations)
      /\ \A x \in invitations' : \E y \in invitations :
           x.id = y.id /\ (y.id = id => ~x.pending) /\ (y.id # id => (x.pending <=> y.pending))
  <2> DEFINE off == FALSE
  <2>1. SetPending(id, off) /\ drawn' = drawn /\ off \in BOOLEAN
    BY <1>1
  <2> HIDE DEF id, off
  <2>2. /\ InvitationsOK(invitations', drawn'.invitations)
        /\ \A x \in invitations' : \E y \in invitations :
             /\ x.id = y.id
             /\ y.id = id => (x.pending <=> off)
             /\ y.id # id => (x.pending <=> y.pending)
    BY <2>1, SetPendingOK
  <2> QED
    BY <2>2 DEF off
<1>5. Inv_OneClaim'
  <2>1. joined[id] = 0 /\ \A q \in Requests : Claimed(q) => loc[q].id # id
    BY <1>2 DEF IInv, Inv_OneClaim
  <2>2. \A q \in Requests : Claimed(q)' => q = r \/ (Claimed(q) /\ loc'[q] = loc[q])
    BY <1>3 DEF Claimed
  <2>3. \A x \in invitations' : x.pending => x.id # id
    BY <1>4
  <2> HIDE DEF id
  <2>4. \A q \in Requests : Claimed(q)' =>
          /\ joined'[loc'[q].id] = 0
          /\ \A x \in invitations' : x.id = loc'[q].id => ~x.pending
    <3> SUFFICES ASSUME NEW q \in Requests, Claimed(q)'
                 PROVE  /\ joined'[loc'[q].id] = 0
                        /\ \A x \in invitations' : x.id = loc'[q].id => ~x.pending
      OBVIOUS
    <3>1. CASE q = r
      BY <1>1, <1>3, <2>1, <2>3, <3>1 DEF id
    <3>2. CASE q # r
      <4>1. Claimed(q) /\ loc'[q].id = loc[q].id /\ joined' = joined
        BY <1>1, <2>2, <3>2
      <4>2. /\ joined[loc[q].id] = 0 /\ loc[q].id # id
            /\ \A y \in invitations : y.id = loc[q].id => ~y.pending
        BY <2>1, <4>1 DEF IInv, Inv_OneClaim
      <4> QED
        BY <1>4, <4>1, <4>2
    <3> QED
      BY <3>1, <3>2
  <2>5. \A p, q \in Requests : Claimed(p)' /\ Claimed(q)' /\ loc'[p].id = loc'[q].id => p = q
    BY <1>3, <2>1, <2>2 DEF IInv, Inv_OneClaim, id
  <2>6. \A x \in invitations' : x.pending => joined'[x.id] = 0
    <3> SUFFICES ASSUME NEW x \in invitations', x.pending PROVE joined[x.id] = 0
      BY <1>1
    <3>1. PICK y \in invitations :
            x.id = y.id /\ (y.id = id => ~x.pending) /\ (y.id # id => (x.pending <=> y.pending))
      BY <1>4
    <3> QED
      BY <3>1 DEF IInv, Inv_OneClaim
  <2> QED
    BY <1>1, <2>4, <2>5, <2>6 DEF IInv, Inv_OneClaim, AcceptedOnce
<1>6. Supported(r)' /\ Counted(r)'
  BY <1>1, <1>3 DEF IInv, Inv_Requests, Supported, Inv_Counted, Counted, MembersOf
<1> QED
  BY <1>1, <1>4, <1>5, <1>6, Numbers, InvitationStep

LEMMA EndInvitationInv ==
  ASSUME IInv, NEW r \in Requests, EndInvitation(r)
  PROVE  IInv'
<1>1. SetPending(loc[r].id, FALSE) /\ Return(r) /\ UNCHANGED <<orgs, members, drawn, joined, overtaken>>
  BY DEF EndInvitation
<1>2. /\ InvitationsOK(invitations', drawn'.invitations)
      /\ \A x \in invitations' : \E y \in invitations : x.id = y.id /\ (x.pending => y.pending)
  <2> DEFINE id == loc[r].id
             off == FALSE
  <2>1. SetPending(id, off) /\ drawn' = drawn /\ off \in BOOLEAN
    BY <1>1
  <2> HIDE DEF id, off
  <2>2. /\ InvitationsOK(invitations', drawn'.invitations)
        /\ \A x \in invitations' : \E y \in invitations :
             /\ x.id = y.id
             /\ y.id = id => (x.pending <=> off)
             /\ y.id # id => (x.pending <=> y.pending)
    BY <2>1, SetPendingOK
  <2> QED
    BY <2>2 DEF off
<1>3. \A q \in Requests : Claimed(q)' => Claimed(q) /\ loc'[q] = loc[q]
  BY <1>1, ReturnMoves, MovesType DEF Claimed, IInv, TypeOK
<1>4. Inv_OneClaim'
  BY <1>1, <1>2, <1>3 DEF IInv, Inv_OneClaim, AcceptedOnce
<1> QED
  BY <1>1, <1>2, <1>4, Numbers, ReturnMoves, InvitationStep

\* The claim goes back to the row it came from.
LEMMA HandBackInv ==
  ASSUME IInv, NEW r \in Requests, HandBack(r)
  PROVE  IInv'
<1> DEFINE id == loc[r].id
<1>1. /\ Claimed(r) /\ SetPending(id, TRUE) /\ Return(r)
      /\ UNCHANGED <<orgs, members, drawn, joined, overtaken>>
  BY DEF HandBack, Claimed
<1>2. /\ InvitationsOK(invitations', drawn'.invitations)
      /\ \A x \in invitations' : \E y \in invitations : x.id = y.id /\ (y.id # id => (x.pending <=> y.pending))
  <2>1. SetPending(id, TRUE) /\ drawn' = drawn /\ TRUE \in BOOLEAN
    BY <1>1
  <2> HIDE DEF id
  <2> QED
    BY <2>1, SetPendingOK
<1>3. \A q \in Requests : Claimed(q)' => q # r /\ Claimed(q) /\ loc'[q] = loc[q]
  BY <1>1, ReturnMoves, MovesType DEF Claimed, IInv, TypeOK
<1>4. joined[id] = 0 /\ \A q \in Requests \ {r} : Claimed(q) => loc[q].id # id
  BY <1>1 DEF IInv, Inv_OneClaim
<1> HIDE DEF id
<1>5. Inv_OneClaim'
  BY <1>1, <1>2, <1>3, <1>4 DEF IInv, Inv_OneClaim, AcceptedOnce
<1> QED
  BY <1>1, <1>2, <1>5, Numbers, ReturnMoves, InvitationStep

-----------------------------------------------------------------------------
(* Joining *)

\* The claim is spent by the acceptance.
LEMMA JoinOrganizationInv ==
  ASSUME IInv, NEW r \in Requests, JoinOrganization(r)
  PROVE  IInv'
<1> DEFINE id == loc[r].id
<1>1. /\ Claimed(r) /\ loc[r].org \in OrgId /\ loc[r].user \in Users /\ loc[r].role \in Roles
      /\ id \in InvId /\ id < drawn.invitations
  BY DEF JoinOrganization, Claimed, IInv, Inv_Requests, Supported
<1>2. /\ CreateMemberRow(r, loc[r].org, loc[r].user, loc[r].role) /\ Return(r)
      /\ joined' = [joined EXCEPT ![id] = @ + 1] /\ UNCHANGED <<orgs, invitations>>
  BY DEF JoinOrganization
<1>3. /\ Notes(r) /\ MembersOK(members', drawn'.members)
      /\ drawn' \in Drawn /\ drawn'.orgs = drawn.orgs /\ drawn'.invitations = drawn.invitations
  BY <1>1, <1>2, CreateMemberRowOK
<1>4. \A q \in Requests : Claimed(q)' => q # r /\ Claimed(q) /\ loc'[q] = loc[q]
  BY <1>2, ReturnMoves, MovesType DEF Claimed, IInv, TypeOK
<1>5. /\ joined[id] = 0 /\ \A q \in Requests \ {r} : Claimed(q) => loc[q].id # id
      /\ \A i \in invitations : i.pending => i.id # id
  BY <1>1 DEF IInv, Inv_OneClaim
<1> HIDE DEF id
<1>6. /\ joined' \in [InvId -> Nat] /\ joined'[id] = 1
      /\ \A i \in InvId \ {id} : joined'[i] = joined[i]
  BY <1>1, <1>2, <1>5 DEF IInv, TypeOK
<1>7. Inv_OneClaim'
  <2>1. \A i \in invitations : i.id \in InvId
    BY DEF IInv, Inv_Rows, InvitationsOK, Invitation
  <2>2. \A q \in Requests : Claimed(q) => loc[q].id \in InvId
    BY DEF Claimed, IInv, Inv_Requests, Supported
  <2>3. \A i \in InvId : i >= drawn.invitations => i # id
    BY <1>1, Numbers, Constants DEF InvId
  <2> QED
    BY <1>2, <1>3, <1>4, <1>5, <1>6, <2>1, <2>2, <2>3 DEF IInv, Inv_OneClaim, AcceptedOnce
<1>8. /\ OrgsOK(orgs', drawn'.orgs) /\ InvitationsOK(invitations', drawn'.invitations)
      /\ drawn'.invitations \in Nat /\ drawn.invitations <= drawn'.invitations
  BY <1>2, <1>3, Numbers DEF IInv, Inv_Rows
<1> QED
  BY <1>2, <1>3, <1>6, <1>7, <1>8, ReturnMoves, Step

LEMMA JoinFailsInv ==
  ASSUME IInv, NEW r \in Requests, JoinFails(r)
  PROVE  IInv'
<1>1. /\ pc[r] = "join" /\ loc[r] \in Locals /\ Moves(r, "handBack", loc[r]) /\ "handBack" \in PCs
      /\ UNCHANGED <<orgs, invitations, joined>>
      /\ loc[r].org \in OrgId /\ loc[r].user \in Users /\ loc[r].role \in Roles
  BY DEF JoinFails, Goto, Moves, PCs, IInv, TypeOK, Inv_Requests, Supported
<1>2. /\ Notes(r) /\ MembersOK(members', drawn'.members)
      /\ drawn' \in Drawn /\ drawn'.orgs = drawn.orgs /\ drawn'.invitations = drawn.invitations
  <2>1. CASE CreateMemberRow(r, loc[r].org, loc[r].user, loc[r].role)
    BY <1>1, <2>1, CreateMemberRowOK
  <2>2. CASE UNCHANGED <<members, drawn, overtaken>>
    BY <2>2, Numbers DEF Notes, IInv, TypeOK, Inv_Rows
  <2> QED
    BY <2>1, <2>2 DEF JoinFails
<1>3. pc'[r] = "handBack" /\ loc'[r] = loc[r]
  BY <1>1, MovesType DEF IInv, TypeOK
<1>4. Supported(r)' /\ Counted(r)'
  BY <1>1, <1>2, <1>3 DEF IInv, Inv_Requests, Supported, Counted
<1> QED
  BY <1>1, <1>2, <1>4, MemberStep DEF Claimed

-----------------------------------------------------------------------------

\* Every step keeps the invariant.
LEMMA NextInv == IInv /\ [Next]_vars => IInv'
<1> SUFFICES ASSUME IInv, [Next]_vars PROVE IInv'
  OBVIOUS
<1>1. ASSUME NEW r \in Requests, NEW u \in Users, NEW o \in OrgId, Administer(r, o, u)
      PROVE  IInv'
  BY <1>1, HandleDeleteInv, RemoveMemberInv, LeaveInv, UpdateInv, UpdateMemberRoleInv,
     InviteInv, ResendInv DEF Administer
<1>2. ASSUME NEW r \in Requests, Write(r)
      PROVE  IInv'
  BY <1>2, CreateOrganizationInv, CreateOwnerInv, UpdateSlugInv, DeleteMembersInv,
     DeleteInvitationsInv, DeleteOrganizationInv, CreateInvitationInv, RenewInvitationInv,
     ClaimInvitationInv, JoinOrganizationInv, JoinFailsInv, HandBackInv, EndInvitationInv,
     SetRoleInv, DeleteMemberInv DEF Write
<1>3. CASE UNCHANGED vars
  BY <1>3, SMTT(30) DEF vars, IInv, TypeOK, Inv_Rows, Inv_Requests, Supported, Inv_OneClaim,
     AcceptedOnce, Claimed, Inv_Counted, Counted, Owners, MembersOf
<1> QED
  BY <1>1, <1>2, <1>3, CreateInv, EndsInv, AcceptInvitationInv, AbandonInv DEF Next

-----------------------------------------------------------------------------
(* The theorems *)

\* Every reachable state has the types TypeOK states: no two members of one
\* organization are the same user, no two organizations share a slug, whatever
\* the requests that write them have read before.
THEOREM TypeCorrect == Spec => []TypeOK
<1>1. IInv => TypeOK
  BY DEF IInv
<1> QED
  BY <1>1, InitInv, NextInv, PTL DEF Spec

\* An invitation is reported accepted at most once: the conditional update of
\* its status leaves the right to accept it with one request only, and a
\* request hands it back only before it has accepted.
THEOREM InvitationAcceptedOnce == Spec => []AcceptedOnce
<1>1. IInv => AcceptedOnce
  BY DEF IInv, Inv_OneClaim
<1> QED
  BY <1>1, InitInv, NextInv, PTL DEF Spec

\* The steps that change the member table and end a join or a departure.
LEMMA OwnStep ==
  ASSUME IInv, [Next]_vars, members' # members,
         NEW r \in Requests, pc[r] \in {"join", "leave"}, pc'[r] # pc[r]
  PROVE  JoinOrganization(r) \/ JoinFails(r) \/ DeleteMember(r)
<1>1. ASSUME NEW q \in Requests, NEW o \in OrgId, NEW u \in Users, Administer(q, o, u)
      PROVE  members' = members
  BY <1>1 DEF Administer, HandleDelete, RemoveMember, Leave, Update, UpdateMemberRole,
     Invite, Resend
<1>2. PICK q \in Requests : Write(q)
  BY <1>1 DEF Next, vars, Create, CancelInvitation, AcceptInvitation, RejectInvitation, Abandon
<1>3. pc' = [pc EXCEPT ![q] = pc'[q]]
  BY <1>2 DEF Write, CreateOrganization, CreateOwner, UpdateSlug, DeleteMembers,
     DeleteInvitations, DeleteOrganization, CreateInvitation, RenewInvitation, ClaimInvitation,
     JoinOrganization, JoinFails, HandBack, EndInvitation, SetRole, DeleteMember, Return, Goto,
     IInv, TypeOK
<1>4. q = r
  BY <1>3 DEF IInv, TypeOK
<1> QED
  BY <1>2, <1>4 DEF Write, CreateOrganization, CreateOwner, UpdateSlug, DeleteMembers,
     DeleteInvitations, DeleteOrganization, CreateInvitation, RenewInvitation, ClaimInvitation,
     HandBack, EndInvitation, SetRole

\* One row more than what was counted.
LEMMA JoinsByOne ==
  ASSUME IInv, NEW r \in Requests, NEW o \in OrgId, NEW u \in Users, NEW role \in Roles,
         CreateMemberRow(r, o, u, role), Cardinality(MembersOf(o)) < MembershipLimit
  PROVE  Cardinality({m \in members' : m.org = o}) <= MembershipLimit
<1> DEFINE new == [id |-> drawn.members, org |-> o, user |-> u, role |-> role]
           counted == MembersOf(o)
<1>1. {m \in members' : m.org = o} = counted \cup {new}
  BY DEF CreateMemberRow, WriteMembers, MembersOf
<1>2. IsFiniteSet(counted)
  BY FS_Subset DEF IInv, Inv_Rows, MembersOK, MembersOf
<1> HIDE DEF new, counted
<1>3. /\ Cardinality(counted) \in Nat
      /\ \/ Cardinality(counted \cup {new}) = Cardinality(counted)
         \/ Cardinality(counted \cup {new}) = Cardinality(counted) + 1
  BY <1>2, FS_CardinalityType, FS_AddElement
<1>4. Cardinality(counted) < MembershipLimit
  BY DEF counted
<1>5. Cardinality(counted \cup {new}) <= MembershipLimit
  BY <1>3, <1>4, Constants
<1> QED
  BY <1>1, <1>5, Zenon

\* An acceptance whose count of the members still stands when it writes does
\* not fill the organization beyond MembershipLimit.
THEOREM JoinsKeepTheLimit == Spec => JoinsWithinLimit
<1> DEFINE A == \A r \in Requests \ overtaken :
                  pc[r] = "join" /\ members' # members /\ pc'[r] # "join"
                    => Cardinality({m \in members' : m.org = loc[r].org}) <= MembershipLimit
<1>1. IInv /\ [Next]_vars => [A]_vars
  <2> SUFFICES ASSUME IInv, [Next]_vars, NEW r \in Requests \ overtaken,
                      pc[r] = "join", members' # members, pc'[r] # "join"
               PROVE  Cardinality({m \in members' : m.org = loc[r].org}) <= MembershipLimit
    OBVIOUS
  <2>1. JoinOrganization(r) \/ JoinFails(r)
    BY OwnStep DEF DeleteMember
  <2>2. CreateMemberRow(r, loc[r].org, loc[r].user, loc[r].role)
    BY <2>1 DEF JoinOrganization, JoinFails
  <2>3. /\ loc[r].org \in OrgId /\ loc[r].user \in Users /\ loc[r].role \in Roles
        /\ Cardinality(MembersOf(loc[r].org)) < MembershipLimit
    BY DEF IInv, Inv_Requests, Supported, Inv_Counted, Counted
  <2> QED
    BY <2>2, <2>3, JoinsByOne
<1> QED
  BY <1>1, InitInv, NextInv, PTL DEF Spec, JoinsWithinLimit

\* An owner whose count of the owners still stands when it writes leaves
\* another owner behind.
THEOREM LeavingKeepsAnOwner == Spec => LeaveKeepsAnOwner
<1> DEFINE A == \A r \in Requests \ overtaken :
                  pc[r] = "leave" /\ loc[r].role = "owner" /\ members' # members /\ pc'[r] = "idle"
                    => \E m \in members' : m.org = loc[r].org /\ m.role = "owner"
<1>1. IInv /\ [Next]_vars => [A]_vars
  <2> SUFFICES ASSUME IInv, [Next]_vars, NEW r \in Requests \ overtaken, pc[r] = "leave",
                      loc[r].role = "owner", members' # members, pc'[r] = "idle"
               PROVE  \E m \in members' : m.org = loc[r].org /\ m.role = "owner"
    OBVIOUS
  <2>1. DeleteMember(r)
    BY OwnStep DEF JoinOrganization, JoinFails
  <2>2. PICK m \in Owners(loc[r].org) : m.id # loc[r].id
    BY DEF IInv, Inv_Counted, Counted
  <2> QED
    BY <2>1, <2>2 DEF DeleteMember, WriteMembers, Owners, MembersOf
<1> QED
  BY <1>1, InitInv, NextInv, PTL DEF Spec, LeaveKeepsAnOwner
=============================================================================
