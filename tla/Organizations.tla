---------------------------- MODULE Organizations ----------------------------
(***************************************************************************)
(* Organizations, their members and invitations: plugins/organization over *)
(* its three tables.  One database call that writes is one step; the reads *)
(* before it (the actor's role, the target row, a count) are taken in one  *)
(* step at the start of the handler and may be stale when it writes.       *)
(*                                                                         *)
(* Every user has a session and a verified address, so an invitation names *)
(* the user it is addressed to.  An invitation that has expired is refused *)
(* like any other request that ends early (Abandon), and the organization  *)
(* a request names explicitly may be any, so that neither the expiry nor   *)
(* the session's active organization is kept.  Teams are left out.         *)
(***************************************************************************)
EXTENDS Naturals, FiniteSets

CONSTANTS
  Requests,           \* concurrently running requests
  Users,
  Slugs,              \* slugs as slugify leaves them
  BodyRoles,          \* roles that request bodies ask for, of those that are accepted
  OrganizationLimit, MembershipLimit,   \* Options
  MaxOrgs, MaxRows, MaxInvitations      \* bounds on the rows ever created

ASSUME OrganizationsAssumption ==
  /\ BodyRoles \subseteq {"owner", "admin", "member"}
  /\ IsFiniteSet(Requests) /\ IsFiniteSet(Users)
  /\ OrganizationLimit \in Nat \ {0} /\ MembershipLimit \in Nat \ {0}
  /\ MaxOrgs \in Nat /\ MaxRows \in Nat /\ MaxInvitations \in Nat

VARIABLES
  orgs,         \* the organization table
  members,      \* the member table
  invitations,  \* the invitation table
  drawn,        \* ids given out so far, per table
  pc, loc,      \* the next write of each request, and what it has read
  joined,       \* history: acceptances reported to their user, per invitation
  overtaken     \* history: requests since whose reads members have changed

vars == <<orgs, members, invitations, drawn, pc, loc, joined, overtaken>>

OrgId == 0 .. MaxOrgs - 1
InvId == 0 .. MaxInvitations - 1
Roles == {"owner", "admin", "member"}
Organization == [id : OrgId, slug : Slugs]
Member == [id : 0 .. MaxRows - 1, org : OrgId, user : Users, role : Roles]
Invitation == [id : InvId, org : OrgId, user : Users, role : Roles \ {"owner"},
               pending : BOOLEAN]

PCs == {"idle", "createOrg", "createMember", "update", "deleteMembers", "deleteInvitations",
        "deleteOrg", "invite", "resend", "claim", "join", "handBack", "end",
        "remove", "setRole", "leave"}

\* user: the user the write is for; org: the organization; slug, role: from the
\* body or the row read; id: of the member or the invitation read.
NoLocals == [user |-> "none", org |-> MaxOrgs, slug |-> "none", role |-> "none", id |-> 0]

Locals == [user : Users \cup {"none"}, org : 0 .. MaxOrgs, slug : Slugs \cup {"none"},
           role : Roles \cup {"none"}, id : Nat]

TypeOK ==
  /\ orgs \subseteq Organization
  /\ \A a, b \in orgs : a.id = b.id \/ a.slug = b.slug => a = b
  /\ members \subseteq Member
  /\ \A a, b \in members : a.id = b.id \/ (a.org = b.org /\ a.user = b.user) => a = b
  /\ invitations \subseteq Invitation
  /\ \A a, b \in invitations : a.id = b.id => a = b
  /\ drawn \in [orgs : 0 .. MaxOrgs, members : 0 .. MaxRows, invitations : 0 .. MaxInvitations]
  /\ pc \in [Requests -> PCs] /\ loc \in [Requests -> Locals]
  /\ joined \in [InvId -> Nat]
  /\ overtaken \subseteq Requests

Init ==
  /\ orgs = {} /\ members = {} /\ invitations = {}
  /\ drawn = [orgs |-> 0, members |-> 0, invitations |-> 0]
  /\ pc = [r \in Requests |-> "idle"]
  /\ loc = [r \in Requests |-> NoLocals]
  /\ joined = [i \in InvId |-> 0]
  /\ overtaken = {}

Return(r) ==
  /\ pc' = [pc EXCEPT ![r] = "idle"]
  /\ loc' = [loc EXCEPT ![r] = NoLocals]

\* The handler of r has read `read' and writes next.
Begin(r, label, read) ==
  /\ pc[r] = "idle"
  /\ pc' = [pc EXCEPT ![r] = label]
  /\ loc' = [loc EXCEPT ![r] = read]
  /\ overtaken' = overtaken \ {r}

Goto(r, label) == pc' = [pc EXCEPT ![r] = label] /\ UNCHANGED loc

-----------------------------------------------------------------------------
(* The tables *)

MembersOf(o) == {m \in members : m.org = o}
Owners(o) == {m \in MembersOf(o) : m.role = "owner"}
Membership(o, u) == {m \in MembersOf(o) : m.user = u}

\* requireRole: the actor u has one of the roles in organization o.
RequireRole(o, u, roles) == \E m \in Membership(o, u) : m.role \in roles

\* The member table becomes `rows': the other requests that counted members
\* and have not written yet are noted.
WriteMembers(r, rows) ==
  /\ members' = rows
  /\ overtaken' = IF rows = members THEN overtaken
                  ELSE overtaken \cup
                       {q \in Requests \ {r} : pc[q] \in {"leave", "claim", "join"}}

\* Mutant: the member table has no composite unique constraint.
CreateMemberRowUnconstrained(r, o, u, role) ==
  /\ drawn.members < MaxRows
  /\ WriteMembers(r, members \cup
       {[id |-> drawn.members, org |-> o, user |-> u, role |-> role]})
  /\ drawn' = [drawn EXCEPT !.members = @ + 1]

\* base.Create of a member: (organizationId, userId) is unique.
CreateMemberRow(r, o, u, role) ==
  /\ drawn.members < MaxRows
  /\ Membership(o, u) = {}
  /\ WriteMembers(r, members \cup
       {[id |-> drawn.members, org |-> o, user |-> u, role |-> role]})
  /\ drawn' = [drawn EXCEPT !.members = @ + 1]

\* Update of the invitations with this id, whatever their status is by now.
SetPending(id, pending) ==
  invitations' = {IF i.id = id THEN [i EXCEPT !.pending = pending] ELSE i : i \in invitations}

-----------------------------------------------------------------------------
(* Creating, updating and deleting an organization *)

\* handleCreate: below the creator's limit, slug free so far.
Create(r, u, s) ==
  /\ Cardinality({m \in members : m.user = u /\ m.role = "owner"}) < OrganizationLimit
  /\ \A o \in orgs : o.slug # s
  /\ Begin(r, "createOrg", [NoLocals EXCEPT !.user = u, !.slug = s])
  /\ UNCHANGED <<orgs, members, invitations, drawn, joined>>

\* The unique index refuses a slug taken since (Abandon).
CreateOrganization(r) ==
  /\ pc[r] = "createOrg"
  /\ drawn.orgs < MaxOrgs
  /\ \A o \in orgs : o.slug # loc[r].slug
  /\ orgs' = orgs \cup {[id |-> drawn.orgs, slug |-> loc[r].slug]}
  /\ drawn' = [drawn EXCEPT !.orgs = @ + 1]
  /\ pc' = [pc EXCEPT ![r] = "createMember"]
  /\ loc' = [loc EXCEPT ![r].org = drawn.orgs]
  /\ UNCHANGED <<members, invitations, joined, overtaken>>

CreateOwner(r) ==
  /\ pc[r] = "createMember"
  /\ CreateMemberRow(r, loc[r].org, loc[r].user, "owner")
  /\ Return(r)
  /\ UNCHANGED <<orgs, invitations, joined>>

\* handleUpdate with a slug that no other organization has so far.
Update(r, o, u, s) ==
  /\ RequireRole(o, u, {"owner", "admin"})
  /\ \A other \in orgs : other.slug = s => other.id = o
  /\ Begin(r, "update", [NoLocals EXCEPT !.org = o, !.slug = s])
  /\ UNCHANGED <<orgs, members, invitations, drawn, joined>>

UpdateSlug(r) ==
  /\ pc[r] = "update"
  /\ \A other \in orgs : other.slug = loc[r].slug => other.id = loc[r].org
  /\ orgs' = {IF o.id = loc[r].org THEN [o EXCEPT !.slug = loc[r].slug] ELSE o : o \in orgs}
  /\ Return(r)
  /\ UNCHANGED <<members, invitations, drawn, joined, overtaken>>

HandleDelete(r, o, u) ==
  /\ RequireRole(o, u, {"owner"})
  /\ \E org \in orgs : org.id = o
  /\ Begin(r, "deleteMembers", [NoLocals EXCEPT !.org = o])
  /\ UNCHANGED <<orgs, members, invitations, drawn, joined>>

\* The errors of the first two deletes are not looked at.
DeleteMembers(r) ==
  /\ pc[r] = "deleteMembers"
  /\ \/ WriteMembers(r, members \ MembersOf(loc[r].org))
     \/ UNCHANGED <<members, overtaken>>
  /\ Goto(r, "deleteInvitations")
  /\ UNCHANGED <<orgs, invitations, drawn, joined>>

DeleteInvitations(r) ==
  /\ pc[r] = "deleteInvitations"
  /\ invitations' \in {{i \in invitations : i.org # loc[r].org}, invitations}
  /\ Goto(r, "deleteOrg")
  /\ UNCHANGED <<orgs, members, drawn, joined, overtaken>>

DeleteOrganization(r) ==
  /\ pc[r] = "deleteOrg"
  /\ orgs' = {o \in orgs : o.id # loc[r].org}
  /\ Return(r)
  /\ UNCHANGED <<members, invitations, drawn, joined, overtaken>>

-----------------------------------------------------------------------------
(* Invitations *)

\* The pending invitations of u to o.
Pending(o, u) == {i \in invitations : i.org = o /\ i.user = u /\ i.pending}

\* handleInviteMember: room left, not a member, no invitation pending.
Invite(r, o, u, to, role) ==
  /\ RequireRole(o, u, {"owner", "admin"})
  /\ Membership(o, to) = {}
  /\ Cardinality(MembersOf(o)) < MembershipLimit
  /\ Pending(o, to) = {}
  /\ Begin(r, "invite", [NoLocals EXCEPT !.org = o, !.user = to, !.role = role])
  /\ UNCHANGED <<orgs, members, invitations, drawn, joined>>

CreateInvitation(r) ==
  /\ pc[r] = "invite"
  /\ drawn.invitations < MaxInvitations
  /\ invitations' = invitations \cup
       {[id |-> drawn.invitations, org |-> loc[r].org, user |-> loc[r].user,
         role |-> loc[r].role, pending |-> TRUE]}
  /\ drawn' = [drawn EXCEPT !.invitations = @ + 1]
  /\ Return(r)
  /\ UNCHANGED <<orgs, members, joined, overtaken>>

\* handleInviteMember with resend: the invitation is renewed with this role.
Resend(r, o, u, to, role) ==
  /\ RequireRole(o, u, {"owner", "admin"})
  /\ Membership(o, to) = {}
  /\ Cardinality(MembersOf(o)) < MembershipLimit
  /\ \E i \in Pending(o, to) :
       Begin(r, "resend", [NoLocals EXCEPT !.id = i.id, !.role = role])
  /\ UNCHANGED <<orgs, members, invitations, drawn, joined>>

RenewInvitation(r) ==
  /\ pc[r] = "resend"
  /\ invitations' = {IF i.id = loc[r].id THEN [i EXCEPT !.role = loc[r].role] ELSE i :
                       i \in invitations}
  /\ Return(r)
  /\ UNCHANGED <<orgs, members, drawn, joined, overtaken>>

\* Mutant: the limit is only enforced when the invitation is sent.
AcceptInvitationUnlimited(r) ==
  /\ \E i \in invitations :
       /\ i.pending
       /\ Membership(i.org, i.user) = {}
       /\ Begin(r, "claim", [NoLocals EXCEPT !.org = i.org, !.user = i.user,
                                             !.role = i.role, !.id = i.id])
  /\ UNCHANGED <<orgs, members, invitations, drawn, joined>>

\* handleAcceptInvitation: pending, not a member, room left.
AcceptInvitation(r) ==
  /\ \E i \in invitations :
       /\ i.pending
       /\ Membership(i.org, i.user) = {}
       /\ Cardinality(MembersOf(i.org)) < MembershipLimit
       /\ Begin(r, "claim", [NoLocals EXCEPT !.org = i.org, !.user = i.user,
                                             !.role = i.role, !.id = i.id])
  /\ UNCHANGED <<orgs, members, invitations, drawn, joined>>

\* Mutant: the status is written without asking for "pending".
ClaimInvitationBlind(r) ==
  /\ pc[r] = "claim"
  /\ SetPending(loc[r].id, FALSE)
  /\ Goto(r, "join")
  /\ UNCHANGED <<orgs, members, drawn, joined, overtaken>>

\* Only the request that moves it out of pending goes on.
ClaimInvitation(r) ==
  /\ pc[r] = "claim"
  /\ \E i \in invitations : i.id = loc[r].id /\ i.pending
  /\ SetPending(loc[r].id, FALSE)
  /\ Goto(r, "join")
  /\ UNCHANGED <<orgs, members, drawn, joined, overtaken>>

\* The member is created in the role the invitation had when it was read.  A
\* membership won elsewhere leaves the invitation claimed (Abandon).
JoinOrganization(r) ==
  /\ pc[r] = "join"
  /\ CreateMemberRow(r, loc[r].org, loc[r].user, loc[r].role)
  /\ joined' = [joined EXCEPT ![loc[r].id] = @ + 1]
  /\ Return(r)
  /\ UNCHANGED <<orgs, invitations>>

\* The create reports an error, applied or not: the invitation is handed back.
JoinFails(r) ==
  /\ pc[r] = "join"
  /\ \/ CreateMemberRow(r, loc[r].org, loc[r].user, loc[r].role)
     \/ UNCHANGED <<members, drawn, overtaken>>
  /\ Goto(r, "handBack")
  /\ UNCHANGED <<orgs, invitations, joined>>

HandBack(r) ==
  /\ pc[r] = "handBack"
  /\ SetPending(loc[r].id, TRUE)
  /\ Return(r)
  /\ UNCHANGED <<orgs, members, drawn, joined, overtaken>>

\* handleRejectInvitation reads a pending invitation of its user,
\* handleCancelInvitation any; both write by id.
RejectInvitation(r) ==
  /\ \E i \in invitations :
       i.pending /\ Begin(r, "end", [NoLocals EXCEPT !.id = i.id])
  /\ UNCHANGED <<orgs, members, invitations, drawn, joined>>

CancelInvitation(r, u) ==
  /\ \E i \in invitations :
       /\ RequireRole(i.org, u, {"owner", "admin"})
       /\ Begin(r, "end", [NoLocals EXCEPT !.id = i.id])
  /\ UNCHANGED <<orgs, members, invitations, drawn, joined>>

EndInvitation(r) ==
  /\ pc[r] = "end"
  /\ SetPending(loc[r].id, FALSE)
  /\ Return(r)
  /\ UNCHANGED <<orgs, members, drawn, joined, overtaken>>

-----------------------------------------------------------------------------
(* Members *)

\* handleRemoveMember: only an owner removes an owner, nobody himself.
RemoveMember(r, o, u) ==
  /\ \E actor \in Membership(o, u), target \in MembersOf(o) :
       /\ actor.role \in {"owner", "admin"}
       /\ target.role = "owner" => actor.role = "owner"
       /\ target.user # u
       /\ Begin(r, "remove", [NoLocals EXCEPT !.id = target.id])
  /\ UNCHANGED <<orgs, members, invitations, drawn, joined>>

\* handleUpdateMemberRole: only an owner changes a role from or to owner.
UpdateMemberRole(r, o, u, role) ==
  /\ \E actor \in Membership(o, u), target \in MembersOf(o) :
       /\ actor.role \in {"owner", "admin"}
       /\ "owner" \in {target.role, role} => actor.role = "owner"
       /\ Begin(r, "setRole", [NoLocals EXCEPT !.id = target.id, !.role = role])
  /\ UNCHANGED <<orgs, members, invitations, drawn, joined>>

SetRole(r) ==
  /\ pc[r] = "setRole"
  /\ WriteMembers(r, {IF m.id = loc[r].id THEN [m EXCEPT !.role = loc[r].role] ELSE m :
                        m \in members})
  /\ Return(r)
  /\ UNCHANGED <<orgs, invitations, drawn, joined>>

\* Mutant: off by one in the comparison with the number of owners.
LeaveAlways(r, o, u) ==
  /\ \E m \in Membership(o, u) :
       /\ m.role = "owner" => Cardinality(Owners(o)) > 0
       /\ Begin(r, "leave", [NoLocals EXCEPT !.org = o, !.id = m.id, !.role = m.role])
  /\ UNCHANGED <<orgs, members, invitations, drawn, joined>>

\* handleLeave: an owner leaves only when there is another.
Leave(r, o, u) ==
  /\ \E m \in Membership(o, u) :
       /\ m.role = "owner" => Cardinality(Owners(o)) > 1
       /\ Begin(r, "leave", [NoLocals EXCEPT !.org = o, !.id = m.id, !.role = m.role])
  /\ UNCHANGED <<orgs, members, invitations, drawn, joined>>

\* The delete by row id that ends a removal or a departure.
DeleteMember(r) ==
  /\ pc[r] \in {"remove", "leave"}
  /\ WriteMembers(r, {m \in members : m.id # loc[r].id})
  /\ Return(r)
  /\ UNCHANGED <<orgs, invitations, drawn, joined>>

-----------------------------------------------------------------------------
\* The request ends early, a call fails or the process dies between two calls.
Abandon(r) ==
  /\ pc[r] # "idle"
  /\ Return(r)
  /\ UNCHANGED <<orgs, members, invitations, drawn, joined, overtaken>>

Administer(r, o, u) ==
  \/ HandleDelete(r, o, u) \/ RemoveMember(r, o, u) \/ Leave(r, o, u)
  \/ \E s \in Slugs : Update(r, o, u, s)
  \/ \E role \in BodyRoles : UpdateMemberRole(r, o, u, role)
  \/ \E to \in Users, role \in BodyRoles \ {"owner"} :
       Invite(r, o, u, to, role) \/ Resend(r, o, u, to, role)

Write(r) ==
  \/ CreateOrganization(r) \/ CreateOwner(r) \/ UpdateSlug(r)
  \/ DeleteMembers(r) \/ DeleteInvitations(r) \/ DeleteOrganization(r)
  \/ CreateInvitation(r) \/ RenewInvitation(r)
  \/ ClaimInvitation(r) \/ JoinOrganization(r) \/ JoinFails(r) \/ HandBack(r)
  \/ EndInvitation(r) \/ SetRole(r) \/ DeleteMember(r)

Next ==
  \E r \in Requests :
    \/ \E u \in Users : \/ \E s \in Slugs : Create(r, u, s)
                        \/ \E o \in OrgId : Administer(r, o, u)
                        \/ CancelInvitation(r, u)
    \/ AcceptInvitation(r) \/ RejectInvitation(r)
    \/ Write(r)
    \/ Abandon(r)

Spec == Init /\ [][Next]_vars

-----------------------------------------------------------------------------
(* Properties *)

\* "Only the request that moves it out of pending goes on to insert a member":
\* however acceptances, refusals, cancellations, resends and hand-backs race,
\* and although a create that failed may have been applied, an invitation is
\* reported accepted at most once.
AcceptedOnce == \A i \in InvId : joined[i] <= 1

\* "The limit is enforced here too": an acceptance does not fill the
\* organization beyond its limit, however many invitations are out and however
\* long ago they were sent, unless members changed after it had counted them.
JoinsWithinLimit ==
  [][\A r \in Requests \ overtaken :
       pc[r] = "join" /\ members' # members /\ pc'[r] # "join"
         => Cardinality({m \in members' : m.org = loc[r].org}) <= MembershipLimit]_vars

\* "You cannot leave an organization as its only owner": a departure leaves
\* an owner behind, unless members changed after it had counted the owners.
LeaveKeepsAnOwner ==
  [][\A r \in Requests \ overtaken :
       pc[r] = "leave" /\ loc[r].role = "owner" /\ members' # members /\ pc'[r] = "idle"
         => \E m \in members' : m.org = loc[r].org /\ m.role = "owner"]_vars
=============================================================================
