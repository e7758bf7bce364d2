\* Two requests, one organization for two members, three users.
CONSTANTS
  Requests = {r1, r2}
  Users = {u1, u2, u3}
  Slugs = {s1}
  BodyRoles = {"owner", "admin"}
  OrganizationLimit = 1
  MembershipLimit = 2
  MaxOrgs = 1
  MaxRows = 3
  MaxInvitations = 2
SYMMETRY Symmetry
SPECIFICATION Spec
INVARIANTS TypeOK AcceptedOnce
PROPERTIES JoinsWithinLimit LeaveKeepsAnOwner
CHECK_DEADLOCK FALSE
