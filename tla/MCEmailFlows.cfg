\* Two requests, two accounts, two addresses, three links.
CONSTANTS
  Requests = {r1, r2}
  Emails = {e1, e2}
  MaxUsers = 2
  MaxLinks = 3
SYMMETRY Symmetry
SPECIFICATION Spec
INVARIANTS TypeOK ProvenUnlessOverlapped
PROPERTIES MovesNeedApproval
CHECK_DEADLOCK FALSE
