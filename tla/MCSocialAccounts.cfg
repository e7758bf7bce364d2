\* Two requests, one identity, two users and addresses, two flows.
CONSTANTS
  Requests = {r1, r2}
  Identities = {i1}
  Emails = {e1, e2}
  TrustedProvider = TRUE
  LinkingDisabled = FALSE
  AllowDifferentEmails = TRUE
  AllowUnlinkingAll = FALSE
  DisableSocialSignUp = FALSE
  ForeignKeys = FALSE
  CookieCache = TRUE
  MaxUsers = 2
  MaxRows = 3
  MaxStates = 2
  MaxRegistrations = 1
  MaxMoves = 1
SYMMETRY Symmetry
SPECIFICATION Spec
INVARIANTS IdentityHasOneUser LinkedByProvenAddress EveryUserHasAWayIn
CHECK_DEADLOCK FALSE
