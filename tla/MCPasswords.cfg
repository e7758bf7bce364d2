\* Two requests, three passwords, two sessions, one reset link.
CONSTANTS
  Requests = {r1, r2}
  KeepSessionsOnPasswordReset = FALSE
  KeepSessionsOnPasswordChange = FALSE
  CookieCache = TRUE
  MaxPasswords = 3
  MaxSessions = 2
  MaxTokens = 1
SYMMETRY Symmetry
SPECIFICATION Spec
INVARIANTS OldSessionsEvicted
CHECK_DEADLOCK FALSE
