\* Two sessions, two requests, three ticks, the cookie cache on and no guard.
CONSTANTS
  Requests = {r1, r2}
  Tokens = {t1, t2}
  Configs = {{"cache"}}
  ExpiresIn = 2
  UpdateAge = 0
  ImpersonationSessionDuration = 1
  CacheMaxAge = 1
  BanDurations = {0, 1}
  MaxLatency = 1
  MaxTime = 3
SYMMETRY Symmetry
SPECIFICATION Spec
PROPERTIES RevocationBounded
CHECK_DEADLOCK FALSE
