\* One session, two requests, three ticks, the admin plugin registered, with
\* and without AcceptStaleAuthorization; and no plugin and no cache.
CONSTANTS
  Requests = {r1, r2}
  Tokens = {t1}
  Configs = {{}, {"guards", "cache"}, {"guards", "cache", "stale"}}
  ExpiresIn = 2
  UpdateAge = 0
  ImpersonationSessionDuration = 1
  CacheMaxAge = 1
  BanDurations = {0, 1}
  MaxLatency = 1
  MaxTime = 3
SYMMETRY Symmetry
SPECIFICATION Spec
INVARIANTS TypeOK
PROPERTIES ImpersonationBounded BanEffective StaleBanBounded
CHECK_DEADLOCK FALSE
