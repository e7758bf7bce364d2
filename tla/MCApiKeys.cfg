\* Two requests with one key, quotas up to two, a budget of two requests in
\* three ticks; counters are collected as early as possible.
CONSTANTS
  Requests = {r1, r2}
  MaximumKeysPerUser = 1
  RateLimitMax = 2
  RateLimitWindow = 3
  GCInterval = 1
  GCFactor = 1
  Attempts = 2
  MaxQuota = 2
  MaxKeys = 1
SYMMETRY Symmetry
SPECIFICATION Spec
INVARIANTS TypeOK QuotaKept KeyRateBounded
