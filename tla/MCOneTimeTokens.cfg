\* Three requests racing over two tokens, two stored values.
CONSTANTS
  Requests = {r1, r2, r3}
  Tokens = {t1, t2}
  TTL = 1
  MaxTime = 2
  MaxRows = 2
SPECIFICATION Spec
INVARIANTS TypeOK SingleUse
PROPERTIES ImplementsVault ExpiredCollected
CHECK_DEADLOCK FALSE
