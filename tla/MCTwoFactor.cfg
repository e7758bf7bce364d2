\* Two requests, two challenges answered by TOTP, OTP or backup code.
CONSTANTS
  Requests = {r1, r2}
  Challenges = {c1, c2}
  MaxVerifyAttempts = 2
  BackupCodeCount = 1
  SkipVerificationOnEnable = FALSE
  MaxStep = 1
  MaxIds = 2
SYMMETRY Symmetry
SPECIFICATION Spec
INVARIANTS TypeOK OneSessionPerChallenge AttemptsCounted TOTPCodeOnce BackupCodeOnce
PROPERTIES CodesNeverReturn
CHECK_DEADLOCK FALSE
