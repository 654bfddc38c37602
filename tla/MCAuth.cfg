SPECIFICATION Spec
CONSTANTS
  Emails = {"ann"}
  Attempts = {a1, a2, a3, a4}
  FaultSets = {{}, {"fail"}, {"overlap", "fail"}}
  maxFailedLogins = 2
  lockoutDuration = 1
  RefreshTokenTTL = 2
  failedLoginsRange = 2
  MaxClock = 2
  NoUser = NoUser
  NoToken = NoToken
SYMMETRY Perms
INVARIANTS
  TypeOK
  LockJustified
  LockedAtThreshold
  OneSessionPerLogin
CHECK_DEADLOCK FALSE
