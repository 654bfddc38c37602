SPECIFICATION Spec
CONSTANTS
  Wallets <- MCWallets
  Merchants = {1}
  Attempts = {a1, a2}
  Wanted <- MCWanted
  Keys = {"k", "l"}
  FaultSets = {{"overlap"}}
  Opening <- MCOpening
  MaxBigint = 3
  PageLimit = 100
  Amounts = {1}
  ExpirySecs = {1}
  TicksPerSecond = 2
  MaxRequests = 1
  MaxClock = 3
  NoKey = NoKey
  NoWallet = NoWallet
  Nobody = Nobody
SYMMETRY Perms
INVARIANTS
  PaidOnceDespiteOverlap
CHECK_DEADLOCK FALSE
