SPECIFICATION Spec
CONSTANTS
  Wallets <- MCWallets
  Merchants = {1}
  Attempts = {a1, a2}
  Wanted <- MCWanted
  Keys = {"k", "l"}
  FaultSets = {{}, {"overlap", "database", "commit", "die"}}
  Opening <- MCOpening
  MaxBigint = 3
  PageLimit = 1
  Amounts = {1}
  ExpirySecs = {1}
  TicksPerSecond = 2
  MaxRequests = 2
  MaxClock = 3
  NoKey = NoKey
  NoWallet = NoWallet
  Nobody = Nobody
SYMMETRY Perms
INVARIANTS
  TypeOK
  PaidIsPaid
  AnswersTruthful
  PaidOnceWithoutFaults
PROPERTIES
  FinalStatus
CHECK_DEADLOCK FALSE
