SPECIFICATION MCSpec
CONSTANTS
  Wallets <- MCWallets
  r1 = r1
  r2 = r2
  Requests = {r1, r2}
  Ids <- MCIds
  Holders <- MCHolders
  Calls <- MCCalls
  Opening <- MCOpening
  Freezable = {}
  PoolSize = 2
  Ticks = {0, 1}
  MaxBigint = 4
  NoKey = NoKey
  NoWallet = NoWallet
  Nobody = Nobody
  Queries <- MCQueries
  PageLimit = 2
  AnyType = AnyType
  Targets <- MCTargets
  MaxRuns = 2
  Seeder = Seeder
INVARIANTS
  OutcomeTruthful
  PagesComplete
  SeedKeepsBooks
CHECK_DEADLOCK FALSE
