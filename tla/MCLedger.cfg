SPECIFICATION MCSpec
CONSTANTS
  Wallets <- MCWallets
  r1 = r1
  r2 = r2
  r3 = r3
  Requests = {r1, r2, r3}
  Ids = {r1, r2, r3}
  Holders = {r1, r2, r3}
  Calls <- MCCalls
  Opening <- MCOpening
  Freezable = {2}
  PoolSize = 2
  Ticks = {0}
  MaxBigint = 4
  NoKey = NoKey
  NoWallet = NoWallet
  Nobody = Nobody
INVARIANTS
  TypeOK
  EntryChain
  DoubleEntry
  OncePerKey
  LockOrder
  SeenIsCurrent
PROPERTIES
  Postings
  EveryRequestAnswered
CHECK_DEADLOCK FALSE
