SPECIFICATION Spec
CONSTANTS
  Wallets <- MCWallets
  Scopes = {"ann", "bob"}
  Attempts = {a1, a2, a3}
  Wanted <- MCWanted
  FaultSets = {{}, {"overlap", "redis", "die", "commit"}}
  Opening <- MCOpening
  MaxBigint = 6
  Freezable = {1}
  maxIssuanceCents = 2
  Keys = {"k"}
  NoKey = NoKey
  NoWallet = NoWallet
  Nobody = Nobody
  NoResponse = NoResponse
SYMMETRY Perms
INVARIANTS
  TypeOK
  AnswersTruthful
  MintedOnceWithoutFaults
CHECK_DEADLOCK FALSE
