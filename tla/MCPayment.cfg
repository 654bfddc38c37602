SPECIFICATION Spec
CONSTANTS
  Wallets <- MCWallets
  Scopes <- MCWallets
  Attempts = {a1, a2}
  Wanted <- MCWanted
  Opening <- MCOpening
  MaxBigint = 3
  Freezable = {2}
  Keys = {"k", "l"}
  NoKey = NoKey
  NoWallet = NoWallet
  Nobody = Nobody
  NoResponse = NoResponse
SYMMETRY Perms
INVARIANTS
  TypeOK
  AnswersAgree
  RetryFindsPayment
  EventsTruthful
CHECK_DEADLOCK FALSE
