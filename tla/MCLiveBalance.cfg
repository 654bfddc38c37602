SPECIFICATION MCSpec
CONSTANTS
  Wallets = {"ann", "bob"}
  Sockets = {s1, s2}
  MaxRequests = 2
  BehindAuthenticate = FALSE
  MaxPostings <- AnnIsPaid
  NoWallet = NoWallet
  NoSocket = NoSocket
  NoBalance = NoBalance
INVARIANTS
  TypeOK
  OneConnection
  LiveIsCurrent
PROPERTIES
  KeepsTrying
  NoFlicker
  RequestsSettle
CHECK_DEADLOCK FALSE
