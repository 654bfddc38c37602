SPECIFICATION MCNetworkSpec
CONSTANTS
  Wallets = {"ann", "bob"}
  Sockets = {s1, s2}
  MaxRequests = 2
  BehindAuthenticate = TRUE
  MaxPostings <- AnnIsPaid
  NoWallet = NoWallet
  NoSocket = NoSocket
  NoBalance = NoBalance
PROPERTIES
  TokenInURLConnects
CHECK_DEADLOCK FALSE
