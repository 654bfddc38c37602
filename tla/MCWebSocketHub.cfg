SPECIFICATION Spec
CONSTANTS
  s1 = s1
  s2 = s2
  c1 = c1
  c2 = c2
  c3 = c3
  e1 = e1
  e2 = e2
  ann = ann
  bob = bob
  Servers = {s1, s2}
  Clients = {c1, c2, c3}
  Events = {e1, e2}
  Wallets = {ann, bob}
  ServerOf <- Home
  WalletOf <- Owner
  RoomOf <- Rooms
  Scenarios <- Offered
  channelBuffer = 1
  sendBufferSize = 1
  NoEvent = NoEvent
INVARIANTS
  TypeOK
  AtMostOnce
  SameOrder
PROPERTIES
  Delivered
  LeaversEnd
CHECK_DEADLOCK FALSE
