SPECIFICATION FairSpec
CONSTANTS
  p1 = p1
  p2 = p2
  k1 = k1
  weak = weak
  NoKey = NoKey
  Peers <- OneSlot
  ClientKeys <- StrongKey
  WeakKeys <- None
  MaxConnections = 1
  MaxLoad = 2
  SigningCanFail = FALSE
  SendCanFail = TRUE
PROPERTIES
  RefusedClientsLeave
CHECK_DEADLOCK FALSE
