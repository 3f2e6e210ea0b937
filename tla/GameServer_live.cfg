SPECIFICATION FairSpec
CONSTANTS
  p1 = p1
  p2 = p2
  k1 = k1
  weak = weak
  NoKey = NoKey
  Peers <- OneSlot
  ClientKeys <- AllKeys
  WeakKeys <- Weak
  MaxConnections = 2
  MaxLoad = 2
  SigningCanFail = FALSE
  SendCanFail = FALSE
PROPERTIES
  ValidationsEnd
  RefusedClientsLeave
  DepartedClientsForgotten
CHECK_DEADLOCK FALSE
