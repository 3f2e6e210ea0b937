SPECIFICATION FairSpec
CONSTANTS
  c1 = c1
  c2 = c2
  c3 = c3
  Clients <- ThreeClients
  MaxClientsConnected = 2
  CountdownTicks = 2
  MaxTick = 4
  SendCanFail = FALSE
INVARIANTS
  FlowInOrder
  AnnouncedTickHolds
  IInv
PROPERTIES
  StartReachesPlayers
  MatchStarts
CHECK_DEADLOCK FALSE
