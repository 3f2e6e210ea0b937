SPECIFICATION Spec
CONSTANTS
  c1 = c1
  c2 = c2
  c3 = c3
  Clients <- TwoClients
  MaxClientsConnected = 2
  CountdownTicks = 1
  MaxTick = 2
  SendCanFail = FALSE
INVARIANTS
  PlayersAreInitialised
CHECK_DEADLOCK FALSE
