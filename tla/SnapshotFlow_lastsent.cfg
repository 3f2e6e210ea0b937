SPECIFICATION Spec
CONSTANTS
  c1 = c1
  c2 = c2
  Clients <- OneClient
  MaxTick = 2
  MaxInputs = 0
  CanLose = FALSE
INVARIANTS
  LastSentWasSent
CHECK_DEADLOCK FALSE
