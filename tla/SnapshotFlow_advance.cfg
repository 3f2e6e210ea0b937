SPECIFICATION FairSpec
CONSTANTS
  c1 = c1
  c2 = c2
  Clients <- OneClient
  MaxTick = 4
  MaxInputs = 3
  CanLose = TRUE
INVARIANTS
  AcksWereSent
PROPERTIES
  SnapshotsAdvance
  AcksAdvance
  FreshStateIsSent
CHECK_DEADLOCK FALSE
