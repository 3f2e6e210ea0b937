SPECIFICATION FairSpec
CONSTANTS
  m1 = m1
  m2 = m2
  Messages <- TwoMessages
  MustSubscribe = TRUE
  MaxPushes = 4
INVARIANTS
  TypeOK
  NoLostWakeup
PROPERTIES
  MailboxImplemented
  MailboxServed
  ShutdownEnds
CHECK_DEADLOCK FALSE
