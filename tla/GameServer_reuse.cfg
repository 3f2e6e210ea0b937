SPECIFICATION Spec
CONSTANTS
  p1 = p1
  p2 = p2
  k1 = k1
  weak = weak
  NoKey = NoKey
  Peers <- OneSlot
  ClientKeys <- AllKeys
  WeakKeys <- Weak
  MaxConnections = 2
  MaxLoad = 3
  SigningCanFail = TRUE
  SendCanFail = TRUE
INVARIANTS
  TypeOK
  SessionsAreOwned
  ConnectionsAreServed
  EncryptionReplicaAgrees
  ReadyClientsAreValid
  AuthenticationIsEncrypted
  OneValidationAtATime
  MessagesFramed
  IInv
  SessionsFitTheHost
PROPERTIES
  EncryptionNeedsOwnAck
CHECK_DEADLOCK FALSE
