SPECIFICATION FairSpec
CONSTANTS
  HeaderSize = 2
  TagSize = 1
  LZ4Size <- BlockSize
  MaxConnections = 2
  MaxHellos = 1
  CanRefuse = TRUE
  PayloadSize = 2
  BufferSize = 6
INVARIANTS
  TypeOK
  ServerIsUnderstood
  ClientIsUnderstood
PROPERTIES
  NeverBackToClear
  HandshakeCompletes
CHECK_DEADLOCK FALSE
