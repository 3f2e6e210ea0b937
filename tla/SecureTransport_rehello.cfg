SPECIFICATION Spec
CONSTANTS
  HeaderSize = 2
  TagSize = 1
  LZ4Size <- BlockSize
  MaxConnections = 1
  MaxHellos = 2
  CanRefuse = FALSE
  PayloadSize = 2
  BufferSize = 6
INVARIANTS
  ServerIsUnderstood
CHECK_DEADLOCK FALSE
