SPECIFICATION Spec
CONSTANTS
  Base = 8
  KeyBytes = 2
  NonceBytes = 2
  SignatureBytes = 2
  MaxAuthTokenLength = 2
  Domain <- SignedDomain
  Version = 1
  TTL = 60
  Channels <- AllChannels
  Inputs <- CutAndExtended
  WellFormed <- WrittenOnChannels
  ServerKeys <- OneKey
  Signatures <- OneSignature
  Times <- TwoTimes
  SnapshotIds <- Identifiers
INVARIANTS
  TypeOK
  AcceptedIsWhole
  WellFormedIsAccepted
  AttestationVerifies
  PatchKeepsSnapshot
CHECK_DEADLOCK FALSE
