SPECIFICATION Spec
CONSTANTS
  p1 = p1
  p2 = p2
  k1 = k1
  weak = weak
  NoKey = NoKey
  Peers <- TwoSlots
  ClientKeys <- StrongKey
  WeakKeys <- None
  MaxConnections = 2
  MaxLoad = 2
  SigningCanFail = FALSE
  SendCanFail = FALSE
INVARIANTS
  BindingsAgree
PROPERTIES
  LifecycleImplemented
CHECK_DEADLOCK FALSE
