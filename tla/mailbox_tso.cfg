SPECIFICATION Spec
CONSTANTS
  Producers = {p1, p2}
  QueueSize = 2
  Modulus = 8
  Start = 6
  MaxPush = 4
  StoreBuffers = TRUE
  NULL = NULL
SYMMETRY Symmetry
INVARIANTS NoOverwrite InOrder IInv
PROPERTIES ImplementsFifo OnlyKnownLosses
CHECK_DEADLOCK FALSE
