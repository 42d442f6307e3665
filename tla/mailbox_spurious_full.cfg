SPECIFICATION Spec
CONSTANTS
  Producers = {p1, p2}
  QueueSize = 2
  Modulus = 8
  Start = 6
  MaxPush = 5
  StoreBuffers = FALSE
  NULL = NULL

PROPERTY RejectOnlyWhenFull
CHECK_DEADLOCK FALSE
