SPECIFICATION Spec
CONSTANTS
  Producers = {p1}
  QueueSize = 2
  Modulus = 8
  Start = 0
  MaxPush = 2
  StoreBuffers = TRUE
  NULL = NULL

INVARIANT NoLostWakeup
CHECK_DEADLOCK FALSE
