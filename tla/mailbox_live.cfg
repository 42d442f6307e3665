SPECIFICATION FairSpec
CONSTANTS
  Producers = {p1, p2}
  QueueSize = 2
  Modulus = 8
  Start = 0
  MaxPush = 3
  StoreBuffers = FALSE
  NULL = NULL

INVARIANTS NoLostWakeup NothingLeaked
PROPERTY EventuallyReceived
CHECK_DEADLOCK FALSE
