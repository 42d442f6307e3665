SPECIFICATION Spec
CONSTANTS
    MaxConn = 2
    Fds = {4, 5, 6}
    Listen = 3
    MergedEvents = TRUE
    HandshakeSecs = 1
    KeepAliveSecs = 2
    MaxTick = 1
    MaxBacklog = 1
    RespLen = 2
    MaxCompletions = 1
INVARIANTS TypeOK NothingLeaked ListensForItsState EvictedOnTime HandshakeSoonEvicted
PROPERTIES OnlyAcceptStarts
