SPECIFICATION FairSpec
CONSTANTS
    MaxConn = 2
    Fds = {4, 5}
    Listen = 3
    MergedEvents = FALSE
    HandshakeSecs = 1
    KeepAliveSecs = 2
    MaxTick = 1
    MaxBacklog = 1
    RespLen = 1
    MaxCompletions = 1
INVARIANTS NothingLeaked
PROPERTIES SilentEvicted
