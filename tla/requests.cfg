SPECIFICATION FairSpec
CONSTANTS
    Methods = {"GET"}
    Paths <- MCPaths
    Cuts <- Nowhere
    PartialWrites = FALSE
    BufSize = 10
    UriMax = 5
    RespLen = 2
    MaxRequests = 3
INVARIANTS AnswersMatch
PROPERTIES EveryRequestAnswered
CHECK_DEADLOCK FALSE
