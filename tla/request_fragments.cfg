SPECIFICATION Spec
CONSTANTS
    Methods = {"GET"}
    Paths <- MCPaths
    Cuts <- Anywhere
    PartialWrites = FALSE
    BufSize = 10
    UriMax = 5
    RespLen = 2
    MaxRequests = 3
INVARIANTS AnswersMatch

CHECK_DEADLOCK FALSE
