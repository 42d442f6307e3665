SPECIFICATION PartsSpec
CONSTANTS
    MaxConn = 4
    HeapMax = 4
    Times = {1, 2}
    Letters = {97}
    MaxLen = 6
    PoolIds = 3
    MaxFills = 3
    FrameRadix = 2
    ExtLen = 2
    MaxFrames = 2
    Frames <- MCFrames
    Types = {"u8", "f32"}
    TYPE_SIZES <- MCSizes
    NoType = "none"
    OtherType = "string"
    Elements <- MCElements
    MaxElements = 3
    Programs <- MCPrograms
    Inline = 3
    Radix = 4
    Objects <- MCObjects
    Contents <- MCGenerated
    Emit <- MCEmit
    Removals <- MCRemovals
    MaxEdits = 1
    MaxRuns = 2
INVARIANTS
    IInv
    UuidWhole
    PointersInOrder
    AgreesWithSplit
    FramesAsSent
    FieldsTilePacket
    GettersReadTheirField
    WalkFindsStatements
    SizeIsExact
    RoundTrip
    CutOnlyInLastValue
    StandardDecoderAgrees
    VerifiedIsFixedPoint
    MismatchOnlyAfterEdit
    CompilesWithOneCompiler
PROPERTIES
    NeverRefused
    ImplementsTimerTable
    EntropyReadOnce
CHECK_DEADLOCK FALSE
