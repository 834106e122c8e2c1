CONSTANTS
    Commands = 3
    CmdCapacity = 2
    EngineBatch = 2
    MaxEvents = 2
    Warmup = 1
    LogCapacity = 2
    LogBatch = 2
SPECIFICATION Spec
CHECK_DEADLOCK FALSE
INVARIANTS
    TypeOK
    NoCommandIsLost
    WindowIsExact
    IdleMeansFlushed
    RecordsAreAccounted
    EverythingIsOut
PROPERTY
    PipelineEnds
