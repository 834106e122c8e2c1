CONSTANTS
    HeaderSize = 2
    CommandSize = 2
    kChunkCommands = 2
    NoConfig = NoConfig
    Corrupt = Corrupt
    Width64 = 4
    Width32 = 3
    kMaxBandRadius = 2
    kMaxPoolCapacity = 4
    MaxReserve = 8
    GenerateArgs <- MCGenerateArgs
    RunArgs <- MCRunArgs
    E2eArgs <- MCE2eArgs
    MaxChanges = 3
SPECIFICATION ToolSpec
CHECK_DEADLOCK FALSE
INVARIANT SubmittedCommandsAreValid
