SPECIFICATION FairSpec
CONSTANTS
    Pipelines <- MCPipelines
    TapQueue = 2
    FeedQueue = 2
    Preroll = 2
    GateWindow = 2
    WireRoom = 2
    Frames = 5
    Deaths = 1
CHECK_DEADLOCK FALSE
INVARIANTS
    AudioFlows
    NoWorkerIsLeft
PROPERTY
    PipelinesEnd
