SPECIFICATION FairSpec
CONSTANTS
    a = a
    b = b
    Connections <- MCOne
    Frames <- MCFrames
    Enveloped <- MCNoEnvelope
    Slots = 1
    PoolTarget = 2
    MaxBuffer = 2
    FlushRetries = 1
    Overlap = FALSE
    InOrder = FALSE
    Sends = 5
    BadFrames = 0
    Faults = 1
    LostReplies = 1
    Crashes = 0
INVARIANTS
    MemoryIsBounded
PROPERTIES
    StreamsSettle
