SPECIFICATION Spec
CONSTANTS
    a = a
    b = b
    Connections <- MCConnections
    Frames <- MCFew
    Enveloped <- MCNoEnvelope
    Slots = 2
    PoolTarget = 1
    MaxBuffer = 2
    FlushRetries = 0
    Overlap = FALSE
    InOrder = TRUE
    Sends = 5
    BadFrames = 0
    Faults = 1
    LostReplies = 0
    Crashes = 0
INVARIANTS
    AcksAreDurable
