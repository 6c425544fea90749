SPECIFICATION Spec
CONSTANTS
    a = a
    b = b
    Connections <- MCConnections
    Frames <- MCFew
    Enveloped <- MCSomeEnvelope
    Slots = 2
    PoolTarget = 2
    MaxBuffer = 2
    FlushRetries = 1
    Overlap = FALSE
    InOrder = FALSE
    Sends = 5
    BadFrames = 1
    Faults = 1
    LostReplies = 0
    Crashes = 1
SYMMETRY Reconnects
INVARIANTS
    AcksAboveBaseAreDurable
    FramesAreStoredOnce
    NoFrameIsLost
