SPECIFICATION AlgSpec
CONSTANTS
    FrameMs = 2
    Threshold = 1
    MinSpeech = 4
    MergeGap = 3
    Pad = 3
    MaxSpan = 12
    BlockGap = 1
    MaxBlock = 14
    NumSpeakers = 3
    MinTurn = 2
    UtteranceGap = 2
    MaxUtterance = 6
    CrosstalkMax = 1
    GapMs = 2
    MinTurns = 2
    Window = 2
    ChurnMin = 1
    NumClasses = 3
    ParentOf <- MCOntology
    TagSpan = 10
    TagWindow = 4
    TagHop = 2
    MinWindow = 1
    TagThreshold = 1
    Consecutive = 2
    Enter = 2
    Sustain = 1
    BridgeGap = 2
    MinWindows = 2
    TopK = 2
    MaxSpans = 2
    Header = 2
    FrameBytes = 2
    Rate = 3
    Second = 2
    NumFrames = 8
    Levels <- MCLevels
    MaxTime = 7
    MaxRows = 3
    MaxMoment = 4
    MaxCarried = 4
    SplitMinClean = 2
    TurnMinClean = 1
    SplitShapes <- MCSplitShapes
    MaxSplit = 4
    TurnShapes <- MCTurnShapes
    MaxTalk = 5
    WindowShapes <- MCWindowShapes
    MaxWindows = 5
    MaxTotal = 40
    MaxBlob = 5
    MaxSegments = 3
    MaxData = 16
    MediaSessions = {1, 2}
    Listeners = {1, 2}
    PieceBudget = 1
    MaxEdge = 3
    MaxArtifacts = 3
    MaxVoices = 3
    MaxTrack = 12
    MaxEvents = 7
    MaxCreated = 2
CHECK_DEADLOCK FALSE
INVARIANTS
    SpeechIsCovered
    UtterancesAreFaithful
    ConversationsAreWhole
    SoundsAreTagged
    CurationFollowsSpeech
    SessionsAreShown
    MediaIsServed
