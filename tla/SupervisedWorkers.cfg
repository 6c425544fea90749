CONSTANTS
    Items <- DuoItems
    Sessions <- DuoSessions
    Pipelines <- DuoPipelines
    SessionOf <- DuoSessionOf
    PipelineOf <- DuoPipelineOf
    Priority <- DuoPriority
    FollowUp <- DuoFollowUp
    NoItem = "none"
    MaxAttempts = 2
    DiscoveryBatch = 1
    BackoffBase = 1
    BackoffCap = 1
    UnavailableDelay = 1
    Horizon = 7
    MaxRows = 1
    Stops = 2
    Outages = 0
    DbFailures = 0
    RestartBase = 1
    RestartCap = 2
    RestartReset = 1
    MaxLag = 1

SPECIFICATION FairSupSpec
CHECK_DEADLOCK FALSE

INVARIANT CrashLoopIsThrottled
PROPERTY JobsSettleUnderSupervision
PROPERTY ShutdownIsClean
