CONSTANTS
    Items <- MCItems
    Sessions <- MCSessions
    Pipelines <- MCPipelines
    SessionOf <- MCSessionOf
    PipelineOf <- MCPipelineOf
    Priority <- MCPriority
    FollowUp <- MCFollowUp
    NoItem = "none"
    MaxAttempts = 2
    DiscoveryBatch = 1
    BackoffBase = 1
    BackoffCap = 2
    UnavailableDelay = 1
    Horizon = 2
    MaxRows = 2
    Stops = 1
    Outages = 1
    DbFailures = 1

SPECIFICATION Spec

INVARIANT ClaimIsExclusive
INVARIANT AttemptsExact
INVARIANT DeadIsEarned
PROPERTY ImplementsLifecycle
