SPECIFICATION FairSpec
CONSTANTS
    Sessions = {1, 2}
    Sweepers = {1, 2}
    Stale = 3
    Heartbeat = 1
    Wait = 1
    Instants = 1
    Changes = 1
    Returns = 1
    DbFailures = 1
INVARIANTS
    OnlyRotationsRestart
    RotatesOncePerInstant
PROPERTIES
    SweepSparesTheActive
    AbandonedSessionsEnd
