SPECIFICATION FairSpec
CONSTANTS
    a = a
    b = b
    Requests = {a, b}
    Kinds <- MCKinds
    ReloadRetryLimit = 2
    Watchdog = TRUE
    Quiets = 2
    Wedges = 2
CHECK_DEADLOCK FALSE
INVARIANTS
    InferenceHasItsModels
    FailureIsOwnedUp
PROPERTIES
    RequestsAreAnswered
    WedgeIsResolved
