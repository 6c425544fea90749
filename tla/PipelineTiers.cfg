SPECIFICATION FairSpec
CONSTANTS
    Utterances = 1
    Deployments <- BothHalves
    MaxAttempts = 2
    Failures = 1
    Redos = 1
INVARIANT TranscriptsAreUnique
INVARIANT OnlyRacersAreStray
INVARIANT OutputsAreOfOneGeneration
PROPERTY TiersConverge
CHECK_DEADLOCK FALSE
