SPECIFICATION Spec
CONSTANTS
    s = s
    v = v
    w = w
    Sessions <- MCOne
    NumLabels = 2
    Voices <- MCVoices
    NumIds = 5
    UserOps = 2
    Rebuilds = 2
    Reruns = 2
CHECK_DEADLOCK FALSE
SYMMETRY Voiced
INVARIANTS
    CurationIsCarried
PROPERTIES
    RebuildHonoursPins
    IdentitiesLast
