CONSTANTS
    a = a
    b = b
    c = c
    d = d
    e = e
    Requests = {a, b, c, d, e}
    Kind <- MixKind
    Inline = {e}
    At <- MixAt
    Retries = 3
    DbFailures = 1
    LostReplies = 1
    BlobFaults = 1
    Crashes = 1

SPECIFICATION Spec

INVARIANT RowHasObject
INVARIANT OrphanIsAccountedFor
INVARIANT RaceIsSettled
