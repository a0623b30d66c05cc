SPECIFICATION FairSpec
CONSTANTS
    Flushers = {f1, f2}
    MaxSeq = 4
    PageLimit = 2
    MaxFailures = 1
INVARIANTS
    HoldsPrefix
    SyncNeverGaps
    CursorsAgree
PROPERTIES
    CatchesUp
