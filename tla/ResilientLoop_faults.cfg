SPECIFICATION FairSpec
CONSTANTS
    N = 3
    MaxParallel = 2
    ChanCap = 2
    CanFail = TRUE
    CanFailStamp = FALSE
    CanCancel = TRUE
    MaxRestarts = 1
INVARIANTS
    CheckpointHonest
    AtMostOneDropped
    SkippedAccounted
PROPERTIES
    CancelledReturns
    StreamAccounted
CHECK_DEADLOCK FALSE
