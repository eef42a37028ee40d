SPECIFICATION Spec
CONSTANTS
    N = 3
    MaxParallel = 2
    ChanCap = 2
    CanFail = FALSE
    CanFailStamp = FALSE
    CanCancel = FALSE
    MaxRestarts = 1
INVARIANT SkippedSucceeded
CHECK_DEADLOCK FALSE
