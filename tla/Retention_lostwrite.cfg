SPECIFICATION Spec
CONSTANTS
    Sweepers = {s1}
    Storers = {c1}
    Ingesters = {}
    Cancellable = {}
    CanFail = TRUE
    Nobody = Nobody
    Entities = {e1, e2}
    DeleteBatchSize = 1
    MaxVer = 3
INVARIANT AckedNotLost
CHECK_DEADLOCK FALSE
