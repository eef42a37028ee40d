SPECIFICATION FairSpec
CONSTANTS
    Sweepers = {s1}
    Storers = {c1}
    Ingesters = {i1}
    Cancellable = {}
    CanFail = FALSE
    Nobody = Nobody
    Entities = {e1, e2}
    DeleteBatchSize = 1
    MaxVer = 3
INVARIANTS
    AckedNotLost
    LiveIsSearchable
PROPERTIES
    VectorsGoAfterCommit
    StaleIsSwept
CHECK_DEADLOCK FALSE
