SPECIFICATION Spec
CONSTANTS
    Sweepers = {s1}
    Storers = {c1}
    Ingesters = {i1}
    Cancellable = {s1}
    CanFail = TRUE
    Nobody = Nobody
    Entities = {e1, e2}
    DeleteBatchSize = 2
    MaxVer = 3
INVARIANTS
    NoOrphanTx
    ArchiveIsAtomic
PROPERTY DurableStays
CHECK_DEADLOCK FALSE
