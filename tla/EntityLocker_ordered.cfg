SPECIFICATION FairSpec
CONSTANTS
    Procs = {p1, p2, p3}
    IDs <- MCIDs
    Shards = {3, 9, 12}
    ShardOf <- OrderedShards
    Batches <- SafetyBatches
INVARIANTS
    EntityExclusive
    ShardsGivenBack
    NoABBADeadlock
PROPERTIES
    EveryCallReturns
