SPECIFICATION Spec
CONSTANTS
    CanFail = TRUE
    None = None
    Workers = {"w1", "w2"}
    DialogFacts <- MCDialogFacts
    Topic <- MCTopic
    Negated <- MCNegated
    Messages <- MCMessages
    Resolutions = {"keepBoth", "newer"}
    MaxAttempts = 2
    MaxMessages = 2
    Namespaces = {"n1", "n2"}
    Default = "n1"
    VectorIds <- MCVectorIds
    VectorValues <- MCVectorValues
    Dim <- MCDim
    Decodes = {"a2", "b2"}
    MaxVectors = 2
    WarmBatch = 1
    UpsertBatches <- MCUpsertBatches
    Disks <- MCDisks
    WalkEntities <- MCEntities
    Content <- MCContent
    Category <- MCCategory
    Scores <- MCScores
    Tokens <- MCTokens
    Categories <- MCCategories
    Worlds <- MCWorlds
    Asked <- MCAsked
    Depth = 2
    Limits <- MCLimits
    Hops = 3
    MaxSeeds = 1
    TopKPerHop = 1
    VectorTopK = 2
    MaxArchived = 1
    SearchProcs = {"p1", "p2"}
    SearchIds = {1, 2}
    Texts = {"a", "b"}
    HasFTS = TRUE
    IndexHits <- MCHits
    Limit = 2
    MaxWrites = 1
    Sessions = {"s1"}
    EpisodeIds = {"e1", "e2"}
    EventIds = {1}
    EpisodeEntities = {1}
    Roles = {"extracted", "mentioned"}
    MaxTime = 1
    MaxItems = 2
    Runners = {"w1", "w2"}
    Given = {1, 2, 3}
    MaxRows = 5
    Near <- MCNear
    Linked <- MCLinked
    ClusterSize = 2
    Refusable = {4}
    Summarisers = {"w1", "w2"}
    SummaryEntities = {1, 2, 3}
    Similar <- MCSimilar
    Config <- MCConfig
    MaxRecursionDepth = 2
    MaxNodes = 4
    NoNode = 0
    Believers = {"c1", "c2"}
    MaxBeliefs = 2
    MaxEvidence = 2
    MaxRecords = 1
    MaxClock = 1
    MaxEdits = 4
    GivenShares <- MCGivenShares
    Named = {"", "Superseded", "other"}
    Entities = {1, 2, 3, 4}
    Weight <- MCWeight
    InitialEdges <- MCInitialEdges
    MaxIterations = 3
    MinSize = 2
    MaxChanges = 1
    Procs <- MCProcs
    Kind <- MCKind
    FrontCallers = {"a", "b", "c"}
    FrontProc <- MCFrontProc
    FrontIds = {1, 2, 3}
    SchemaOf <- MCSchemaOf
    Task = "task"
    World = "world"
    Closest <- MCClosest
    SimilarTo <- MCSimilarTo
    TopK = 3
    Requests <- MCRequests
    Budgets <- MCBudgets
    Processes = {"p1", "p2"}
    Script <- MCScript
    MaxBoots = 4
    StmtRequests = {"r1", "r2", "r3"}
    StmtQueries = {"q1", "q2"}
    MaxCachedStmts = 1
    MaxStmts = 4
    NoStmt = NoStmt
INVARIANTS
    StoredIsSound
    DerivedIsSound
    FoundIsSound
    IndexSound
    FrontEndsSound
    SchemaMatchesRows
    StatementsAccounted
PROPERTIES
    StepsKept
CHECK_DEADLOCK FALSE
