SPECIFICATION FairSpec
CONSTANTS
    CanFail = TRUE
    Tasks <- MCTasks
    Prio <- MCPrio
    NoGoal = Unset
    Goal = 1
    CascadeLimit = 3
    Graphs <- MCGraphs
    MaxCascades = 1
    Ids <- MCIds
    Contents <- MCContents
    BatchSize = 4
    MaxEdits = 2
    Accessed <- MCAccessed
    BufferSize = 1
    FlushSize = 2
    MaxTouches = 4
    Writers = {w1}
    MaxEnvs = 4
    Commands <- MCCommands
    AutoMigrates = {TRUE, FALSE}
    MaxRequests = 2
    Kinds <- MCKinds
    Attempts <- MCAttempts
    Guarded <- MCGuarded
    Candidates <- MCCandidates
    Orders <- MCOrders
    Files <- MCFiles
    NewKeys <- MCNewKeys
    NewValues = {"v1", "v2"}
    MaxCommands = 4
    IniContents <- MCIniContents
    MaxChanges = 1
    Unset = Unset
    Absent = Absent
    Garbage = Garbage
    Callers = {a, b}
    Endpoints <- MCEndpoints
    First <- MCFirst
    Timed <- MCFirst
    Checked <- MCChecked
    Readers <- MCReaders
    MaxCalls = 2
    MaxReads = 1
INVARIANTS
    RollbackKeepsGraph
    AccountsHold
    HandlesStayOpen
    CallIsSound
    SettingsSound
    CountersAddUp
PROPERTIES
    EverythingEnds
CHECK_DEADLOCK FALSE
