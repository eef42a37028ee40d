SPECIFICATION FairSpec
CONSTANTS
    Tasks <- FourTasks
    Prio <- MCPrio
    NoGoal = NoGoal
    None = None
    Workers = {w1, w2}
    Clients = {c1}
    Goals <- OneGoal
    MaxEdits = 0
    CanFail = FALSE
INVARIANTS
    OrderHolds
PROPERTIES
    BoardKept
    EveryTaskEnds
CHECK_DEADLOCK FALSE
