SPECIFICATION Spec
CONSTANTS
    Tasks <- ThreeTasks
    Prio <- MCPrio
    NoGoal = NoGoal
    None = None
    Workers = {w1, w2}
    Clients = {c1}
    Goals <- OneGoal
    MaxEdits = 2
    CanFail = TRUE
SYMMETRY MCSymmetry
INVARIANTS
    ClaimExclusive
    GraphStaysAcyclic
PROPERTIES
    HeldTaskStands
CHECK_DEADLOCK FALSE
