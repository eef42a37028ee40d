SPECIFICATION Spec
CONSTANTS
    Clients = {c1, c2}
    Keys = {"r", "w"}
    Burst = 2
    Rps = 1
    IdleTTL = 0
    Limiters <- MCLimiters
    MaxReloads = 1
    MaxClock = 1
    MaxRequests = 4
    AuthEnabled = TRUE
    Profiling = TRUE
    Vocabularies = {{"a"}, {"b"}}
    Requests <- MCRequests
    Scope <- MCScope
SYMMETRY MCSymmetry
INVARIANTS
    ServedInItsTime
    AdmittedBounded
    RoutesSound
CHECK_DEADLOCK FALSE
