SPECIFICATION MCSpec
CONSTANTS
    c1 = c1
    c2 = c2
    c3 = c3
    c4 = c4
    i1 = i1
    i2 = i2
    i3 = i3
    Calls = {c1, c3, c4}
    Ids = {i1, i2, i3}
    IdOf <- MCIdOf
    BatchOrder <- MCBatch2
    WithDeps = {c3}
    WithResources = {c1, c3}
    MaxConcurrent = 2
    Unknown = Unknown
    TaskIds = {a, b, c}
    MaxEdges = 3
CHECK_DEADLOCK FALSE
INVARIANTS
    PermitAccounting
    StatusTellsOutcome
    AlwaysAcyclic
    OrderIsTopological
PROPERTIES
    TerminalSticky
    ImplementsJobs
    CallsReturnReported
    RefusalJustified
    OrderFound
