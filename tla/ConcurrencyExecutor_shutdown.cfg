SPECIFICATION MCSpec
CONSTANTS
    c1 = c1
    c2 = c2
    c3 = c3
    c4 = c4
    i1 = i1
    i2 = i2
    i3 = i3
    Calls = {c1, c2, c3}
    Ids = {i1, i2, i3}
    IdOf <- MCIdOf
    BatchOrder <- MCBatch
    WithDeps = {c2}
    WithResources = {c1}
    MaxConcurrent = 2
    Unknown = Unknown
    TaskIds = {a, b, c}
    MaxEdges = 3
CHECK_DEADLOCK FALSE
INVARIANT ShutdownWaits
