SPECIFICATION BothSpec
CONSTANTS
    ta = ta
    tb = tb
    other = other
    Ids = {ta, tb, other}
    Batches <- MCBatches
    DepChoices <- MCDeps
    N = 2
    Callers = {t1, t2}
    Keys = {k1, k2, k3}
    L1Max = 1
    L2Max = 2
    Threshold = 3
    MaxPuts = 4
    Mutexed = TRUE
INVARIANTS
    TasksAccounted
    TiersTruthful
PROPERTIES
    WorkEnds
CHECK_DEADLOCK FALSE
