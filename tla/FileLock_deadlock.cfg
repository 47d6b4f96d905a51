SPECIFICATION Spec
CONSTANTS
    c1 = c1
    c2 = c2
    pathA = pathA
    pathB = pathB
    fileA = fileA
    fileB = fileB
    Callers = {c1, c2}
    Paths <- MCPaths
    LockFileOf <- MCLockFileOf
    SortKey <- EqualLengths
    Requests <- MCRequests
    MaxRemovals = 0
INVARIANTS
    NoWaitCycle
