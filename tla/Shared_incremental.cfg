SPECIFICATION SharedSpec
CONSTANTS
    c1 = c1
    c2 = c2
    pathA = pathA
    pathB = pathB
    fileA = fileA
    fileB = fileB
    Callers = {c1, c2}
    Paths <- MCPaths
    LockFileOf <- MCLockFileOf
    SortKey <- DistinctLengths
    Requests <- MCRequests
    MaxRemovals = 1
    Submitters = {"s1", "s2"}
    Bundle <- MCBundle
    NumWorkers = 2
    LocalCapacity = 1
    Wrap = 8
    Threads = {t1, t2}
    LfKeys = {k1, k2, k3}
    LfMax = 1
    LastTime = 2
    MaxInserts = 3
    Names = {n1, n2, n3}
    MaxConfirmed = 1
    EngineHooks = {"h1", "h2"}
    Watched <- MCWatched
    Needs <- MCNeeds
    RepositoryOf <- MCRepositoryOf
    CacheSize = 1
    ResultsKept = 1
    Ttl = 2
    LastTick = 2
    MaxEdits = 1
    MaxHookRuns = 3
    GitKeys = {"git"}
    LanguageKeys = {"python", "node"}
    PoolUsers = {"u1", "u2"}
    MaxPools = 3
INVARIANTS
    FirstRunProcessesAll
CHECK_DEADLOCK FALSE
