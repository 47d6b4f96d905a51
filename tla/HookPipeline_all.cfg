SPECIFICATION FairSpec
CONSTANTS
    h1 = h1
    h2 = h2
    h3 = h3
    Hooks = {h1, h2, h3}
    ConfigOrder <- MCOrder
    Group <- MCGroup
    Strategies = {"auto", "pooled", "arena"}
    Kinds = {"plain", "always", "nomatch", "exclusive", "cached", "offstage"}
    DepChoices <- MCDeps
    Permits = 2
    Unknown = Unknown
CHECK_DEADLOCK FALSE
INVARIANTS
    RunReported
    SuccessMeansAllPassed
    OrderKept
    EventDiscipline
 
