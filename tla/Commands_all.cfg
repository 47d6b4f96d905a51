SPECIFICATION MCSpec
CONSTANTS
    Procs = {p1}
    Repos = {r1}
    Envs = {e1}
    Configs = {f1}
    Types = {"pre-commit", "pre-push"}
    MaxEdits = 2
    MaxCommands = 3
    MaxKills = 1
    Files = {"f1", "f2"}
    StagedTTL = 1
    AllTTL = 2
    MaxClock = 3
    MaxChanges = 3
    Urls = {"gh/a", "gh/ab", "gl/c", "local"}
    Within <- MCWithin
    Service <- MCService
    Originals <- MCOriginals
    MaxRuns = 2
    MaxDeaths = 1
    Items = {"x", "y"}
    MaxNow = 3
    MaxAge = 1
    MaxUses = 2
    MaxCleans = 1
INVARIANTS  RetrySucceeds    
 
CHECK_DEADLOCK FALSE
