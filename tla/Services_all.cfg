SPECIFICATION MCSpec
CONSTANTS
    Hooks = {"h1", "h2", "h3"}
    Ghost = "ghost"
    Chains <- MCChains
    Tasks = {t1, t2}
    MaxGlobalRetries = 2
    Threshold = 2
    MaxHistory = 3
    MaxCalls = 3
    Raised = {"ProcessTimeout", "RemoteError", "OtherError"}
    NConfigs = 2
    MaxConcurrent = 1
    PipeSize = 1
    Programs <- MCPrograms
    Emitters = {m1, m2}
    Capacity = 2
    Emits = 2
 
PROPERTIES ServicesEnd
CHECK_DEADLOCK FALSE
