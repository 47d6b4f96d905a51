SPECIFICATION FairSpec
CONSTANTS
    Clients = {c1, c2}
    Resources = {r1, r2}
    NoResource = NoResource
    NoClient = NoClient
    MinSize = 1
    MaxSize = 1
CHECK_DEADLOCK FALSE
INVARIANTS
    
    NoUseAfterCleanup
    ResourcesAccounted
PROPERTIES
    CallsComplete
