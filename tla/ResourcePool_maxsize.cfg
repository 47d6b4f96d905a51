SPECIFICATION Spec
CONSTANTS
    Clients = {c1, c2}
    Resources = {r1, r2, r3}
    NoResource = NoResource
    NoClient = NoClient
    MinSize = 1
    MaxSize = 1
CHECK_DEADLOCK FALSE
INVARIANT MaxSizeRespected
