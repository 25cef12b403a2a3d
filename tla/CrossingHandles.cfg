SPECIFICATION Spec
CONSTANTS
    someipd = someipd
    gatewayd = gatewayd
    gatewayd2 = gatewayd2
    k1 = k1
    k2 = k2
    Server = someipd
    Clients <- OneClient
    Key = {k1, k2}
    Provider <- BothProvide
    NumEvents = 0
    NumSlots = 0
    MaxConn = 1
    Budget <- CrossingSteps
    EarlyRequests = FALSE
INVARIANTS HandlesUnique
CHECK_DEADLOCK FALSE
