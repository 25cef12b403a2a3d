SPECIFICATION Spec
CONSTANTS
    someipd = someipd
    gatewayd = gatewayd
    gatewayd2 = gatewayd2
    k1 = k1
    k2 = k2
    Server = someipd
    Clients <- OneClient
    Key = {k1}
    Provider <- ServerProvides
    NumEvents = 1
    NumSlots = 0
    MaxConn = 1
    Budget <- StopSteps
    EarlyRequests = TRUE
INVARIANTS SubscriptionsPropagate
CHECK_DEADLOCK FALSE
