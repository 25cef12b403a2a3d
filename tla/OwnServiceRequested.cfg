SPECIFICATION Spec
CONSTANTS
    someipd = someipd
    gatewayd = gatewayd
    gatewayd2 = gatewayd2
    k1 = k1
    k2 = k2
    Server = someipd
    Clients <- TwoClients
    Key = {k1}
    Provider <- ServerProvides
    NumEvents = 0
    NumSlots = 0
    MaxConn = 2
    Budget <- EventSteps
    EarlyRequests = TRUE
INVARIANTS RequestsAreBridged
CHECK_DEADLOCK FALSE
