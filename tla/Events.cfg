SPECIFICATION Spec
CONSTANTS
    someipd = someipd
    gatewayd = gatewayd
    gatewayd2 = gatewayd2
    k1 = k1
    k2 = k2
    Server = someipd
    Clients <- TwoClients
    Key = {k1}
    Provider <- ServerProvides
    NumEvents = 1
    NumSlots = 1
    MaxConn = 3
    Budget <- EventSteps
    EarlyRequests = TRUE
SYMMETRY SymmetricClients
INVARIANTS NoPrematureRelease SlotAccounting SubscriptionsPropagate
CHECK_DEADLOCK FALSE
