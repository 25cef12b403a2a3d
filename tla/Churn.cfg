SPECIFICATION Spec
CONSTANTS
    someipd = someipd
    gatewayd = gatewayd
    gatewayd2 = gatewayd2
    k1 = k1
    k2 = k2
    Server = someipd
    Clients <- OneClient
    Key = {k1, k2}
    Provider <- ServerProvides
    NumEvents = 1
    NumSlots = 1
    MaxConn = 2
    Budget <- ChurnSteps
    EarlyRequests = TRUE
SYMMETRY SymmetricKeys
INVARIANTS TypeOK ServerReferencesLive NoMisroute NewestMappingShared
CHECK_DEADLOCK FALSE
