SPECIFICATION Spec
CONSTANTS
    someipd = someipd
    gatewayd = gatewayd
    gatewayd2 = gatewayd2
    k1 = k1
    k2 = k2
    Server = someipd
    Clients <- TwoClients
    Key = {k1}
    Provider <- ServerProvides
    NumEvents = 0
    NumSlots = 0
    MaxConn = 3
    Budget <- DiscoverySteps
    EarlyRequests = TRUE
SYMMETRY SymmetricClients
INVARIANTS ServerReferencesLive QuiescentAvailability NewestMappingShared NothingToConnectYet
CHECK_DEADLOCK FALSE
