SPECIFICATION FairSpec
CONSTANTS
    someipd = someipd
    gatewayd = gatewayd
    gatewayd2 = gatewayd2
    k1 = k1
    k2 = k2
    Server = someipd
    Clients <- OneClient
    Key = {k1}
    Provider <- ClientProvides
    NumEvents = 1
    NumSlots = 1
    MaxConn = 2
    Budget <- ReverseSteps
    EarlyRequests = FALSE
INVARIANTS ClientReferencesLive QuiescentAvailability ConnectionFound
PROPERTIES EventuallyServed SlotsReturn
CHECK_DEADLOCK FALSE
