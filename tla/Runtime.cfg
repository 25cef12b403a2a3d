SPECIFICATION FairSpec
CONSTANTS
    c1 = c1
    c2 = c2
    s1 = s1
    b1 = b1
    Client = {c1, c2}
    Server = {s1}
    Bridge = {b1}
    ClientMinor = {1, 2}
    ServerMinor = {1}
    OverlappingClients = TRUE
INVARIANTS Matched RequestAtEveryBridge InterestEnds
PROPERTIES BridgeRegistered
