SPECIFICATION Spec
CONSTANTS
    r1 = r1
    r2 = r2
    Reader = {r1, r2}
    Config <- MCConfig
    MaxPools = 2
    MaxEvents = 2
    MaxLinks = 3
SYMMETRY Readers
INVARIANT PayloadIntact
PROPERTY OpensRunningPool
CHECK_DEADLOCK FALSE
