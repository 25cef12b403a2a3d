SPECIFICATION Spec
CONSTANTS
    r1 = r1
    r2 = r2
    Reader = {r1, r2}
    Config <- MCConfig
    MaxPools = 1
    MaxEvents = 2
    MaxLinks = 3
INVARIANT PoolFound
CHECK_DEADLOCK FALSE
