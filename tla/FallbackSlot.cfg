CONSTANTS
    l1 = l1
    r1 = r1
    r2 = r2
    Local = {l1}
    Remote = {}
    PathFits = {l1}
    Events <- MCEventsFallback
    Denials = FALSE
    Slots = 1
    Refusals = {}
    DataSizes = {1490}
    MaxRuns = 1
SPECIFICATION Spec
INVARIANT SlotsHoldDeclared
CHECK_DEADLOCK FALSE
