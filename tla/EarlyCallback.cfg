CONSTANTS
    l1 = l1
    r1 = r1
    r2 = r2
    Local = {l1}
    Remote = {r1, r2}
    PathFits = {l1, r1, r2}
    Events <- MCEvents
    Denials = FALSE
    Slots = 1
    Refusals = {}
    DataSizes = {2}
    MaxRuns = 1
SPECIFICATION Spec
INVARIANT ConnectorAssigned
CHECK_DEADLOCK FALSE
