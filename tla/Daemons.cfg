CONSTANTS
    l1 = l1
    r1 = r1
    r2 = r2
    Local = {l1}
    Remote = {r1, r2}
    PathFits = {l1, r1, r2}
    Events <- MCEvents
    Denials = TRUE
    Slots = 1
    Refusals = {l1, r1}
    DataSizes = {6, 9}
    MaxRuns = 2
SPECIFICATION FairSpec
INVARIANTS EventsKeepTheirName SlotsHoldDeclared ContextFound QuietChannel
PROPERTIES DaemonsEnd ServicesReachable
CHECK_DEADLOCK FALSE
