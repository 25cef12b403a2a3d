SPECIFICATION Spec
CONSTANTS
    c1 = c1
    c2 = c2
    e1 = e1
    Client = {c1, c2}
    Event = {e1}
    OverlappingClients = FALSE
INVARIANTS RequestersAreAsked
