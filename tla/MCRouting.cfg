CONSTANTS
    a1 = a1
    a2 = a2
    Agents = {a1, a2}
    MaxOpenChats <- Limits
    Requests = {r1, r2}
    None = None
    MaxChats = 4
SPECIFICATION RoutingSpec
SYMMETRY Symmetry
INVARIANTS RoutingTypeOK OverrunIsBounded
PROPERTIES NobodyFreeIsOverlooked
