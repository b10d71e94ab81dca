CONSTANTS
    Requests = {r1, r2}
    Hooks = {h1}
    Cap = 1
    MaxSubscriptions = 2
    MaxSeats = 2
    MaxRequests = 3
    MaxFaults = 1
    r1 = r1
    r2 = r2
    h1 = h1
SPECIFICATION Spec
CONSTRAINT Explored
SYMMETRY Symmetry
INVARIANTS TypeOK NobodyPaysTwice PaidIsServed ChargedAsUsed
CHECK_DEADLOCK FALSE
