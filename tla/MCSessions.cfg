CONSTANTS
    Tabs = {b1, b2}
    Requests = {r1, r2}
    Codes = {c1, c2}
    None = None
    Attempts = 2
    MaxTokens = 3
    MaxLinks = 2
    MaxFaults = 2
SPECIFICATION Spec
CHECK_DEADLOCK FALSE
SYMMETRY Symmetry
CONSTRAINT Few
INVARIANTS TypeOK SpentOnce EndedStaysEnded RefusedForAReason
