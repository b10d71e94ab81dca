CONSTANTS
    Starts = {r1, r2}
    Firsts = {f1}
    Beats = {b1, b2}
    None = None
    MaxChats = 3
SPECIFICATION FairSpec
INVARIANTS TypeOK DuplicatesAreBounded
PROPERTY ComesToRest
