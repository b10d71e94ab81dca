CONSTANTS
    Starts = {r1, r2}
    Firsts = {f1}
    Beats = {b1}
    None = None
    MaxChats = 3
SPECIFICATION Spec
INVARIANT SecondClickIsRefused
