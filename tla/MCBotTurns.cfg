CONSTANTS
    Turns = {t1, t2}
    Writers = {w1}
    Editors = {e1}
    Flows = {f1}
    f1 = f1
    ask = ask
    round = round
    hand = hand
    Steps = {ask, round, hand}
    FlowOf <- FlowsOf
    Kind <- Kinds
    Edges <- Arrows
    Start <- Starts
    Drawings <- AllOrLess
    None = None
    MaxSteps = 2
    MaxAsking = 2
    MaxMessages = 3
CHECK_DEADLOCK FALSE
SPECIFICATION Spec
SYMMETRY Symmetry
INVARIANTS TypeOK OneVoice SilentAfterPause
 
