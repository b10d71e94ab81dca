CONSTANTS
    Requests = {r1, r2}
    Agents = {a1, a2}
    Keys = {k1}
    NoKey = NoKey
    None = None
    MaxMessages = 3
    Settable = {"RESOLVED"}
SPECIFICATION Spec
INVARIANT AnyOtherAgentCanBeAssigned
