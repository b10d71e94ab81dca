CONSTANTS
    m1 = m1
    m2 = m2
    m3 = m3
    c1 = c1
    c2 = c2
    Messages = {m1, m3}
    Threads = {c1}
    ThreadOf <- WritersOne
    MayReply = {m3}
    Unnamed = {}
    Webhooks <- OneByOne
    Posts = {p1, p2}
    None = None
    Settable = {"CLOSED"}
    MaxFaults = 1
CHECK_DEADLOCK FALSE
SPECIFICATION FairSpec
PROPERTY InboundIsStored
