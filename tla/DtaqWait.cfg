\* One client with an IOTimeout.
CONSTANTS
    Clients = {c1}
    c1 = c1
    Queues = {q1}
    q1 = q1
    Entries = {e1}
    e1 = e1
    Keys = {k1}
    k1 = k1
    NoKey = NoKey
    IOTimeout = TRUE
    MaxCalls = 2
SPECIFICATION Spec
INVARIANT WaitsAsAsked
CHECK_DEADLOCK FALSE
