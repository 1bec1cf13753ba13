\* Two clients that share a queue; three calls between them.
CONSTANTS
    Clients = {c1, c2}
    c1 = c1
    c2 = c2
    Queues = {q1}
    q1 = q1
    Entries = {e1}
    e1 = e1
    Keys = {k1}
    k1 = k1
    NoKey = NoKey
    IOTimeout = TRUE
    MaxCalls = 3
SYMMETRY Symmetry
SPECIFICATION Spec
INVARIANTS
    TypeOK
    ResultsTrue
    EntriesAccounted
    ConnectsWhole
\* Every client ends up closed, or its calls are used up.
CHECK_DEADLOCK FALSE
