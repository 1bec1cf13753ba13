\* Three calls on a pool of two connections; a third may replace one of them.
CONSTANTS
    Calls = {k1, k2, k3}
    k1 = k1
    k2 = k2
    Conns = {c1, c2, c3}
    c1 = c1
    c2 = c2
    c3 = c3
    k3 = k3
    NoConn = NoConn
    MaxOpen = 2
    MaxRetries = 2
SYMMETRY Symmetry
SPECIFICATION PoolSpec
INVARIANTS
    PoolTypeOK
    AtMostOnce
    ToldTrue
    IdleClean
\* The calls end.
CHECK_DEADLOCK FALSE
