\* Two goroutines share a Connection with an IOTimeout.
CONSTANTS
    Callers = {c1, c2}
    c1 = c1
    c2 = c2
    NoCaller = NoCaller
    IOTimeout = TRUE
    ContextKinds = {"background", "cancel", "deadline"}
    ClosesOnError = FALSE
    CorrelationModulus = 2
    MaxCalls = 2
SPECIFICATION FairSpec
INVARIANTS
    TypeOK
    WatcherWithinCall
    CleanHandover
    ReservedCorrelation
PROPERTIES
    CallReturns
\* The callers stop after MaxCalls calls.
CHECK_DEADLOCK FALSE
