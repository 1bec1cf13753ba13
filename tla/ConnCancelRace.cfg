\* One caller, no IOTimeout, contexts that can be cancelled.
CONSTANTS
    Callers = {c1}
    c1 = c1
    NoCaller = NoCaller
    IOTimeout = FALSE
    ContextKinds = {"background", "cancel"}
    ClosesOnError = TRUE
    CorrelationModulus = 3
    MaxCalls = 2
SPECIFICATION Spec
INVARIANTS
    NoSpuriousTimeout
CHECK_DEADLOCK FALSE
