\* One caller, no IOTimeout; it closes the Connection after an error.
CONSTANTS
    Callers = {c1}
    c1 = c1
    NoCaller = NoCaller
    IOTimeout = FALSE
    ContextKinds = {"background", "cancel", "deadline"}
    ClosesOnError = TRUE
    CorrelationModulus = 3
    MaxCalls = 4
SPECIFICATION FairSpec
INVARIANTS
    RepliesInStep
PROPERTIES
    CancelUnblocks
\* The caller stops after MaxCalls calls, and a mute server may block one for ever.
CHECK_DEADLOCK FALSE
