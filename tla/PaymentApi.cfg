\* Three requests under one key, two at once in the limiter, one failure or restart.
CONSTANTS
    r1 = r1 r2 = r2 r3 = r3 r4 = r4 k1 = k1 k2 = k2
    None = None
    Requests = {r1, r2, r3}
    Keys = {k1}
    Max = 1
    Window = 2
    MaxClock = 3
    MaxInside = 2
    Quick = TRUE
    FaultKinds = {"redis", "db", "proxy", "payment", "api"}
    MaxFaults = 1
SPECIFICATION Spec
SYMMETRY Sym
CHECK_DEADLOCK FALSE
INVARIANTS TypeOK WindowBound RefusedOnlyWhenFull ChargedOnce OneHandlerPerKey CachedIsPayment AnswersAgree
PROPERTY ImplementsPayment
