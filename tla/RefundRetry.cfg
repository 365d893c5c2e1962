\* One cancel request, one lost answer, as many tries as the code has.
CONSTANTS
    t1 = t1 t2 = t2 c1 = c1 rec = rec g1 = g1 k1 = k1
    NoKey = NoKey NoDriver = NoDriver
    Ticks = {}
    Cancels = {c1}
    Recovery = rec
    Gates = {}
    Keys = {k1}
    MaxCalls = 4
    MaxRetries = 2
    MaxTries = 5
    FaultKinds = {"rpc"}
    MaxUpsets = 1
SPECIFICATION FairSpec
CHECK_DEADLOCK FALSE
PROPERTY RefundResumes
