\* The outbox alone, as many tries as the code has, one restart.
CONSTANTS
    t1 = t1 t2 = t2 c1 = c1 rec = rec g1 = g1 k1 = k1
    NoKey = NoKey NoDriver = NoDriver
    Ticks = {t1, t2}
    Cancels = {}
    Recovery = rec
    Gates = {}
    Keys = {k1}
    MaxCalls = 0
    MaxRetries = 5
    MaxTries = 5
    FaultKinds = {"booking"}
    MaxUpsets = 1
SPECIFICATION FairSpec
CHECK_DEADLOCK FALSE
PROPERTY EffectsProcessed
