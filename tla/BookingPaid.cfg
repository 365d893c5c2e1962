\* One buyer, one request, one lost answer.
CONSTANTS
    r1 = r1 r2 = r2 r3 = r3 u1 = u1 u2 = u2 u3 = u3 k1 = k1 k2 = k2 k3 = k3
    None = None
    Requests = {r1}
    Users = {u1}
    Keys = {k1}
    FaultKinds = {"rpc"}
    MaxFaults = 1
    MaxHolds = 3
SPECIFICATION Spec
CHECK_DEADLOCK FALSE
INVARIANT CancelledIsUnpaid
