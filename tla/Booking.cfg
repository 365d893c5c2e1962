\* Two buyers, two requests, two keys, two failures or restarts, three holds.
CONSTANTS
    r1 = r1 r2 = r2 r3 = r3 u1 = u1 u2 = u2 u3 = u3 k1 = k1 k2 = k2 k3 = k3
    None = None
    Requests = {r1, r2}
    Users = {u1, u2}
    Keys = {k1, k2}
    FaultKinds = {"rpc", "db", "gateway", "booking", "payment"}
    MaxFaults = 2
    MaxHolds = 3
SPECIFICATION Spec
SYMMETRY Sym
CHECK_DEADLOCK FALSE
INVARIANTS TypeOK ConfirmedIsCharged 
