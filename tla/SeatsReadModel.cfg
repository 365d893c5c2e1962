\* Writers of one seat and a viewer: the read model stays wrong.
CONSTANTS
    r1 = r1 r2 = r2 r3 = r3 r4 = r4
    u1 = u1 u2 = u2
    s1 = s1 s2 = s2 s3 = s3 w = w None = None
    Requests = {r1, r2, r3}
    Worker = w
    Users = {u1, u2}
    Seats = {s1}
    Inventory = {s1}
    Calls <- ViewCalls
    PoolSize = 10
    FaultKinds = {}
    MaxFaults = 0
SPECIFICATION Spec
SYMMETRY Sym
CHECK_DEADLOCK FALSE
INVARIANT ReadModelSettles
