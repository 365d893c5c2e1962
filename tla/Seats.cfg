\* Two calls of two buyers for overlapping seats beside the expiry worker, locks
\* that lapse under slow handlers, one failure or restart; the pool has one
\* connection more than there are transactions.
CONSTANTS
    r1 = r1 r2 = r2 r3 = r3 r4 = r4
    u1 = u1 u2 = u2
    s1 = s1 s2 = s2 s3 = s3 w = w None = None
    Requests = {r1, r2}
    Worker = w
    Users = {u1, u2}
    Seats = {s1, s2}
    Inventory = {s1, s2}
    Calls <- SeatCalls
    PoolSize = 3
    FaultKinds = {"connect", "tx", "redis", "cache", "crash"}
    MaxFaults = 1
SPECIFICATION FairSpec
CHECK_DEADLOCK FALSE
INVARIANTS TypeOK NoOrphanedHeld FailedHoldLeavesNoTrace LiveHoldIsLocked
PROPERTIES HoldsEnd RequestsAnswered
