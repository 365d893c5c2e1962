\* One event and one booking with two addressed items; two consumers of
\* event.create, one notifier; one failure, one repeated delivery or emit.
CONSTANTS
    e1 = e1 b1 = b1 secA = secA secX = secX
    s1 = s1 s2 = s2 ci1 = ci1 ci2 = ci2 cn1 = cn1 u1 = u1 None = None
    Events = {e1}
    Sections = {secA, secX}
    VenueSections = {secA}
    Seats = {s1, s2}
    SeatsIn <- Layout
    Bookings = {b1}
    Users = {}
    Topics = {"event.create", "booking.confirmed", "booking.refunded"}
    NumItems = 2
    Addressed = {1, 2}
    Consumers = {ci1, ci2, cn1}
    GroupOf <- Groups
    PayloadIsValue = TRUE
    MaxRows = 6
    FaultKinds = {"emit", "db", "smtp", "crash"}
    MaxFaults = 1
    MaxRepeats = 1
SPECIFICATION FairSpec
CHECK_DEADLOCK FALSE
INVARIANTS TypeOK InventoryComplete StatusIsTrue
PROPERTIES TakenStaysTaken MessagesTakeEffect
