\* Two ticks, a cancel request and the recovery worker, all at once, with a
\* failure or a restart.
CONSTANTS
    t1 = t1 t2 = t2 c1 = c1 rec = rec g1 = g1 k1 = k1
    NoKey = NoKey NoDriver = NoDriver
    Ticks = {t1, t2}
    Cancels = {c1}
    Recovery = rec
    Gates = {g1}
    Keys = {k1}
    MaxCalls = 4
    MaxRetries = 2
    MaxTries = 2
    FaultKinds = {"rpc", "db", "gateway", "booking", "payment"}
    MaxUpsets = 2
SPECIFICATION FairSpec
CHECK_DEADLOCK FALSE
INVARIANTS TypeOK RefundedMeansReturned GivenUpAfterRetries OneTicketPerItem RefundedHoldsNoTicket AnnouncedOnce
PROPERTIES RefundNeverRegresses FreedSeatStaysFree ImplementsRefund RefundSettles OutboxEntriesSettle
