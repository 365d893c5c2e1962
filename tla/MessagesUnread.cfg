\* A booking and a user whose mails one notifier is to send; nothing fails.
CONSTANTS
    e1 = e1 b1 = b1 secA = secA secX = secX
    s1 = s1 s2 = s2 ci1 = ci1 ci2 = ci2 cn1 = cn1 u1 = u1 None = None
    Events = {}
    Sections = {secA, secX}
    VenueSections = {secA}
    Seats = {s1, s2}
    SeatsIn <- Layout
    Bookings = {b1}
    Users = {u1}
    Topics = {"booking.confirmed", "booking.refunded", "auth.email_verification", "auth.password_reset"}
    NumItems = 2
    Addressed = {1, 2}
    Consumers = {cn1}
    GroupOf <- Notifier
    PayloadIsValue = TRUE
    MaxRows = 6
    FaultKinds = {}
    MaxFaults = 0
    MaxRepeats = 0
SPECIFICATION FairSpec
CHECK_DEADLOCK FALSE
PROPERTY NoticesAreMailed
