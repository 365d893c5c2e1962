\* One address: every route, two requests of those that race, one failure or restart.
CONSTANTS
    a1 = a1 a2 = a2 l1 = l1 l2 = l2 o1 = o1 v1 = v1 f1 = f1 f2 = f2
    s1 = s1 s2 = s2 p1 = p1 p2 = p2
    None = None
    Registers = {a1, a2}
    Logins = {l1}
    Presents = {o1}
    Verifies = {v1}
    Forgots = {f1, f2}
    Resets = {s1, s2}
    Passwords = {p1, p2}
    FaultKinds = {"db", "kafka", "auth"}
    MaxFaults = 1
SPECIFICATION Spec
SYMMETRY Sym
CHECK_DEADLOCK FALSE
INVARIANTS TypeOK RegisteredOnce OldSessionsEnd LinkUsedOnce
