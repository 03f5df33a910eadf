\* Log and status errors, panics and expired shutdown waits on top of the crashes.
SPECIFICATION Spec
CONSTANTS
    p1 = p1
    p2 = p2
    r1 = r1
    r2 = r2
    None = None
    Procs = {p1, p2}
    Runs = {r1, r2}
    Stable <- NoProcs
    Faults = TRUE
    Panics = TRUE
    Timeouts = TRUE
SYMMETRY FullSymmetry
INVARIANTS
    OneRunAtATime
    LockIsLease
    StaleHasCause
PROPERTIES
    StopRequestReaches
