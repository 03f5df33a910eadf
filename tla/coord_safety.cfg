\* A window that stays open and a process that comes, goes and crashes; two runs that may
\* end by log and status errors.
SPECIFICATION FairSpec
CONSTANTS
    p1 = p1
    p2 = p2
    r1 = r1
    r2 = r2
    None = None
    Procs = {p1, p2}
    Runs = {r1, r2}
    Stable = {p1}
    Faults = TRUE
    Panics = FALSE
    Timeouts = FALSE
PROPERTIES
    ExecutingStatusIsOwn
    VerdictStays
    StaleIsReconciled
