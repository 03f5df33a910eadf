\* Three workers, every fault the engine handles, detaching children, anyone may control keep-alive.
SPECIFICATION Spec
CONSTANTS
    w1 = w1
    w2 = w2
    w3 = w3
    Workers = {w1, w2, w3}
    First = w1
    MaxTries = 2
    AttemptBound = 3
    Modes <- BothModes
    Controllers <- Anyone
    Faults = TRUE
    MayDetach = TRUE
SYMMETRY RaceSymmetry
INVARIANTS
    BudgetShared
    ActiveWorkersExact
    StoppedWasAsked
    NoOrphanChild
    PidsCoverChildren
    SuccessNoticeOnce
PROPERTIES
    ImplementsLifecycle
