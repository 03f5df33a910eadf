\* Two workers that share two attempts, in both modes, with every fault and children that may
\* outlive their pipes; the owner alone controls keep-alive.
SPECIFICATION FairSpec
CONSTANTS
    w1 = w1
    w2 = w2
    Workers = {w1, w2}
    First = w1
    MaxTries = 2
    AttemptBound = 3
    Modes <- BothModes
    Controllers <- OwnerOnly
    Faults = TRUE
    MayDetach = TRUE
PROPERTIES
    
    
    KeepAliveOffEndsWait
    KeepAliveLastRequestWins
