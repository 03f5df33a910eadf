\* One call of the compiler for each schedule: it stops after it.
CONSTANTS
    Configs <- MCConfigs
    LastDate = 1460
SPECIFICATION Spec
INVARIANTS
    FiresAsWritten
    NeverDead
CHECK_DEADLOCK FALSE
