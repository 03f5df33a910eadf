\* Two windows, two saves at a time, every state the two files may be in at first, any legacy file.
SPECIFICATION Spec
CONSTANTS
    w1 = w1
    w2 = w2
    s1 = s1
    s2 = s2
    a = a
    b = b
    Windows <- MCWindows
    Saves <- MCSaves
    Values <- MCValues
    Default = Default
    Bad = Bad
SYMMETRY Symmetry
INVARIANTS
    V1Kept
    RefusedKept
PROPERTIES
    BackupReplacedByImportsOnly
