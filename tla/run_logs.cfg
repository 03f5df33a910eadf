\* Two runs, a polling window, clear history.
SPECIFICATION FairSpec
CONSTANTS
    MaxRuns = 2
    MaxRecords = 3
    Preamble = 1
    Backlog = 2
    Chunk = 3
    MaxLogLines = 2
    Faults = TRUE
INVARIANTS TypeOK ShownIsLog
PROPERTIES LiveLogKept CatchesUp
CHECK_DEADLOCK FALSE
