\* Worker 1 may go on in the keep-alive phase after it lost the race.
SPECIFICATION Spec
CONSTANTS
    LF = LF
    CR = CR
    x = x
    y = y
    Letters <- MCLetters
    Markers <- MCMarkers
    MaxLine = 2
    ChunkBytes = 2
    Capacity = 2
    MaxOutput = 3
    Wide <- MCWide
    TailBytes = 4
    TailChunks = 3
    Blanks = {}
    SnippetChars = 2
    KeepAlive = TRUE
    Faults = FALSE
INVARIANTS LogIsOutput
