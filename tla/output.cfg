\* One worker, attempts without end, no keep-alive after a lost race.
SPECIFICATION FairSpec
CONSTANTS
    LF = LF
    CR = CR
    x = x
    y = y
    Letters <- MCLetters
    Markers <- MCMarkers
    MaxLine = 2
    ChunkBytes = 2
    Capacity = 2
    MaxOutput = 3
    Wide <- MCWide
    TailBytes = 4
    TailChunks = 3
    Blanks = {}
    SnippetChars = 2
    KeepAlive = FALSE
    Faults = TRUE
INVARIANTS TypeOK LogIsOutput MarkerFoundExactly NothingLostUnlessCut
PROPERTIES PreviewShowsNewest AttemptEnds
