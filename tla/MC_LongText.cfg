SPECIFICATION LongTextSpec
CONSTANTS
    ChunkSize = 13
    ChunkOverlap = 7
    Window = 1
    MaxCont = 1
    NRunes = 9
    Texts <- LongOnes
INVARIANT NameIsMasked
CHECK_DEADLOCK FALSE
