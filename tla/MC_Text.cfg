CONSTANTS
    NRules = 2
    TextLen = 3
    MaxFound = 2
    MaskTexts <- SomeTexts
    MaskTypes <- TypesHere
    MaskModes <- ModesHere
    MaxFragments = 2
    MaxEdits = 1
    ChunkSize = 13
    ChunkOverlap = 7
    Window = 1
    MaxCont = 1
    NRunes = 9
    Texts <- LongOnes
    Alphabet <- FieldWords
    Lengths <- FieldLengths
    NameWords = 2
    TrimReach = 2
    Around <- Neighbours
    Heads <- Candidates
    NegationWindow = 1
    MaxContext = 4
SPECIFICATION Spec
INVARIANTS
    NothingIsLost
    StructuralSurvives
    RestoreIsExact
    CoveredIsHidden
    ChunksAreWhole
    SpansAreCovered
    NameIsFound
    NoFieldIsMissed
    
    NearestWholeDecides
    OtherSentencesDoNotMatter
\* A behaviour is one call: it ends.
CHECK_DEADLOCK FALSE
