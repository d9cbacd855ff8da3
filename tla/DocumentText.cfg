CONSTANTS
    ChunkSize = 5
    Overlap = 2
    MaxLength = 40
    MaxTokens = 4
    MaxEntries = 4
    MaxPath = 3
    Files <- AllFiles
    Component <- Components
    Unescape <- Decoded
SPECIFICATION DocSpec
INVARIANTS
    TypeOK
    EveryRuneInAChunk
    NeighboursOverlap
    EveryChunkAddsText
    EpubWordsInReadingOrder
    OnlyRawTextLeaksMarkup
    BlocksSeparateWords
CHECK_DEADLOCK FALSE
