CONSTANTS
    Doc = {1, 2}
    Content = {short, long, image}
    short = short
    long = long
    blank = blank
    image = image
    broken = broken
    vShort = vShort
    vLong = vLong
    vBlank = vBlank
    vImage = vImage
    vBroken = vBroken
    NoFile = NoFile
    NoVersion = NoVersion
    Version = {vShort, vLong, vBlank, vImage, vBroken}
    Hash <- Hashes
    ChunkCount <- Chunks
    Unsupported <- Images
    Corrupt <- BrokenFiles
    FreshQdrant = TRUE
    FlakyReads = TRUE
    MaxEdits = 3
    MaxFaults = 1
SPECIFICATION Spec
INVARIANTS
    TypeOK
    IngestedRowHasNoStaleVectors
    OnlyOverlapLosesVectors
    OnlyOverlapOrphansVectors
PROPERTY
    OnlyPurgeEmptiesADocument
