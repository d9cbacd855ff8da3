CONSTANTS
    Doc = {1}
    Content = {short, long}
    short = short
    long = long
    blank = blank
    image = image
    broken = broken
    vShort = vShort
    vLong = vLong
    vBlank = vBlank
    vImage = vImage
    vBroken = vBroken
    NoFile = NoFile
    NoVersion = NoVersion
    Version = {vShort, vLong, vBlank, vImage, vBroken}
    Hash <- Hashes
    ChunkCount <- Chunks
    Unsupported <- Images
    Corrupt <- BrokenFiles
    FreshQdrant = FALSE
    FlakyReads = FALSE
    MaxEdits = 3
    MaxFaults = 1
SPECIFICATION LateSpec
INVARIANT RetriesAreSafe
