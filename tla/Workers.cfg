CONSTANTS
    Worker = {w1, w2}
    Malformed = Malformed
    ConfigFiles <- SomeFiles
    Environments <- SomeEnvironments
    OldTables <- SomeTables
    FirstVersions = {0, 2}
    MaxFaults = 1
    Doc = {1, 2, 3}
    LongDocument = 3
    Chunks <- DocumentSizes
    EmbedTime = 1
    HeartbeatTimeout = 3
    StartToClose = 5
    Unlimited = 2
    MaxStalls = 1
SPECIFICATION FairWorkSpec
INVARIANTS
    RekeyKeepsTheNewest
    ServingMeansMigrated
    EmbedTypeOK
    BeatsInTime
PROPERTIES
    WorkersServeInTheEnd
    DocumentsAreEmbedded
