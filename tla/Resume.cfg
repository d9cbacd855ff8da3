CONSTANTS
    Worker = {w1}
    Malformed = Malformed
    ConfigFiles <- OneFile
    Environments <- OneEnvironment
    OldTables <- SomeTables
    FirstVersions = {4}
    MaxFaults = 0
    Doc = {1}
    LongDocument = 4
    Chunks <- DocumentSizes
    EmbedTime = 1
    HeartbeatTimeout = 2
    StartToClose = 3
    Unlimited = 1
    MaxStalls = 0
SPECIFICATION FairWorkSpec
PROPERTY
    DocumentsAreEmbedded
