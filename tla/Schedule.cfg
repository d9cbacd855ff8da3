CONSTANTS
    Worker = {w1, w2}
    Malformed = Malformed
    ConfigFiles <- OneFile
    Environments <- OneEnvironment
    OldTables <- SomeTables
    FirstVersions = {4}
    MaxFaults = 1
    Doc = {1}
    LongDocument = 1
    Chunks <- DocumentSizes
    EmbedTime = 1
    HeartbeatTimeout = 2
    StartToClose = 3
    Unlimited = 1
    MaxStalls = 0
SPECIFICATION WorkSpec
PROPERTY
    ExistingScheduleIsSuccess
