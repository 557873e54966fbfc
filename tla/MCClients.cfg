SPECIFICATION FairSpec
CONSTANTS
    Hosts <- Two
    SPOOL_MAX_ID = 1
    RPTP_MAX_CONNECTIONS = 4
    EventLists <- SomeLists
    Words <- OneTalks
    BufferTexts = 2
    KeptBuffers = {"help", "servers"}
    MaxEvents = 1
INVARIANTS Answered NeverDeaf OwnEntryLives MonitorRing
PROPERTIES RepliesArrive
CHECK_DEADLOCK FALSE
