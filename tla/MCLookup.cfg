SPECIFICATION FairSpec
CONSTANTS
    NServers = 2
    Sounds <- TwoSounds
    Size <- SizesTwo
    CacheMax = 2
    Attempts = 2
    MaxCount = 2
    MaxReopen = 1
    Faults = {"create_fails", "put_timeout", "reset"}
INVARIANTS OneEvent
PROPERTIES AskedThemAll Finds
CHECK_DEADLOCK FALSE
