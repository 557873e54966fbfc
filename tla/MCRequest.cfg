SPECIFICATION Spec
CONSTANTS
    Attrs <- SomeAttrs
    Counts = {1, 258}
    Ids = {0, 300}
    Indices <- SomeIndices
    LongSize = 4
    COPY_SIZE = 8
    MAX_PACKET = 32
    OldPackets <- SomeOld
    MaxSounds = 3
INVARIANTS ListIsMeant 
CHECK_DEADLOCK FALSE
