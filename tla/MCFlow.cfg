SPECIFICATION FairSpec
CONSTANTS
    Clients = {"c1"}
    Sources = {"put", "pipe"}
    BUFFER_SIZE = 3
    Low = 2
    High = 4
    Header = 1
    SOUND_FILL_SIZE = 2
    Sizes = {0, 2}
    MaxData = 6
INVARIANTS CrashOnlyAfterEnd
PROPERTIES  FlowFinishes
CHECK_DEADLOCK FALSE
