CONSTANTS
    c1 = c1
    c2 = c2
    c3 = c3
    Cells = {c1}
    MaxId = 2
    Sounds = {"a", "b"}
    Info <- MCInfo
    Requests <- ListRequests
    NoName = ""
    Targets <- ListTargets
    SkipCounts <- ListSkips
    Changes <- ListChanges
    BufUnits = 1
    MaxFlow = 1
    MaxList = 2
    Env = {}
SPECIFICATION FairSpec
INVARIANTS NpausedCounts 
PROPERTIES SkipKeepsPause PlayEnds
