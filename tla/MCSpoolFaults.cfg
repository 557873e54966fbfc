CONSTANTS
    c1 = c1
    c2 = c2
    c3 = c3
    Cells = {c1, c2}
    MaxId = 2
    Sounds = {"b", "f", "r", "x"}
    Info <- MCInfo
    Requests <- FaultRequests
    NoName = ""
    Targets <- FaultTargets
    SkipCounts <- FaultSkips
    Changes = {}
    BufUnits = 1
    MaxFlow = 1
    MaxList = 2
    Env = {"open_fails", "map_fails", "late_put", "reset"}
SPECIFICATION Spec
SYMMETRY CellSymmetry
CHECK_DEADLOCK FALSE
INVARIANTS NplayingCounts  ClientsKnow
