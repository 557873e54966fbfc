SPECIFICATION Spec
CONSTANTS
    Files = {"A"}
    Stored = {"C", "D"}
    Key <- MCKey
    Base <- MCBase
    Size <- MCSize
    Contents <- MCContents
    Names <- MCNames
    Listings = {{"A"}}
    Helped = {{}, {"A"}}
    HelperPar <- MCPar
    FlowPars <- MCFlowPars
    Storages = {"disk"}
    FlowPaths = {"C"}
    PutPaths = {"D"}
    Entries = {e1, e2}
    MaxSize = 100
    MaxSoundSize = 0
INVARIANTS TableWhole CacheCounts  MapRight
SYMMETRY MCSymmetry
CHECK_DEADLOCK FALSE
