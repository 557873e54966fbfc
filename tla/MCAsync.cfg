SPECIFICATION FairSpec
CONSTANTS
    Fds = {1, 2}
    Kinds = {"+", "@done"}
    Masks <- SomeMasks
    Length = 1
    Says <- SomeLines
    MaxWrites <- TwoThenOne
INVARIANTS WrittenInOrder LinesArrive
PROPERTIES LoopServes
CHECK_DEADLOCK FALSE
