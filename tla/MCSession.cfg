SPECIFICATION FairSpec
CONSTANTS
    NSounds = 2
    Typed = {"generic", "list", "get", "put", "notify", "skip", "monitor", "open", "close", "quit"}
    RPTP_CONNECT_ATTEMPTS = 2
    Size = 2
    MaxTyped = 3
    MaxNotes = 1
    MaxFaults = 2
INVARIANTS AnswersMatch 
PROPERTIES ComesBack
CHECK_DEADLOCK FALSE
