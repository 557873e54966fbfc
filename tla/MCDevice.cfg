SPECIFICATION FairSpec
CONSTANTS
    Drivers = {"oss", "FreeBSD", "solaris", "sun", "hpux", "sgi", "generic"}
    Entries = {e1, e2}
    Rates = {6, 8}
    SoundRates = {7, 8}
    Starts <- MCStarts
    StartRates = {0}
    StartSizes = {5}
    Asks <- MCAsks
    Timeouts = {1, 2}
    RPLAY_AUDIO_RATE = 4
    CleanupTimeout = 2
    RplaydTimeout = 1
INVARIANTS ConfigAgrees FactorsRight
PROPERTIES OpensEventually
CHECK_DEADLOCK FALSE
