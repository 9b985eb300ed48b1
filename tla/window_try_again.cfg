\* An error that leaves Connecting behind.
SPECIFICATION FairSpec
CONSTANTS
    Threads = {t1, t2}
    None = None
    Unmarked <- BothUnmarked
    Advanced = {}
    MaxCalls = 1
    MaxFaults = 0
PROPERTIES
    TryAgainPossible
