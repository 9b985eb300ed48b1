\* Two connections, two commands under way, two failures.
SPECIFICATION FairSpec
CONSTANTS
    Threads = {t1, t2}
    None = None
    Unmarked <- BothUnmarked
    Advanced <- AllAdvanced
    MaxCalls = 2
    MaxFaults = 2
INVARIANTS
    TypeOK
    OnePowerCall
    StopIsFinal
    ShowsHelperState
    BusyHasReason
PROPERTIES
    WindowCatchesUp
    ButtonComesBack
