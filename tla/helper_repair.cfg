\* Repair Helper against setup, uninstaller, and failures at any step.
SPECIFICATION FairSpec
CONSTANTS
    Tokens = {t1, t2, t3, t4}
    Missing = Missing
    Blank = Blank
    None = None
    Scripts = {s1, s2}
    Remedies <- RepairOrInstall
    MaxExtras = 2
    MaxFaults = 2
INVARIANTS
    TypeOK
    TokenAgrees
PROPERTIES
    HelperComesBack
CHECK_DEADLOCK FALSE
