\* A user who installs PVN again when the helper refuses; one failure.
SPECIFICATION FairSpec
CONSTANTS
    Tokens = {t1, t2, t3, t4}
    Missing = Missing
    Blank = Blank
    None = None
    Scripts = {s1}
    Remedies <- OnlyInstall
    MaxExtras = 0
    MaxFaults = 1
PROPERTIES
    BlankTokenIsReplaced
CHECK_DEADLOCK FALSE
