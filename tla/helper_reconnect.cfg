\* Under fairness, with failures of every kind but a failed write of the key.
SPECIFICATION FairSpec
CONSTANTS
    Keys = {k1, k2, k3}
    Endpoints = {e1, e2}
    None = None
    Blank = Blank
    Faults <- KeysAreWritten
    MaxFaults = 2
PROPERTIES
    ReconnectWorks
