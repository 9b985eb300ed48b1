\* A key file that could not be written.
SPECIFICATION FairSpec
CONSTANTS
    Keys = {k1, k2, k3}
    Endpoints = {e1, e2}
    None = None
    Blank = Blank
    Faults <- FailedWrite
    MaxFaults = 1
PROPERTIES
    ReconnectWorks
