\* Every kind of failure, four of them in a behavior.
SPECIFICATION Spec
CONSTANTS
    Keys = {k1, k2, k3}
    Endpoints = {e1, e2}
    None = None
    Blank = Blank
    Faults <- AllFaults
    MaxFaults = 4
SYMMETRY Symmetric
INVARIANTS
    TypeOK
    OnMeansWorking
    TunnelHasEndpointRoute
    OwnRouteRecorded
    OffMeansClean
    StuckIsVisible
PROPERTIES
    ForeignRoutesKept
    KeyGivenUpAfterProfile
    ImplementsPromise
