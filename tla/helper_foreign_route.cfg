\* A marker that outlives its route.
SPECIFICATION Spec
CONSTANTS
    Keys = {k1, k2, k3}
    Endpoints = {e1, e2}
    None = None
    Blank = Blank
    Faults <- StaleMarker
    MaxFaults = 2
SYMMETRY Symmetric
PROPERTIES
    CleanupKeepsForeignRoutes
