\* Two requests at a time, of one user or of two, with failures.
SPECIFICATION Spec
CONSTANTS
    Users = {u1, u2}
    Names = {pc, laptop}
    Keys = {k1, k2, k3}
    Requests = {r1, r2}
    Addresses = {2, 3}
    None = None
    NoAddress = NoAddress
    Faults <- AllFaults
    MaxFaults = 1
SYMMETRY Symmetric
INVARIANTS
    TypeOK
    UnleasedIsCrossed
PROPERTIES
    CreatedIsServed
    ServedUntilOwnReset
    KeepsPromise
