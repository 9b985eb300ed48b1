\* Two PCs that share the account, a create beside a reset.
SPECIFICATION Spec
CONSTANTS
    Users = {u1}
    Names = {pc}
    Keys = {k1, k2}
    Requests = {r1, r2}
    Addresses = {2, 3}
    None = None
    NoAddress = NoAddress
    Faults <- NoFaults
    MaxFaults = 0
SYMMETRY Symmetric
INVARIANTS
    PeerHasLease
