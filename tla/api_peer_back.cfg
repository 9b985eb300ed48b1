\* Two PCs, with one account or two, a subnet with more addresses than that,
\* and one failure of any kind.
SPECIFICATION FairSpec
CONSTANTS
    PCs = {a, b}
    Users = {u1, u2}
    Keys = {k1, k2, k3, k4}
    Requests = {r1, r2}
    Accounts <- SharedOrOwn
    Name = "Windows PC"
    Addresses = {2, 3, 4, 5, 6, 7}
    None = None
    Faults <- AllFaults
    MaxFaults = 1
INVARIANTS
    TypeOK
    OnIsServed
    OverlapHasCause
    PeersHaveLeases
PROPERTIES
    PeerComesBack
