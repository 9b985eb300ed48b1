----------------------------- MODULE AddressScan -----------------------------
(***************************************************************************)
(* nextAssignedIP, call after call: a loop over the last octet that stops  *)
(* at the first address of the subnet that no device has.  The addresses   *)
(* in use do not change during a call, which runs in a transaction.        *)
(***************************************************************************)
EXTENDS AddressPool

CONSTANTS
    None,       \* no address
    Bases,      \* last octets of base addresses
    Prefixes,   \* prefix lengths
    Holes       \* octets that are free at first or become free again

ASSUME ScanAssumption ==
    /\ Bases \subseteq 0..255 /\ Prefixes \subseteq 1..32
    /\ Holes \subseteq 2..253 /\ None \notin 2..253

VARIABLES
    base, ones,     \* the subnet
    used,           \* addresses of all devices
    pc,             \* "idle", "scan", "done"
    i, ip           \* the loop variable and the result

subnet == <<base, ones>>
vars   == <<subnet, used, pc, i, ip>>

Init ==
    /\ base \in Bases /\ ones \in Prefixes
    /\ \E free \in SUBSET Holes : used = Candidates(base, ones) \ free
    /\ pc = "idle" /\ i = 2 /\ ip = None

Call ==
    /\ pc = "idle" /\ pc' = "scan" /\ i' = 2 /\ ip' = None
    /\ UNCHANGED <<subnet, used>>

Probe ==
    /\ pc = "scan" /\ i < 254
    /\ \/ /\ Contains(base, ones, i) /\ i \notin used
          /\ ip' = i /\ pc' = "done" /\ i' = i
       \/ /\ ~Contains(base, ones, i) \/ i \in used
          /\ i' = i + 1 /\ UNCHANGED <<ip, pc>>
    /\ UNCHANGED <<subnet, used>>

\* (mutant: the loop ends one address early)
ExhaustedEarly ==
    /\ pc = "scan" /\ i >= 253
    /\ pc' = "done" /\ UNCHANGED <<subnet, used, i, ip>>

\* "VPN subnet has no available client addresses"
Exhausted ==
    /\ pc = "scan" /\ i >= 254
    /\ pc' = "done" /\ UNCHANGED <<subnet, used, i, ip>>

\* (mutant: the error is ignored)
LeaseUnchecked ==
    /\ pc = "done" /\ pc' = "idle" /\ used' = used \cup {ip}
    /\ UNCHANGED <<subnet, i, ip>>

\* The caller inserts the device, if it got an address.
Lease ==
    /\ pc = "done" /\ pc' = "idle"
    /\ used' = IF ip = None THEN used ELSE used \cup {ip}
    /\ UNCHANGED <<subnet, i, ip>>

\* A reset deletes a device.
Release ==
    /\ pc = "idle"
    /\ \E a \in used \cap Holes : used' = used \ {a}
    /\ UNCHANGED <<subnet, pc, i, ip>>

Next == Call \/ Probe \/ Exhausted \/ Lease \/ Release

Spec == Init /\ [][Next]_vars

TypeOK ==
    /\ base \in Bases /\ ones \in Prefixes
    /\ used \subseteq Candidates(base, ones)
    /\ pc \in {"idle", "scan", "done"}
    /\ i \in 2..254 /\ ip \in 2..253 \cup {None}

\* nextAssignedIP finds the lowest free address of the subnet and gives up only
\* when none is free: at both ends of the loop, for masks longer than /24, which
\* cut the last octet, and after addresses have come back in any order.
FindsLowestFree ==
    LET free == Free(base, ones, used)
    IN  pc = "done" => IF ip = None THEN free = {} ELSE IsLowest(ip, free)

==============================================================================
