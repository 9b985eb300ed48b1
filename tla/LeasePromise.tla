----------------------------- MODULE LeasePromise -----------------------------
(***************************************************************************)
(* What the control API promises about VPN profiles, without requests,     *)
(* tables and answers: who has a profile, and from which keys and          *)
(* addresses the server takes packets.  The promise for a key is weaker    *)
(* once a client has asked for its profile and for its reset at the same   *)
(* time; clients that do not do so get all of it.  ControlApi implements   *)
(* it.                                                                     *)
(***************************************************************************)
CONSTANTS
    Users,
    Keys,
    Profiles    \* [user, name, key, ip] that can ever be leased

VARIABLES
    leases,     \* the profiles that are leased
    served,     \* pairs of key and address that the server takes packets from
    creating,   \* pairs of user and key that a profile has been asked for
    resetting,  \* users whose profiles are being taken away
    crossed     \* keys that a client has asked for and taken back at the same time

vars == <<leases, served, creating, resetting, crossed>>

Peer(l) == <<l.key, l.ip>>

LeasesOf(u) == {l \in leases : l.user = u}

Conflict(l, m) == l.key = m.key \/ l.ip = m.ip \/ (l.user = m.user /\ l.name = m.name)

Init == leases = {} /\ served = {} /\ creating = {} /\ resetting = {} /\ crossed = {}

-----------------------------------------------------------------------------
\* A request that ends may be one of several for the same.
CreateEnds(u, k) == creating' \in {creating, creating \ {<<u, k>>}}
ResetEnds(u)     == resetting' \in {resetting, resetting \ {u}}

AskFor(u, k) ==
    /\ creating' = creating \cup {<<u, k>>}
    /\ crossed' = crossed \cup {l \in {k} : u \in resetting}
    /\ UNCHANGED <<leases, served, resetting>>

\* A profile with a key, an address and, for its user, a name of its own.
Grant(l) ==
    /\ <<l.user, l.key>> \in creating /\ \A m \in leases : ~Conflict(l, m)
    /\ leases' = leases \cup {l} /\ UNCHANGED <<served, creating, resetting, crossed>>

\* Only what is leased is served - a key that has crossed a reset, whatever it is
\* given - and it replaces what the server knew of the key and the address.
Serve(l) ==
    /\ <<l.user, l.key>> \in creating /\ (l \in leases \/ l.key \in crossed)
    /\ served' = {p \in served : p[1] # l.key /\ p[2] # l.ip} \cup {Peer(l)}
    /\ CreateEnds(l.user, l.key) /\ UNCHANGED <<leases, resetting, crossed>>

\* The create is refused or fails; what it has been granted stays granted.
AbandonCreate(u, k) ==
    /\ <<u, k>> \in creating
    /\ CreateEnds(u, k) /\ UNCHANGED <<leases, served, resetting, crossed>>

BeginReset(u) ==
    /\ resetting' = resetting \cup {u}
    /\ crossed' = crossed \cup {k \in Keys : <<u, k>> \in creating}
                          \cup {l.key : l \in {m \in LeasesOf(u) : u \in resetting}}
    /\ UNCHANGED <<leases, served, creating>>

\* The devices of the user, and no others, are cut off one after the other.
Withdraw(u, k) ==
    /\ u \in resetting /\ (k \in crossed \/ \E l \in LeasesOf(u) : l.key = k)
    /\ served' = {p \in served : p[1] # k}
    /\ UNCHANGED <<leases, creating, resetting, crossed>>

\* The profiles go when none of them is served any more, all at once.
Revoke(u) ==
    /\ u \in resetting
    /\ \A l \in LeasesOf(u) : Peer(l) \notin served \/ l.key \in crossed
    /\ leases' = leases \ LeasesOf(u)
    /\ ResetEnds(u) /\ UNCHANGED <<served, creating, crossed>>

\* The reset fails on its way; what it has cut off stays cut off.
AbandonReset(u) ==
    /\ u \in resetting
    /\ ResetEnds(u) /\ UNCHANGED <<leases, served, creating, crossed>>

\* The API stops; nothing that is leased or served changes.
Stop == creating' = {} /\ resetting' = {} /\ UNCHANGED <<leases, served, crossed>>

\* The server loses all its peers; what is leased stays so.
Outage == served' = {} /\ UNCHANGED <<leases, creating, resetting, crossed>>

Next ==
    \/ \E l \in Profiles : Grant(l) \/ Serve(l)
    \/ \E u \in Users, k \in Keys : AskFor(u, k) \/ AbandonCreate(u, k) \/ Withdraw(u, k)
    \/ \E u \in Users : BeginReset(u) \/ Revoke(u) \/ AbandonReset(u)
    \/ Stop \/ Outage

Spec == Init /\ [][Next]_vars

==============================================================================
