------------------------------ MODULE ControlApi ------------------------------
(***************************************************************************)
(* The control API on the VPS: provisioning and reset of VPN profiles.     *)
(* Requests run concurrently, one goroutine each.  A call of the Store is  *)
(* one step, since SQLite runs its transactions on a single connection;    *)
(* between a request's steps the others go on.                             *)
(*                                                                         *)
(* Not part of src/ and modelled from how the API uses it: the kernel's    *)
(* WireGuard peers.  An allowed address belongs to one peer: giving it to  *)
(* another peer leaves the first one without.                              *)
(***************************************************************************)
EXTENDS AddressPool, FiniteSets

CONSTANTS
    Users,          \* accounts; with MVP_NO_LOGIN every PC uses the same one
    Names,          \* device names
    Keys,           \* client public keys
    Requests,       \* goroutines that may handle requests at the same time
    Addresses,      \* what nextAssignedIP may return: Candidates of WG_SUBNET
    None,           \* no value
    NoAddress,      \* a peer without an allowed address
    Faults,         \* the kinds of failure that can happen in this instance
    MaxFaults       \* how many of them can happen in one behavior

ASSUME ApiAssumption ==
    /\ None # NoAddress /\ None \notin 2..253 /\ NoAddress \notin 2..253
    /\ None \notin Users \cup Names \cup Keys
    /\ Addresses \subseteq 2..253
    /\ Faults \subseteq {"database", "sync", "crash", "peersLost"}
    /\ MaxFaults \in Nat

VARIABLES
    devices,    \* rows of table devices
    peers,      \* allowed address of every WireGuard peer, None if it is no peer
    pc,         \* next step of every request
    job,        \* its user, and for a create the name, the key and the address
    todo,       \* the keys that a reset has still to remove
    answer,     \* status code of the last answer, 0 while there is none
    faults,     \* failures so far, at most MaxFaults
    crossed     \* history: keys whose create ran beside a reset of its own user,
                \* or that two resets of the user were after at the same time

vars == <<devices, peers, pc, job, todo, answer, faults, crossed>>

Row   == [user : Users, name : Names, key : Keys, ip : Addresses]
Job   == [user : Users \cup {None}, name : Names \cup {None}, key : Keys \cup {None},
          ip : Addresses \cup {None}]
NoJob == [user |-> None, name |-> None, key |-> None, ip |-> None]
Steps == {"idle", "create", "sync", "list", "remove", "delete"}
Codes == {0, 200, 201, 400, 409, 500, 503}

TypeOK ==
    /\ devices \subseteq Row
    /\ peers \in [Keys -> Addresses \cup {None, NoAddress}]
    /\ pc \in [Requests -> Steps]
    /\ job \in [Requests -> Job]
    /\ todo \in [Requests -> SUBSET Keys]
    /\ answer \in [Requests -> Codes]
    /\ faults \in 0..MaxFaults
    /\ crossed \subseteq Keys

Init ==
    /\ devices = {}
    /\ peers = [k \in Keys |-> None]
    /\ pc = [r \in Requests |-> "idle"]
    /\ job = [r \in Requests |-> NoJob]
    /\ todo = [r \in Requests |-> {}]
    /\ answer = [r \in Requests |-> 0]
    /\ faults = 0
    /\ crossed = {}

-----------------------------------------------------------------------------
Fault(f) == f \in Faults /\ faults < MaxFaults /\ faults' = faults + 1
NoFault  == faults' = faults

Goto(r, s) == pc' = [pc EXCEPT ![r] = s] /\ UNCHANGED answer

\* (mutant: a step that no handler has)
AnswerAndStay(r, code) ==
    /\ pc' = [pc EXCEPT ![r] = "answered"]
    /\ answer' = [answer EXCEPT ![r] = code]
    /\ UNCHANGED <<job, todo>>

\* The handler writes its answer and returns.
Answer(r, code) ==
    /\ pc' = [pc EXCEPT ![r] = "idle"]
    /\ answer' = [answer EXCEPT ![r] = code]
    /\ job' = [job EXCEPT ![r] = NoJob]
    /\ todo' = [todo EXCEPT ![r] = {}]

DevicesOf(u) == {d \in devices : d.user = u}
ByKey(k)     == {d \in devices : d.key = k}
UsedIPs      == {d.ip : d \in devices}

\* The creates that are under way, as user and key, and the users of the resets.
Creating  == {<<job[r].user, job[r].key>> :
                 r \in {q \in Requests : pc[q] \in {"create", "sync"}}}
Resetting == {job[r].user : r \in {q \in Requests : pc[q] \in {"list", "remove", "delete"}}}

-----------------------------------------------------------------------------
(* A request arrives; authenticated() has found its user.                  *)

Arrive(r, u, j, s) ==
    /\ pc[r] = "idle"
    /\ job' = [job EXCEPT ![r] = j]
    /\ pc' = [pc EXCEPT ![r] = s]
    /\ answer' = [answer EXCEPT ![r] = 0]
    /\ NoFault /\ UNCHANGED <<devices, peers, todo>>

PostDevice(r, u, n, k) ==
    Arrive(r, u, [user |-> u, name |-> n, key |-> k, ip |-> None], "create")

PostReset(r, u) == Arrive(r, u, [NoJob EXCEPT !.user = u], "list")

-----------------------------------------------------------------------------
(* POST /api/devices.                                                      *)

\* CreateOrGetDevice: the transaction.  The address is chosen before the insert
\* runs into UNIQUE(user_id, name).
CreateOrGetDevice(r) ==
    /\ pc[r] = "create"
    /\ LET j    == job[r]
           free == Addresses \ UsedIPs
       IN  \/ \E d \in ByKey(j.key) :
                 /\ d.user = j.user
                 /\ job' = [job EXCEPT ![r].ip = d.ip]
                 /\ Goto(r, "sync") /\ NoFault /\ UNCHANGED <<devices, todo>>
           \/ \E d \in ByKey(j.key) :
                 d.user # j.user /\ Answer(r, 409) /\ NoFault /\ UNCHANGED devices
           \/ /\ ByKey(j.key) = {} /\ free = {}
              /\ Answer(r, 400) /\ NoFault /\ UNCHANGED devices
           \/ /\ ByKey(j.key) = {} /\ free # {}
              /\ \E d \in DevicesOf(j.user) : d.name = j.name
              /\ Answer(r, 409) /\ NoFault /\ UNCHANGED devices
           \/ /\ ByKey(j.key) = {}
              /\ \A d \in DevicesOf(j.user) : d.name # j.name
              /\ \E ip \in free :
                    /\ IsLowest(ip, free)
                    /\ devices' = devices \cup {[j EXCEPT !.ip = ip]}
                    /\ job' = [job EXCEPT ![r].ip = ip]
              /\ Goto(r, "sync") /\ NoFault /\ UNCHANGED todo
           \/ Fault("database") /\ Answer(r, 500) /\ UNCHANGED devices
    /\ UNCHANGED peers

\* What ConfigureDevice does to the peers when k gets address ip.
WithPeer(k, ip) ==
    [l \in Keys |-> IF l = k THEN ip ELSE IF peers[l] = ip THEN NoAddress ELSE peers[l]]

\* (mutant: the error of UpsertPeer is ignored)
UpsertPeerIgnoringErrors(r) ==
    /\ pc[r] = "sync"
    /\ \/ peers' = WithPeer(job[r].key, job[r].ip) /\ NoFault
       \/ peers' = peers /\ Fault("sync")
    /\ Answer(r, 201) /\ UNCHANGED devices

\* UpsertPeer, also for a device that was there before.
UpsertPeer(r) ==
    /\ pc[r] = "sync"
    /\ \/ peers' = WithPeer(job[r].key, job[r].ip) /\ Answer(r, 201) /\ NoFault
       \/ peers' = peers /\ Answer(r, 503) /\ Fault("sync")
    /\ UNCHANGED devices

-----------------------------------------------------------------------------
(* POST /api/devices/reset.                                                *)

\* (mutant: the query lists the devices of all users)
DevicesForAllUsers(r) ==
    /\ pc[r] = "list"
    /\ todo' = [todo EXCEPT ![r] = {d.key : d \in devices}]
    /\ Goto(r, IF devices = {} THEN "delete" ELSE "remove")
    /\ NoFault /\ UNCHANGED <<job, devices, peers>>

DevicesForUser(r) ==
    /\ pc[r] = "list"
    /\ \/ /\ todo' = [todo EXCEPT ![r] = {d.key : d \in DevicesOf(job[r].user)}]
          /\ Goto(r, IF DevicesOf(job[r].user) = {} THEN "delete" ELSE "remove")
          /\ NoFault /\ UNCHANGED job
       \/ Fault("database") /\ Answer(r, 500)
    /\ UNCHANGED <<devices, peers>>

\* (mutant: a peer that cannot be removed is skipped)
RemovePeerIgnoringErrors(r) ==
    /\ pc[r] = "remove"
    /\ \E k \in todo[r] :
          /\ \/ peers' = [peers EXCEPT ![k] = None] /\ NoFault
             \/ peers' = peers /\ Fault("sync")
          /\ todo' = [todo EXCEPT ![r] = @ \ {k}]
          /\ Goto(r, IF todo[r] = {k} THEN "delete" ELSE "remove")
    /\ UNCHANGED <<job, devices>>

RemovePeer(r) ==
    /\ pc[r] = "remove"
    /\ \/ \E k \in todo[r] :
             /\ peers' = [peers EXCEPT ![k] = None]
             /\ todo' = [todo EXCEPT ![r] = @ \ {k}]
             /\ Goto(r, IF todo[r] = {k} THEN "delete" ELSE "remove")
             /\ NoFault /\ UNCHANGED job
       \/ Fault("sync") /\ Answer(r, 503) /\ UNCHANGED peers
    /\ UNCHANGED devices

\* (mutant: the statement has lost its WHERE)
ResetAllDevices(r) ==
    /\ pc[r] = "delete"
    /\ \/ devices' = {} /\ Answer(r, 200) /\ NoFault
       \/ Fault("database") /\ Answer(r, 500) /\ UNCHANGED devices
    /\ UNCHANGED peers

ResetDevices(r) ==
    /\ pc[r] = "delete"
    /\ \/ devices' = devices \ DevicesOf(job[r].user) /\ Answer(r, 200) /\ NoFault
       \/ Fault("database") /\ Answer(r, 500) /\ UNCHANGED devices
    /\ UNCHANGED peers

-----------------------------------------------------------------------------
(* The process and the kernel.                                             *)

\* The API stops in the middle of all its requests; SQLite keeps the rows.
Crash ==
    /\ Fault("crash")
    /\ pc' = [r \in Requests |-> "idle"]
    /\ job' = [r \in Requests |-> NoJob]
    /\ todo' = [r \in Requests |-> {}]
    /\ UNCHANGED <<devices, peers, answer>>

\* wg-quick restarts the interface; its configuration file lists no peers.
PeersLost ==
    /\ Fault("peersLost")
    /\ peers' = [k \in Keys |-> None]
    /\ UNCHANGED <<devices, pc, job, todo, answer>>

Handle(r) ==
    \/ CreateOrGetDevice(r) \/ UpsertPeer(r)
    \/ DevicesForUser(r) \/ RemovePeer(r) \/ ResetDevices(r)

\* The history.  Nothing keeps the requests of a user apart: what they do to
\* each other is counted from the moment that both are under way.
CreateCrosses(u, k) == crossed' = crossed \cup {l \in {k} : u \in Resetting}

ResetCrosses(u) ==
    crossed' = crossed \cup {k \in Keys : <<u, k>> \in Creating}
                       \cup {d.key : d \in {e \in DevicesOf(u) : u \in Resetting}}

Next ==
    \/ \E r \in Requests, u \in Users, n \in Names, k \in Keys :
          PostDevice(r, u, n, k) /\ CreateCrosses(u, k)
    \/ \E r \in Requests, u \in Users : PostReset(r, u) /\ ResetCrosses(u)
    \/ \E r \in Requests : Handle(r) /\ UNCHANGED crossed
    \/ Crash /\ UNCHANGED crossed
    \/ PeersLost /\ UNCHANGED crossed

Spec == Init /\ [][Next]_vars

-----------------------------------------------------------------------------
(* Properties.                                                             *)

Serves(k, ip) == peers[k] = ip /\ ip \in Addresses

\* The kernel lets a key in only under an address that a row of the database
\* leases to it.
PeerHasLease ==
    \A k \in Keys, ip \in Addresses :
        Serves(k, ip) => \E d \in devices : d.key = k /\ d.ip = ip

\* Where that fails, a create of this very key has crossed a reset of its user: no
\* other interleaving, and no failure, undoes the order "row before peer" of a
\* create and "peer before row" of a reset.
UnleasedIsCrossed ==
    \A k \in Keys, ip \in Addresses :
        Serves(k, ip) => k \in crossed \/ \E d \in devices : d.key = k /\ d.ip = ip

\* A create that is answered with 201 left its peer in the kernel and the row of
\* the same key and address in the database - the row unless it has crossed a reset.
CreatedIsServed ==
    [][\A r \in Requests :
          answer[r] # 201 /\ answer'[r] = 201 =>
              /\ peers'[job[r].key] = job[r].ip
              /\ \/ job[r].key \in crossed
                 \/ \E d \in devices' : d.key = job[r].key /\ d.ip = job[r].ip]_vars

\* A device that is served is cut off only by a reset of its own user, or when the
\* interface loses all its peers: nobody else's request takes its address.  Others
\* can do so in one case, when a key has crossed a reset: its own, or that of a
\* create which still configures a peer under an address that is free by now.
ServedUntilOwnReset ==
    [][\A d \in devices :
          peers[d.key] = d.ip /\ peers'[d.key] # d.ip =>
              \/ \E r \in Requests : pc[r] = "remove" /\ job[r].user = d.user
              \/ \A k \in Keys : peers'[k] = None
              \/ d.key \in crossed
              \/ \E r \in Requests :
                    pc[r] = "sync" /\ job[r].ip = d.ip /\ job[r].key \in crossed]_vars

\* What the PCs can see of the API: the rows, the peers that have an address, and
\* whose profiles are being asked for and taken away.
Promise == INSTANCE LeasePromise WITH
    Profiles  <- Row,
    leases    <- devices,
    served    <- {<<k, peers[k]>> : k \in {l \in Keys : peers[l] \in Addresses}},
    creating  <- Creating,
    resetting <- Resetting

\* To the PCs, the API with its concurrent requests, its two places of one fact
\* and its failures is what LeasePromise says.
KeepsPromise == Promise!Spec

==============================================================================
