--------------------------- MODULE ControlApiProofs ---------------------------
(***************************************************************************)
(* ControlApi for any sets of users, keys and concurrent requests, however *)
(* they overlap, any subnet and any failures: the types, and what a create *)
(* that crosses a reset of its own user can break, and nothing else can.   *)
(***************************************************************************)
EXTENDS ControlApi, TLAPS

\* Leased addresses are numbers, and a free address is in no row.
LEMMA AddressFacts ==
    /\ None \notin Addresses /\ NoAddress \notin Addresses
    /\ \A ip \in Addresses \ UsedIPs :
          ip \in Addresses /\ \A d \in devices : d.ip # ip
  <1>1. None \notin Addresses /\ NoAddress \notin Addresses
    BY ApiAssumption DEF ApiAssumption
  <1>2. ASSUME NEW ip \in Addresses \ UsedIPs
        PROVE  ip \in Addresses /\ \A d \in devices : d.ip # ip
    BY <1>2 DEF UsedIPs
  <1>3. QED
    BY <1>1, <1>2

-----------------------------------------------------------------------------
(* Type correctness.                                                       *)

\* A request that runs has a user, and a create has all it needs.
JobOK ==
    \A r \in Requests :
        /\ pc[r] # "idle" => job[r].user \in Users
        /\ pc[r] \in {"create", "sync"} => job[r].name \in Names /\ job[r].key \in Keys
        /\ pc[r] = "sync" => job[r].ip \in Addresses

Typed == TypeOK /\ JobOK

LocalTyped ==
    /\ pc \in [Requests -> Steps] /\ job \in [Requests -> Job]
    /\ todo \in [Requests -> SUBSET Keys] /\ answer \in [Requests -> Codes]
    /\ JobOK

LEMMA AnswerTyped ==
    ASSUME Typed, NEW r \in Requests, NEW code \in Codes, Answer(r, code)
    PROVE  LocalTyped'
  BY DEF Typed, TypeOK, JobOK, LocalTyped, Answer, NoJob, Job, Steps

LEMMA FaultTyped ==
    ASSUME Typed, NoFault \/ \E f \in {"database", "sync", "crash", "peersLost"} : Fault(f)
    PROVE  faults' \in 0..MaxFaults
  BY ApiAssumption DEF ApiAssumption, Typed, TypeOK, NoFault, Fault

LEMMA CreateTyped ==
    ASSUME Typed, NEW r \in Requests, CreateOrGetDevice(r), UNCHANGED crossed
    PROVE  Typed'
  <1> USE DEF Typed
  <1>1. pc[r] = "create" /\ job[r].user \in Users /\ job[r].name \in Names /\ job[r].key \in Keys
    BY DEF JobOK, CreateOrGetDevice
  <1>2. faults' \in 0..MaxFaults
    BY FaultTyped DEF CreateOrGetDevice
  <1>3. peers' \in [Keys -> Addresses \cup {None, NoAddress}]
    BY DEF CreateOrGetDevice, TypeOK
  <1>4. ASSUME NEW ip \in Addresses, job' = [job EXCEPT ![r].ip = ip], Goto(r, "sync"),
               UNCHANGED todo
        PROVE  LocalTyped'
    BY <1>1, <1>4 DEF LocalTyped, TypeOK, JobOK, Goto, Job, Steps
  <1>5. ASSUME NEW code \in {400, 409, 500}, Answer(r, code), UNCHANGED devices
        PROVE  LocalTyped' /\ devices' \subseteq Row
    BY <1>5, AnswerTyped DEF TypeOK, Codes
  <1>6. CASE \E code \in {400, 409, 500} : Answer(r, code) /\ UNCHANGED devices
    BY <1>2, <1>3, <1>5, <1>6 DEF TypeOK, LocalTyped
  <1>7. CASE \E d \in ByKey(job[r].key) :
                 /\ job' = [job EXCEPT ![r].ip = d.ip]
                 /\ Goto(r, "sync") /\ UNCHANGED <<devices, todo>>
    <2>1. devices' \subseteq Row /\ \A d \in ByKey(job[r].key) : d.ip \in Addresses
      BY <1>7 DEF TypeOK, ByKey, Row
    <2>2. LocalTyped'
      BY <1>4, <1>7, <2>1
    <2>3. QED
      BY <1>2, <1>3, <2>1, <2>2 DEF TypeOK, LocalTyped
  <1>8. CASE \E ip \in Addresses \ UsedIPs :
                 /\ devices' = devices \cup {[job[r] EXCEPT !.ip = ip]}
                 /\ job' = [job EXCEPT ![r].ip = ip]
                 /\ Goto(r, "sync") /\ UNCHANGED todo
    <2>1. PICK ip \in Addresses : /\ devices' = devices \cup {[job[r] EXCEPT !.ip = ip]}
                                  /\ job' = [job EXCEPT ![r].ip = ip]
                                  /\ Goto(r, "sync") /\ UNCHANGED todo
      BY <1>8, AddressFacts
    <2>2. [job[r] EXCEPT !.ip = ip] \in Row
      BY <1>1 DEF TypeOK, Row, Job
    <2>3. LocalTyped'
      BY <1>4, <2>1
    <2>4. QED
      BY <1>2, <1>3, <2>1, <2>2, <2>3 DEF TypeOK, LocalTyped
  <1>9. QED
    BY <1>6, <1>7, <1>8 DEF CreateOrGetDevice

LEMMA StepTyped ==
    ASSUME Typed, [Next]_vars
    PROVE  Typed'
  <1> USE DEF Typed
  <1>1. ASSUME NEW r \in Requests, NEW u \in Users, NEW n \in Names, NEW k \in Keys,
               PostDevice(r, u, n, k), CreateCrosses(u, k)
        PROVE  Typed'
    BY <1>1 DEF CreateCrosses, PostDevice, Arrive, TypeOK, JobOK, Job, Steps, Codes, NoFault
  <1>2. ASSUME NEW r \in Requests, NEW u \in Users, PostReset(r, u), ResetCrosses(u)
        PROVE  Typed'
    <2>1. crossed' \subseteq Keys
      BY <1>2 DEF ResetCrosses, DevicesOf, TypeOK, Row
    <2>2. QED
      BY <1>2, <2>1 DEF PostReset, Arrive, TypeOK, JobOK, Job, NoJob, Steps, Codes, NoFault
  <1>3. ASSUME NEW r \in Requests, UpsertPeer(r), UNCHANGED crossed
        PROVE  Typed'
    <2>1. faults' \in 0..MaxFaults
      BY <1>3, FaultTyped DEF UpsertPeer
    <2>2. LocalTyped'
      BY <1>3, AnswerTyped DEF UpsertPeer, Codes
    <2>3. peers' \in [Keys -> Addresses \cup {None, NoAddress}] /\ devices' \subseteq Row
      BY <1>3 DEF UpsertPeer, WithPeer, TypeOK, JobOK
    <2>4. QED
      BY <1>3, <2>1, <2>2, <2>3 DEF TypeOK, LocalTyped
  <1>4. ASSUME NEW r \in Requests, DevicesForUser(r), UNCHANGED crossed
        PROVE  Typed'
    <2>1. faults' \in 0..MaxFaults
      BY <1>4, FaultTyped DEF DevicesForUser
    <2>2. CASE Answer(r, 500)
      BY <1>4, <2>1, <2>2, AnswerTyped DEF DevicesForUser, TypeOK, LocalTyped, Codes
    <2>3. CASE /\ todo' = [todo EXCEPT ![r] = {d.key : d \in DevicesOf(job[r].user)}]
               /\ Goto(r, IF DevicesOf(job[r].user) = {} THEN "delete" ELSE "remove")
               /\ UNCHANGED job
      <3>1. {d.key : d \in DevicesOf(job[r].user)} \subseteq Keys
        BY DEF TypeOK, DevicesOf, Row
      <3>2. QED
        BY <1>4, <2>1, <2>3, <3>1 DEF DevicesForUser, TypeOK, JobOK, Goto, Steps
    <2>4. QED
      BY <1>4, <2>2, <2>3 DEF DevicesForUser
  <1>5. ASSUME NEW r \in Requests, RemovePeer(r), UNCHANGED crossed
        PROVE  Typed'
    <2>1. faults' \in 0..MaxFaults
      BY <1>5, FaultTyped DEF RemovePeer
    <2>2. CASE Answer(r, 503)
      BY <1>5, <2>1, <2>2, AnswerTyped DEF RemovePeer, TypeOK, LocalTyped, Codes
    <2>3. CASE \E k \in todo[r] : /\ peers' = [peers EXCEPT ![k] = None]
                                  /\ todo' = [todo EXCEPT ![r] = @ \ {k}]
                                  /\ Goto(r, IF todo[r] = {k} THEN "delete" ELSE "remove")
                                  /\ UNCHANGED job
      BY <1>5, <2>1, <2>3 DEF RemovePeer, TypeOK, JobOK, Goto, Steps
    <2>4. QED
      BY <1>5, <2>2, <2>3 DEF RemovePeer
  <1>6. ASSUME NEW r \in Requests, ResetDevices(r), UNCHANGED crossed
        PROVE  Typed'
    <2>1. faults' \in 0..MaxFaults
      BY <1>6, FaultTyped DEF ResetDevices
    <2>2. LocalTyped'
      BY <1>6, AnswerTyped DEF ResetDevices, Codes
    <2>3. QED
      BY <1>6, <2>1, <2>2 DEF ResetDevices, TypeOK, LocalTyped
  <1>7. CASE Crash /\ UNCHANGED crossed
    <2>1. faults' \in 0..MaxFaults
      BY <1>7, FaultTyped DEF Crash
    <2>2. LocalTyped'
      BY <1>7 DEF Crash, LocalTyped, TypeOK, JobOK, Job, NoJob, Steps
    <2>3. QED
      BY <1>7, <2>1, <2>2 DEF Crash, TypeOK, LocalTyped
  <1>8. CASE PeersLost /\ UNCHANGED crossed
    BY <1>8, FaultTyped DEF PeersLost, TypeOK, JobOK
  <1>9. CASE UNCHANGED vars
    BY <1>9 DEF vars, TypeOK, JobOK
  <1>10. QED
    BY <1>1, <1>2, <1>3, <1>4, <1>5, <1>6, <1>7, <1>8, <1>9, CreateTyped DEF Next, Handle

LEMMA TypedInvariance == Spec => []Typed
  <1>1. Init => Typed
    BY ApiAssumption DEF ApiAssumption, Init, Typed, TypeOK, JobOK, Job, NoJob, Steps, Codes
  <1>2. Typed /\ [Next]_vars => Typed'
    BY StepTyped
  <1>3. QED
    BY <1>1, <1>2, PTL DEF Spec

\* Every variable keeps its type: no handler goes on with a user, key or address
\* that it does not have, and only addresses of the subnet are leased.
THEOREM ApiTypeCorrect == Spec => []TypeOK
  <1>1. Typed => TypeOK
    BY DEF Typed
  <1>2. QED
    BY <1>1, TypedInvariance, PTL

-----------------------------------------------------------------------------
(* Peers and leases.                                                       *)

CreateSteps == {"create", "sync"}
ResetSteps  == {"list", "remove", "delete"}

\* UNIQUE(client_public_key) and UNIQUE(assigned_ip).
RowsUnique ==
    \A d, e \in devices : d.key = e.key \/ d.ip = e.ip => d = e

\* What the history is there for: a create and a reset of one user have crossed,
\* and so have two resets and every row of their user.
CreateBesideReset ==
    \A r, s \in Requests :
        pc[r] \in CreateSteps /\ pc[s] \in ResetSteps /\ job[r].user = job[s].user =>
            job[r].key \in crossed

TwoResets ==
    \A r, s \in Requests :
        r # s /\ pc[r] \in ResetSteps /\ pc[s] \in ResetSteps /\ job[r].user = job[s].user =>
            \A d \in devices : d.user = job[r].user => d.key \in crossed

\* The row that a create leased is still there when it comes to its peer.
SyncHasRow ==
    \A r \in Requests : pc[r] = "sync" =>
        \/ job[r].key \in crossed
        \/ \E d \in devices : d.user = job[r].user /\ d.key = job[r].key /\ d.ip = job[r].ip

\* A reset has to remove keys of its own user only ...
ResetOwnKeys ==
    \A r \in Requests : pc[r] = "remove" =>
        \A k \in todo[r] :
            k \in crossed \/ \E d \in devices : d.user = job[r].user /\ d.key = k

\* ... and deletes no row whose peer it did not remove.
ResetCovers ==
    \A r \in Requests :
        /\ pc[r] \in {"remove", "delete"} =>
              \A d \in devices : d.user = job[r].user =>
                  d.key \in todo[r] \/ d.key \in crossed \/ peers[d.key] \notin Addresses
        /\ pc[r] = "delete" => todo[r] = {}

Apart   == CreateBesideReset /\ TwoResets
InOrder == SyncHasRow /\ ResetOwnKeys /\ ResetCovers

LeaseInv == Typed /\ RowsUnique /\ Apart /\ InOrder /\ UnleasedIsCrossed

\* What a step of request r leaves alone.
OthersKeep(r) ==
    \A q \in Requests : q # r => pc'[q] = pc[q] /\ job'[q] = job[q] /\ todo'[q] = todo[q]

\* A request that arrives enters the history with those that are under way.
LEMMA ArriveLease ==
    ASSUME LeaseInv, Typed', NEW r \in Requests, NEW u \in Users,
           NEW j \in Job, j.user = u, NEW s \in {"create", "list"}, Arrive(r, u, j, s),
           crossed \subseteq crossed',
           s = "create" /\ u \in Resetting => j.key \in crossed',
           s = "list" => \A k \in Keys : <<u, k>> \in Creating => k \in crossed',
           s = "list" /\ u \in Resetting => \A d \in DevicesOf(u) : d.key \in crossed'
    PROVE  LeaseInv'
  <1> USE DEF LeaseInv
  <1>1. UNCHANGED <<devices, peers, todo>> /\ OthersKeep(r) /\ pc'[r] = s /\ job'[r] = j
    BY DEF Typed, TypeOK, Arrive, OthersKeep
  <1>2. \A q \in Requests : pc[q] \in ResetSteps => job[q].user \in Resetting
    BY DEF Resetting, ResetSteps
  <1>3. \A q \in Requests : pc[q] \in CreateSteps =>
            job[q].key \in Keys /\ <<job[q].user, job[q].key>> \in Creating
    BY DEF Creating, CreateSteps, Typed, JobOK
  <1>4. CreateBesideReset'
    BY <1>1, <1>2, <1>3 DEF Apart, CreateBesideReset, OthersKeep, CreateSteps, ResetSteps
  <1>5. TwoResets'
    BY <1>1, <1>2 DEF Apart, TwoResets, OthersKeep, ResetSteps, DevicesOf
  <1>6. RowsUnique' /\ UnleasedIsCrossed'
    BY <1>1 DEF RowsUnique, UnleasedIsCrossed, Serves
  <1>7. InOrder'
    BY <1>1 DEF InOrder, SyncHasRow, ResetOwnKeys, ResetCovers, OthersKeep
  <1>8. QED
    BY <1>4, <1>5, <1>6, <1>7 DEF Apart

\* A request that answers leaves the invariant to the others.
LEMMA AnswerLease ==
    ASSUME LeaseInv, Typed', NEW r \in Requests, NEW code \in Codes, Answer(r, code),
           UNCHANGED <<devices, peers, crossed>>
    PROVE  LeaseInv'
  <1> USE DEF LeaseInv
  <1>1. OthersKeep(r) /\ pc'[r] = "idle"
    BY DEF Typed, TypeOK, Answer, OthersKeep
  <1>2. Apart'
    BY <1>1 DEF Apart, CreateBesideReset, TwoResets, CreateSteps, ResetSteps, OthersKeep
  <1>3. RowsUnique' /\ UnleasedIsCrossed'
    BY DEF RowsUnique, UnleasedIsCrossed, Serves
  <1>4. InOrder'
    BY <1>1 DEF InOrder, SyncHasRow, ResetOwnKeys, ResetCovers, OthersKeep
  <1>5. QED
    BY <1>2, <1>3, <1>4

LEMMA CreateLease ==
    ASSUME LeaseInv, Typed', NEW r \in Requests, CreateOrGetDevice(r), UNCHANGED crossed
    PROVE  LeaseInv'
  <1> USE DEF LeaseInv
  <1>1. pc[r] = "create" /\ UNCHANGED <<peers, crossed>>
    BY DEF CreateOrGetDevice
  <1>2. CASE \E code \in {400, 409, 500} : Answer(r, code) /\ UNCHANGED devices
    BY <1>1, <1>2, AnswerLease DEF Codes
  <1>3. CASE \E d \in ByKey(job[r].key) :
                 /\ d.user = job[r].user
                 /\ job' = [job EXCEPT ![r].ip = d.ip]
                 /\ Goto(r, "sync") /\ UNCHANGED <<devices, todo>>
    <2>1. PICK d \in devices : /\ d.key = job[r].key /\ d.user = job[r].user
                               /\ job' = [job EXCEPT ![r].ip = d.ip]
                               /\ pc' = [pc EXCEPT ![r] = "sync"]
                               /\ UNCHANGED <<devices, todo>>
      BY <1>3 DEF ByKey, Goto
    <2>2. OthersKeep(r)
      BY <2>1 DEF Typed, TypeOK, OthersKeep
    <2>3. /\ pc'[r] = "sync" /\ job'[r].user = job[r].user /\ job'[r].key = job[r].key
          /\ job'[r].ip = d.ip
      BY <2>1 DEF Typed, TypeOK, Job
    <2>4. Apart'
      BY <1>1, <2>1, <2>2, <2>3 DEF Apart, CreateBesideReset, TwoResets, CreateSteps,
         ResetSteps, OthersKeep
    <2>5. RowsUnique' /\ UnleasedIsCrossed'
      BY <1>1, <2>1 DEF RowsUnique, UnleasedIsCrossed, Serves
    <2>6. InOrder'
      BY <1>1, <2>1, <2>2, <2>3 DEF InOrder, SyncHasRow, ResetOwnKeys, ResetCovers, OthersKeep
    <2>7. QED
      BY <2>4, <2>5, <2>6
  <1>4. CASE /\ ByKey(job[r].key) = {}
             /\ \E ip \in Addresses \ UsedIPs :
                    /\ devices' = devices \cup {[job[r] EXCEPT !.ip = ip]}
                    /\ job' = [job EXCEPT ![r].ip = ip]
             /\ Goto(r, "sync") /\ UNCHANGED todo
    <2> DEFINE new(ip) == [job[r] EXCEPT !.ip = ip]
    <2>1. PICK ip \in Addresses : /\ devices' = devices \cup {new(ip)}
                                  /\ job' = [job EXCEPT ![r].ip = ip]
                                  /\ pc' = [pc EXCEPT ![r] = "sync"]
                                  /\ UNCHANGED todo
                                  /\ \A d \in devices : d.ip # ip /\ d.key # job[r].key
      BY <1>4, AddressFacts DEF Goto, ByKey
    <2>2. OthersKeep(r)
      BY <2>1 DEF Typed, TypeOK, OthersKeep
    <2>3. /\ pc'[r] = "sync" /\ job'[r].user = job[r].user /\ job'[r].key = job[r].key
          /\ job'[r].ip = ip
          /\ new(ip).user = job[r].user /\ new(ip).key = job[r].key /\ new(ip).ip = ip
      BY <2>1 DEF Typed, TypeOK, Job
    <2> HIDE DEF new
    <2>4. \A q \in Requests : pc[q] \in ResetSteps /\ job[q].user = job[r].user =>
              job[r].key \in crossed
      BY <1>1 DEF Apart, CreateBesideReset, CreateSteps
    <2>5. CreateBesideReset'
      BY <1>1, <2>2, <2>3 DEF Apart, CreateBesideReset, CreateSteps, ResetSteps, OthersKeep
    <2>6. TwoResets'
      BY <1>1, <2>1, <2>2, <2>3, <2>4 DEF Apart, TwoResets, ResetSteps, OthersKeep
    <2>7. RowsUnique'
      BY <2>1, <2>3 DEF RowsUnique
    <2>8. UnleasedIsCrossed'
      BY <1>1, <2>1 DEF UnleasedIsCrossed, Serves
    <2>9. SyncHasRow'
      BY <1>1, <2>1, <2>2, <2>3 DEF InOrder, SyncHasRow, OthersKeep
    <2>10. ResetOwnKeys'
      BY <1>1, <2>1, <2>2, <2>3 DEF InOrder, ResetOwnKeys, OthersKeep
    <2>11. ResetCovers'
      BY <1>1, <2>1, <2>2, <2>3, <2>4 DEF InOrder, ResetCovers, ResetSteps, OthersKeep
    <2>12. QED
      BY <2>5, <2>6, <2>7, <2>8, <2>9, <2>10, <2>11 DEF Apart, InOrder
  <1>5. QED
    BY <1>2, <1>3, <1>4 DEF CreateOrGetDevice

LEMMA UpsertLease ==
    ASSUME LeaseInv, Typed', NEW r \in Requests, UpsertPeer(r), UNCHANGED crossed
    PROVE  LeaseInv'
  <1> USE DEF LeaseInv
  <1>1. CASE peers' = peers
    BY <1>1, AnswerLease DEF UpsertPeer, Codes
  <1>2. CASE peers' = WithPeer(job[r].key, job[r].ip) /\ Answer(r, 201)
    <2> DEFINE key == job[r].key
               ip  == job[r].ip
    <2>1. pc[r] = "sync" /\ UNCHANGED <<devices, crossed>>
      BY DEF UpsertPeer
    <2>2. key \in crossed \/ \E d \in devices : d.user = job[r].user /\ d.key = key /\ d.ip = ip
      BY <2>1 DEF InOrder, SyncHasRow
    <2>3. OthersKeep(r) /\ pc'[r] = "idle"
      BY <1>2 DEF Answer, Typed, TypeOK, OthersKeep
    <2>4. \A k \in Keys : peers'[k] = IF k = key THEN ip
                                      ELSE IF peers[k] = ip THEN NoAddress ELSE peers[k]
      BY <1>2 DEF WithPeer
    <2>5. NoAddress \notin Addresses
      BY AddressFacts
    <2>6. UnleasedIsCrossed'
      BY <2>1, <2>2, <2>4, <2>5 DEF UnleasedIsCrossed, Serves
    <2>7. Apart'
      BY <2>1, <2>3 DEF Apart, CreateBesideReset, TwoResets, CreateSteps, ResetSteps, OthersKeep
    <2>8. RowsUnique' /\ SyncHasRow' /\ ResetOwnKeys'
      BY <2>1, <2>3 DEF RowsUnique, InOrder, SyncHasRow, ResetOwnKeys, OthersKeep
    <2>9. ResetCovers'
      <3> SUFFICES ASSUME NEW q \in Requests, pc'[q] \in {"remove", "delete"}
                   PROVE  /\ \A e \in devices : e.user = job[q].user =>
                                \/ e.key \in todo[q] \/ e.key \in crossed
                                \/ peers'[e.key] \notin Addresses
                          /\ pc[q] = "delete" => todo[q] = {}
        BY <2>1, <2>3 DEF ResetCovers, OthersKeep
      <3>1. pc[q] \in {"remove", "delete"}
        BY <2>3 DEF OthersKeep
      <3>2. ASSUME NEW e \in devices, e.user = job[q].user, e.key \notin todo[q],
                   e.key \notin crossed
            PROVE  peers'[e.key] \notin Addresses
        <4>1. e.key # key
          BY <2>1, <2>2, <3>1, <3>2 DEF RowsUnique, Apart, CreateBesideReset, CreateSteps, ResetSteps
        <4>2. peers[e.key] \notin Addresses /\ e.key \in Keys
          BY <3>1, <3>2 DEF InOrder, ResetCovers, Typed, TypeOK, Row
        <4>3. QED
          BY <2>4, <2>5, <4>1, <4>2
      <3>3. QED
        BY <3>1, <3>2 DEF InOrder, ResetCovers
    <2>10. QED
      BY <2>6, <2>7, <2>8, <2>9 DEF InOrder
  <1>3. QED
    BY <1>1, <1>2 DEF UpsertPeer

LEMMA ListLease ==
    ASSUME LeaseInv, Typed', NEW r \in Requests, DevicesForUser(r), UNCHANGED crossed
    PROVE  LeaseInv'
  <1> USE DEF LeaseInv
  <1>1. UNCHANGED <<devices, peers, crossed>> /\ pc[r] = "list"
    BY DEF DevicesForUser
  <1>2. CASE Answer(r, 500)
    BY <1>1, <1>2, AnswerLease DEF Codes
  <1>3. CASE /\ todo' = [todo EXCEPT ![r] = {d.key : d \in DevicesOf(job[r].user)}]
             /\ Goto(r, IF DevicesOf(job[r].user) = {} THEN "delete" ELSE "remove")
             /\ UNCHANGED job
    <2>1. /\ OthersKeep(r) /\ job' = job
          /\ pc'[r] = IF DevicesOf(job[r].user) = {} THEN "delete" ELSE "remove"
          /\ todo'[r] = {d.key : d \in DevicesOf(job[r].user)}
      BY <1>3 DEF Goto, Typed, TypeOK, OthersKeep
    <2>2. Apart'
      BY <1>1, <2>1 DEF Apart, CreateBesideReset, TwoResets, CreateSteps, ResetSteps, OthersKeep
    <2>3. RowsUnique' /\ UnleasedIsCrossed'
      BY <1>1 DEF RowsUnique, UnleasedIsCrossed, Serves
    <2>4. SyncHasRow' /\ ResetOwnKeys'
      BY <1>1, <2>1 DEF InOrder, SyncHasRow, ResetOwnKeys, DevicesOf, OthersKeep
    <2>5. \A d \in devices : d.user = job[r].user => d.key \in todo'[r]
      BY <2>1 DEF DevicesOf
    <2>6. pc'[r] = "delete" => todo'[r] = {}
      BY <2>1
    <2>7. ResetCovers'
      BY <1>1, <2>1, <2>5, <2>6 DEF InOrder, ResetCovers, OthersKeep
    <2>8. QED
      BY <2>2, <2>3, <2>4, <2>7 DEF InOrder
  <1>4. QED
    BY <1>2, <1>3 DEF DevicesForUser

LEMMA RemoveLease ==
    ASSUME LeaseInv, Typed', NEW r \in Requests, RemovePeer(r), UNCHANGED crossed
    PROVE  LeaseInv'
  <1> USE DEF LeaseInv
  <1>1. UNCHANGED <<devices, crossed>> /\ pc[r] = "remove"
    BY DEF RemovePeer
  <1>2. CASE Answer(r, 503) /\ UNCHANGED peers
    BY <1>1, <1>2, AnswerLease DEF Codes
  <1>3. ASSUME NEW k \in todo[r], peers' = [peers EXCEPT ![k] = None],
               todo' = [todo EXCEPT ![r] = @ \ {k}],
               Goto(r, IF todo[r] = {k} THEN "delete" ELSE "remove"), UNCHANGED job
        PROVE  LeaseInv'
    <2>1. /\ OthersKeep(r) /\ job' = job
          /\ pc'[r] = IF todo[r] = {k} THEN "delete" ELSE "remove"
          /\ todo'[r] = todo[r] \ {k}
      BY <1>3 DEF Goto, Typed, TypeOK, OthersKeep
    <2>2. k \in Keys /\ None \notin Addresses
      BY AddressFacts DEF Typed, TypeOK
    <2>3. \A l \in Keys : peers'[l] = IF l = k THEN None ELSE peers[l]
      BY <1>3, <2>2 DEF Typed, TypeOK
    <2>4. Apart'
      BY <1>1, <2>1 DEF Apart, CreateBesideReset, TwoResets, CreateSteps, ResetSteps, OthersKeep
    <2>5. RowsUnique' /\ UnleasedIsCrossed'
      BY <1>1, <2>2, <2>3 DEF RowsUnique, UnleasedIsCrossed, Serves
    <2>6. SyncHasRow' /\ ResetOwnKeys'
      BY <1>1, <2>1 DEF InOrder, SyncHasRow, ResetOwnKeys, OthersKeep
    <2>7. \A d \in devices : d.key \in Keys
      BY DEF Typed, TypeOK, Row
    <2>8. pc'[r] = "delete" => todo'[r] = {}
      BY <2>1
    <2>9. ResetCovers'
      BY <1>1, <2>1, <2>2, <2>3, <2>7, <2>8 DEF InOrder, ResetCovers, OthersKeep
    <2>10. QED
      BY <2>4, <2>5, <2>6, <2>9 DEF InOrder
  <1>4. QED
    BY <1>2, <1>3 DEF RemovePeer

LEMMA DeleteLease ==
    ASSUME LeaseInv, Typed', NEW r \in Requests, ResetDevices(r), UNCHANGED crossed
    PROVE  LeaseInv'
  <1> USE DEF LeaseInv
  <1>1. UNCHANGED <<peers, crossed>> /\ pc[r] = "delete"
    BY DEF ResetDevices
  <1>2. CASE UNCHANGED devices
    BY <1>1, <1>2, AnswerLease DEF ResetDevices, Codes
  <1>3. CASE devices' = devices \ DevicesOf(job[r].user)
    <2>1. \A d : d \in devices' <=> d \in devices /\ d.user # job[r].user
      BY <1>3 DEF DevicesOf
    <2>2. OthersKeep(r) /\ pc'[r] = "idle"
      BY DEF ResetDevices, Answer, Typed, TypeOK, OthersKeep
    <2>3. \A d \in devices : d.user = job[r].user => d.key \in crossed \/ peers[d.key] \notin Addresses
      BY <1>1 DEF InOrder, ResetCovers
    <2>4. UnleasedIsCrossed'
      BY <1>1, <2>1, <2>3 DEF UnleasedIsCrossed, Serves
    <2>5. RowsUnique' /\ Apart'
      BY <1>1, <2>1, <2>2 DEF RowsUnique, Apart, CreateBesideReset, TwoResets, CreateSteps,
         ResetSteps, OthersKeep
    <2>6. SyncHasRow'
      <3>1. \A q \in Requests : pc[q] = "sync" /\ job[q].user = job[r].user => job[q].key \in crossed
        BY <1>1 DEF Apart, CreateBesideReset, CreateSteps, ResetSteps
      <3>2. QED
        BY <1>1, <2>1, <2>2, <3>1 DEF InOrder, SyncHasRow, OthersKeep
    <2>7. ResetOwnKeys'
      <3>1. \A q \in Requests : q # r /\ pc[q] = "remove" /\ job[q].user = job[r].user =>
                \A d \in devices : d.user = job[r].user => d.key \in crossed
        BY <1>1 DEF Apart, TwoResets, ResetSteps
      <3>2. QED
        BY <1>1, <2>1, <2>2, <3>1 DEF InOrder, ResetOwnKeys, OthersKeep
    <2>8. ResetCovers'
      BY <1>1, <2>1, <2>2 DEF InOrder, ResetCovers, OthersKeep
    <2>9. QED
      BY <2>4, <2>5, <2>6, <2>7, <2>8 DEF InOrder
  <1>4. QED
    BY <1>2, <1>3 DEF ResetDevices

LEMMA StepLease ==
    ASSUME LeaseInv, [Next]_vars
    PROVE  LeaseInv'
  <1>0. Typed'
    BY StepTyped DEF LeaseInv
  <1>1. ASSUME NEW r \in Requests, NEW u \in Users, NEW n \in Names, NEW k \in Keys,
               PostDevice(r, u, n, k), CreateCrosses(u, k)
        PROVE  LeaseInv'
    <2> DEFINE j == [user |-> u, name |-> n, key |-> k, ip |-> None]
    <2>1. j \in Job /\ j.user = u /\ j.key = k /\ Arrive(r, u, j, "create")
      BY <1>1 DEF PostDevice, Job
    <2>2. crossed \subseteq crossed' /\ (u \in Resetting => k \in crossed')
      BY <1>1 DEF CreateCrosses
    <2> HIDE DEF j
    <2>3. QED
      BY <1>0, <2>1, <2>2, ArriveLease
  <1>2. ASSUME NEW r \in Requests, NEW u \in Users, PostReset(r, u), ResetCrosses(u)
        PROVE  LeaseInv'
    <2> DEFINE j == [NoJob EXCEPT !.user = u]
    <2>1. j \in Job /\ j.user = u /\ Arrive(r, u, j, "list")
      BY <1>2 DEF PostReset, Job, NoJob
    <2>2. /\ crossed \subseteq crossed'
          /\ \A k \in Keys : <<u, k>> \in Creating => k \in crossed'
          /\ u \in Resetting => \A d \in DevicesOf(u) : d.key \in crossed'
      BY <1>2 DEF ResetCrosses
    <2> HIDE DEF j
    <2>3. QED
      BY <1>0, <2>1, <2>2, ArriveLease
  <1>3. CASE \E r \in Requests : Handle(r) /\ UNCHANGED crossed
    BY <1>0, <1>3, CreateLease, UpsertLease, ListLease, RemoveLease, DeleteLease DEF Handle
  <1>4. CASE Crash /\ UNCHANGED crossed
    BY <1>0, <1>4 DEF Crash, LeaseInv, RowsUnique, Apart, CreateBesideReset, TwoResets,
       CreateSteps, ResetSteps, InOrder, SyncHasRow, ResetOwnKeys, ResetCovers,
       UnleasedIsCrossed, Serves
  <1>5. CASE PeersLost /\ UNCHANGED crossed
    <2>1. None \notin Addresses /\ \A d \in devices : d.key \in Keys
      BY AddressFacts DEF LeaseInv, Typed, TypeOK, Row
    <2>2. QED
      BY <1>0, <1>5, <2>1 DEF PeersLost, LeaseInv, RowsUnique, Apart, CreateBesideReset,
         TwoResets, InOrder, SyncHasRow, ResetOwnKeys, ResetCovers, UnleasedIsCrossed, Serves
  <1>6. CASE UNCHANGED vars
    BY <1>0, <1>6 DEF vars, LeaseInv, RowsUnique, Apart, CreateBesideReset, TwoResets,
       InOrder, SyncHasRow, ResetOwnKeys, ResetCovers, UnleasedIsCrossed, Serves
  <1>7. QED
    BY <1>1, <1>2, <1>3, <1>4, <1>5, <1>6 DEF Next

LEMMA LeaseInvariance == Spec => []LeaseInv
  <1>1. None \notin Addresses
    BY AddressFacts
  <1>2. Init => LeaseInv
    <2>1. Init => Typed
      BY ApiAssumption DEF ApiAssumption, Init, Typed, TypeOK, JobOK, Job, NoJob, Steps, Codes
    <2>2. QED
      BY <1>1, <2>1 DEF Init, LeaseInv, RowsUnique, Apart, CreateBesideReset, TwoResets,
         CreateSteps, ResetSteps, InOrder, SyncHasRow, ResetOwnKeys, ResetCovers,
         UnleasedIsCrossed, Serves
  <1>3. LeaseInv /\ [Next]_vars => LeaseInv'
    BY StepLease
  <1>4. QED
    BY <1>2, <1>3, PTL DEF Spec

\* Under any failures and any interleaving of requests, of one user or of several,
\* the kernel has a peer under an address that the database does not lease to it
\* only for a key whose create has crossed a reset of its own user.
THEOREM PeersAreLeased == Spec => []UnleasedIsCrossed
  <1>1. LeaseInv => UnleasedIsCrossed
    BY DEF LeaseInv
  <1>2. QED
    BY <1>1, LeaseInvariance, PTL

-----------------------------------------------------------------------------
(* What a step may do to a lease that is served.                           *)

CreatedStep ==
    \A r \in Requests :
        answer[r] # 201 /\ answer'[r] = 201 =>
            /\ peers'[job[r].key] = job[r].ip
            /\ \/ job[r].key \in crossed
               \/ \E d \in devices' : d.key = job[r].key /\ d.ip = job[r].ip

LEMMA StepCreated ==
    ASSUME LeaseInv, [Next]_vars
    PROVE  CreatedStep
  <1> USE DEF LeaseInv
  <1>1. ASSUME NEW r \in Requests, UpsertPeer(r)
        PROVE  CreatedStep
    <2>1. \A q \in Requests : q # r => answer'[q] = answer[q]
      BY <1>1 DEF UpsertPeer, Answer, Typed, TypeOK
    <2>2. CASE peers' = WithPeer(job[r].key, job[r].ip)
      <3>1. \/ job[r].key \in crossed
            \/ \E d \in devices' : d.key = job[r].key /\ d.ip = job[r].ip
        BY <1>1 DEF InOrder, SyncHasRow, UpsertPeer
      <3>2. peers'[job[r].key] = job[r].ip
        BY <1>1, <2>2 DEF WithPeer, UpsertPeer, Typed, JobOK
      <3>3. QED
        BY <2>1, <3>1, <3>2 DEF CreatedStep
    <2>3. CASE Answer(r, 503)
      BY <2>1, <2>3 DEF CreatedStep, Answer, Typed, TypeOK
    <2>4. QED
      BY <1>1, <2>2, <2>3 DEF UpsertPeer
  <1>2. ASSUME NEW r \in Requests, NEW code \in {200, 400, 409, 500, 503}, Answer(r, code)
        PROVE  CreatedStep
    BY <1>2 DEF CreatedStep, Answer, Typed, TypeOK
  <1>3. ASSUME UNCHANGED answer
        PROVE  CreatedStep
    BY <1>3 DEF CreatedStep
  <1>4. ASSUME NEW r \in Requests,
               CreateOrGetDevice(r) \/ DevicesForUser(r) \/ RemovePeer(r) \/ ResetDevices(r)
        PROVE  CreatedStep
    <2>1. UNCHANGED answer \/ \E code \in {200, 400, 409, 500, 503} : Answer(r, code)
      BY <1>4 DEF CreateOrGetDevice, DevicesForUser, RemovePeer, ResetDevices, Goto
    <2>2. QED
      BY <1>2, <1>3, <2>1
  <1>5. ASSUME NEW r \in Requests, NEW u \in Users,
               PostReset(r, u) \/ \E n \in Names, k \in Keys : PostDevice(r, u, n, k)
        PROVE  CreatedStep
    BY <1>5 DEF CreatedStep, PostReset, PostDevice, Arrive, Typed, TypeOK
  <1>6. CASE Crash \/ PeersLost \/ UNCHANGED vars
    BY <1>3, <1>6 DEF Crash, PeersLost, vars
  <1>7. CASE \E r \in Requests : Handle(r)
    BY <1>1, <1>4, <1>7 DEF Handle
  <1>8. QED
    BY <1>5, <1>6, <1>7 DEF Next

\* An answer of 201 is given only with the peer in place, and with its row unless
\* the create has crossed a reset of its user.
THEOREM CreatesAreServed == Spec => CreatedIsServed
  <1>1. LeaseInv /\ [Next]_vars => [CreatedStep]_vars
    BY StepCreated
  <1>2. QED
    BY <1>1, LeaseInvariance, PTL DEF Spec, CreatedIsServed, CreatedStep

ServedStep ==
    \A d \in devices :
        peers[d.key] = d.ip /\ peers'[d.key] # d.ip =>
            \/ \E r \in Requests : pc[r] = "remove" /\ job[r].user = d.user
            \/ \A k \in Keys : peers'[k] = None
            \/ d.key \in crossed
            \/ \E r \in Requests :
                  pc[r] = "sync" /\ job[r].ip = d.ip /\ job[r].key \in crossed

LEMMA StepServed ==
    ASSUME LeaseInv, [Next]_vars
    PROVE  ServedStep
  <1> USE DEF LeaseInv
  <1>1. ASSUME NEW r \in Requests, UpsertPeer(r)
        PROVE  ServedStep
    <2>1. CASE peers' = peers
      BY <2>1 DEF ServedStep
    <2>2. ASSUME peers' = WithPeer(job[r].key, job[r].ip),
                 NEW d \in devices, peers[d.key] = d.ip, peers'[d.key] # d.ip
          PROVE  job[r].key \in crossed /\ (d.key = job[r].key \/ d.ip = job[r].ip)
      <3>1. d.key \in Keys /\ peers'[d.key] = IF d.key = job[r].key THEN job[r].ip
                ELSE IF peers[d.key] = job[r].ip THEN NoAddress ELSE peers[d.key]
        BY <2>2 DEF WithPeer, Typed, TypeOK, Row
      <3>2. d.key = job[r].key \/ d.ip = job[r].ip
        BY <2>2, <3>1
      <3>3. ASSUME NEW e \in devices, e.key = job[r].key, e.ip = job[r].ip
            PROVE  FALSE
        BY <2>2, <3>1, <3>2, <3>3 DEF RowsUnique
      <3>4. QED
        BY <1>1, <3>2, <3>3 DEF InOrder, SyncHasRow, UpsertPeer
    <2>3. QED
      BY <1>1, <2>1, <2>2 DEF UpsertPeer, ServedStep
  <1>2. ASSUME NEW r \in Requests, RemovePeer(r)
        PROVE  ServedStep
    <2>1. CASE peers' = peers
      BY <2>1 DEF ServedStep
    <2>2. ASSUME NEW k \in todo[r], peers' = [peers EXCEPT ![k] = None],
                 NEW d \in devices, peers[d.key] = d.ip, peers'[d.key] # d.ip
          PROVE  d.key \in crossed \/ (pc[r] = "remove" /\ job[r].user = d.user)
      <3>1. pc[r] = "remove"
        BY <1>2 DEF RemovePeer
      <3>2. d.key = k
        BY <2>2 DEF Typed, TypeOK, Row
      <3>3. k \in crossed \/ \E e \in devices : e.user = job[r].user /\ e.key = k
        BY <3>1 DEF InOrder, ResetOwnKeys
      <3>4. QED
        BY <3>1, <3>2, <3>3 DEF RowsUnique
    <2>3. QED
      BY <1>2, <2>1, <2>2 DEF ServedStep, RemovePeer
  <1>3. CASE UNCHANGED peers
    BY <1>3 DEF ServedStep
  <1>4. CASE PeersLost
    BY <1>4 DEF ServedStep, PeersLost
  <1>5. QED
    BY <1>1, <1>2, <1>3, <1>4 DEF Next, Handle, PostDevice, PostReset, Arrive, CreateOrGetDevice,
       DevicesForUser, ResetDevices, Crash, vars

\* Only its own user, the loss of the whole interface, or a key that has crossed a
\* reset cuts a device off, however the requests of all users interleave.
THEOREM ServedUntilReset == Spec => ServedUntilOwnReset
  <1>1. LeaseInv /\ [Next]_vars => [ServedStep]_vars
    BY StepServed
  <1>2. QED
    BY <1>1, LeaseInvariance, PTL DEF Spec, ServedUntilOwnReset, ServedStep

==============================================================================
