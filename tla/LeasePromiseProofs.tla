-------------------------- MODULE LeasePromiseProofs --------------------------
(***************************************************************************)
(* ControlApi implements LeasePromise, for any sets of users, keys and     *)
(* concurrent requests, however they overlap, any subnet and any failures. *)
(***************************************************************************)
EXTENDS ControlApiProofs

\* What the promise sees of the peers.
ServedPairs == {<<k, peers[k]>> : k \in {l \in Keys : peers[l] \in Addresses}}

Simulates == [Promise!Next]_(Promise!vars)

-----------------------------------------------------------------------------
(* The steps of the promise, on what it sees.                              *)

LEMMA StutterStep ==
    ASSUME UNCHANGED <<devices, ServedPairs, Creating, Resetting, crossed>>
    PROVE  Simulates
  BY DEF Simulates, Promise!vars, ServedPairs

LEMMA AskStep ==
    ASSUME NEW u \in Users, NEW k \in Keys, Creating' = Creating \cup {<<u, k>>},
           CreateCrosses(u, k), UNCHANGED <<devices, ServedPairs, Resetting>>
    PROVE  Simulates
  BY DEF Simulates, Promise!Next, Promise!AskFor, CreateCrosses, ServedPairs

LEMMA GrantStep ==
    ASSUME NEW l \in Row, devices' = devices \cup {l}, <<l.user, l.key>> \in Creating,
           \A m \in devices : l.key # m.key /\ l.ip # m.ip /\ ~(l.user = m.user /\ l.name = m.name),
           UNCHANGED <<ServedPairs, Creating, Resetting, crossed>>
    PROVE  Simulates
  BY DEF Simulates, Promise!Next, Promise!Grant, Promise!Conflict, ServedPairs

LEMMA ServeStep ==
    ASSUME NEW l \in Row, <<l.user, l.key>> \in Creating, l \in devices \/ l.key \in crossed,
           ServedPairs' = {p \in ServedPairs : p[1] # l.key /\ p[2] # l.ip} \cup {<<l.key, l.ip>>},
           Creating' \in {Creating, Creating \ {<<l.user, l.key>>}},
           UNCHANGED <<devices, Resetting, crossed>>
    PROVE  Simulates
  BY DEF Simulates, Promise!Next, Promise!Serve, Promise!CreateEnds, Promise!Peer, ServedPairs

LEMMA AbandonCreateStep ==
    ASSUME NEW u \in Users, NEW k \in Keys, <<u, k>> \in Creating,
           Creating' \in {Creating, Creating \ {<<u, k>>}},
           UNCHANGED <<devices, ServedPairs, Resetting, crossed>>
    PROVE  Simulates
  BY DEF Simulates, Promise!Next, Promise!AbandonCreate, Promise!CreateEnds, ServedPairs

LEMMA BeginStep ==
    ASSUME NEW u \in Users, Resetting' = Resetting \cup {u}, ResetCrosses(u),
           UNCHANGED <<devices, ServedPairs, Creating>>
    PROVE  Simulates
  BY DEF Simulates, Promise!Next, Promise!BeginReset, Promise!LeasesOf, ResetCrosses, DevicesOf,
     ServedPairs

LEMMA WithdrawStep ==
    ASSUME NEW u \in Users, NEW k \in Keys, u \in Resetting,
           k \in crossed \/ \E l \in devices : l.user = u /\ l.key = k,
           ServedPairs' = {p \in ServedPairs : p[1] # k},
           UNCHANGED <<devices, Creating, Resetting, crossed>>
    PROVE  Simulates
  BY DEF Simulates, Promise!Next, Promise!Withdraw, Promise!LeasesOf, ServedPairs

LEMMA RevokeStep ==
    ASSUME NEW u \in Users, u \in Resetting, Resetting' \in {Resetting, Resetting \ {u}},
           \A l \in devices :
               l.user = u => <<l.key, l.ip>> \notin ServedPairs \/ l.key \in crossed,
           devices' = devices \ DevicesOf(u), UNCHANGED <<ServedPairs, Creating, crossed>>
    PROVE  Simulates
  BY DEF Simulates, Promise!Next, Promise!Revoke, Promise!ResetEnds, Promise!LeasesOf,
     Promise!Peer, DevicesOf, ServedPairs

LEMMA AbandonResetStep ==
    ASSUME NEW u \in Users, u \in Resetting, Resetting' \in {Resetting, Resetting \ {u}},
           UNCHANGED <<devices, ServedPairs, Creating, crossed>>
    PROVE  Simulates
  BY DEF Simulates, Promise!Next, Promise!AbandonReset, Promise!ResetEnds, ServedPairs

LEMMA StopStep ==
    ASSUME Creating' = {}, Resetting' = {}, UNCHANGED <<devices, ServedPairs, crossed>>
    PROVE  Simulates
  BY DEF Simulates, Promise!Next, Promise!Stop, ServedPairs

LEMMA OutageStep ==
    ASSUME ServedPairs' = {}, UNCHANGED <<devices, Creating, Resetting, crossed>>
    PROVE  Simulates
  BY DEF Simulates, Promise!Next, Promise!Outage, ServedPairs

-----------------------------------------------------------------------------
(* What a step of one request changes of it.                               *)

LEMMA SamePairs == peers' = peers => ServedPairs' = ServedPairs
  BY DEF ServedPairs

LEMMA CreatingHas ==
    \A c : c \in Creating <=>
        \E q \in Requests : pc[q] \in CreateSteps /\ c = <<job[q].user, job[q].key>>
  BY DEF Creating, CreateSteps

LEMMA ResettingHas ==
    \A u : u \in Resetting <=> \E q \in Requests : pc[q] \in ResetSteps /\ u = job[q].user
  BY DEF Resetting, ResetSteps

LEMMA CreatingWillHave ==
    \A c : c \in Creating' <=>
        \E q \in Requests : pc'[q] \in CreateSteps /\ c = <<job'[q].user, job'[q].key>>
  BY DEF Creating, CreateSteps

LEMMA ResettingWillHave ==
    \A u : u \in Resetting' <=> \E q \in Requests : pc'[q] \in ResetSteps /\ u = job'[q].user
  BY DEF Resetting, ResetSteps

Others(r) == \A q \in Requests : q # r => pc'[q] = pc[q] /\ job'[q] = job[q]

\* The request takes no part in the creates, before and after.
LEMMA NotCreating ==
    ASSUME NEW r \in Requests, Others(r), pc[r] \notin CreateSteps, pc'[r] \notin CreateSteps
    PROVE  Creating' = Creating
  <1>1. \A c : c \in Creating' <=> c \in Creating
    BY CreatingHas, CreatingWillHave DEF Others
  <1>2. QED
    BY <1>1 DEF Creating

LEMMA NotResetting ==
    ASSUME NEW r \in Requests, Others(r), pc[r] \notin ResetSteps, pc'[r] \notin ResetSteps
    PROVE  Resetting' = Resetting
  <1>1. \A u : u \in Resetting' <=> u \in Resetting
    BY ResettingHas, ResettingWillHave DEF Others
  <1>2. QED
    BY <1>1 DEF Resetting

\* It stays a create, or a reset.
LEMMA StaysCreating ==
    ASSUME NEW r \in Requests, Others(r), pc[r] \in CreateSteps, pc'[r] \in CreateSteps,
           job'[r].user = job[r].user, job'[r].key = job[r].key
    PROVE  Creating' = Creating /\ Resetting' = Resetting
  <1>1. \A c : c \in Creating' <=> c \in Creating
    BY CreatingHas, CreatingWillHave DEF Others
  <1>2. Resetting' = Resetting
    BY NotResetting DEF CreateSteps, ResetSteps
  <1>3. QED
    BY <1>1, <1>2 DEF Creating

LEMMA StaysResetting ==
    ASSUME NEW r \in Requests, Others(r), pc[r] \in ResetSteps, pc'[r] \in ResetSteps,
           job'[r].user = job[r].user
    PROVE  Creating' = Creating /\ Resetting' = Resetting
  <1>1. \A u : u \in Resetting' <=> u \in Resetting
    BY ResettingHas, ResettingWillHave DEF Others
  <1>2. Creating' = Creating
    BY NotCreating DEF CreateSteps, ResetSteps
  <1>3. QED
    BY <1>1, <1>2 DEF Resetting

\* It ends; another one for the same may go on.
LEMMA LeavesCreating ==
    ASSUME Typed, NEW r \in Requests, Others(r), pc[r] \in CreateSteps, pc'[r] = "idle"
    PROVE  /\ job[r].user \in Users /\ job[r].key \in Keys
           /\ <<job[r].user, job[r].key>> \in Creating
           /\ Creating' \in {Creating, Creating \ {<<job[r].user, job[r].key>>}}
           /\ Resetting' = Resetting
  <1> DEFINE own == <<job[r].user, job[r].key>>
  <1>1. job[r].user \in Users /\ job[r].key \in Keys /\ own \in Creating
    BY CreatingHas DEF Typed, JobOK, CreateSteps
  <1>2. \A c : c # own => (c \in Creating' <=> c \in Creating)
    BY CreatingHas, CreatingWillHave DEF Others, CreateSteps
  <1>3. Resetting' = Resetting
    BY NotResetting DEF CreateSteps, ResetSteps
  <1> HIDE DEF own
  <1>4. CASE own \in Creating'
    <2>1. Creating' = Creating
      BY <1>1, <1>2, <1>4 DEF Creating
    <2>2. QED
      BY <1>1, <1>3, <2>1 DEF own
  <1>5. CASE own \notin Creating'
    <2>1. Creating' = Creating \ {own}
      BY <1>1, <1>2, <1>5 DEF Creating
    <2>2. QED
      BY <1>1, <1>3, <2>1 DEF own
  <1>6. QED
    BY <1>4, <1>5

LEMMA LeavesResetting ==
    ASSUME Typed, NEW r \in Requests, Others(r), pc[r] \in ResetSteps, pc'[r] = "idle"
    PROVE  /\ job[r].user \in Users /\ job[r].user \in Resetting
           /\ Resetting' \in {Resetting, Resetting \ {job[r].user}}
           /\ Creating' = Creating
  <1> DEFINE own == job[r].user
  <1>1. own \in Users /\ own \in Resetting
    BY ResettingHas DEF Typed, JobOK, ResetSteps
  <1>2. \A u : u # own => (u \in Resetting' <=> u \in Resetting)
    BY ResettingHas, ResettingWillHave DEF Others, ResetSteps
  <1>3. Creating' = Creating
    BY NotCreating DEF CreateSteps, ResetSteps
  <1> HIDE DEF own
  <1>4. CASE own \in Resetting'
    <2>1. Resetting' = Resetting
      BY <1>1, <1>2, <1>4 DEF Resetting
    <2>2. QED
      BY <1>1, <1>3, <2>1 DEF own
  <1>5. CASE own \notin Resetting'
    <2>1. Resetting' = Resetting \ {own}
      BY <1>1, <1>2, <1>5 DEF Resetting
    <2>2. QED
      BY <1>1, <1>3, <2>1 DEF own
  <1>6. QED
    BY <1>4, <1>5

LEMMA AnswerOthers ==
    ASSUME Typed, NEW r \in Requests, NEW code, Answer(r, code)
    PROVE  Others(r) /\ pc'[r] = "idle"
  BY DEF Typed, TypeOK, Answer, Others

\* A create or a reset that ends without a change is abandoned.
LEMMA EndSimulates ==
    ASSUME Typed, NEW r \in Requests, NEW code, Answer(r, code), pc[r] # "idle",
           UNCHANGED <<devices, peers, crossed>>
    PROVE  Simulates
  <1>1. Others(r) /\ pc'[r] = "idle" /\ ServedPairs' = ServedPairs
    BY AnswerOthers, SamePairs
  <1>2. CASE pc[r] \in CreateSteps
    BY <1>1, <1>2, LeavesCreating, AbandonCreateStep
  <1>3. CASE pc[r] \in ResetSteps
    BY <1>1, <1>3, LeavesResetting, AbandonResetStep
  <1>4. QED
    BY <1>2, <1>3 DEF Typed, TypeOK, Steps, CreateSteps, ResetSteps

-----------------------------------------------------------------------------
(* The steps of the API.                                                   *)

LEMMA CreateSimulates ==
    ASSUME Typed, NEW r \in Requests, CreateOrGetDevice(r), UNCHANGED crossed
    PROVE  Simulates
  <1>1. pc[r] = "create" /\ peers' = peers /\ ServedPairs' = ServedPairs
    BY SamePairs DEF CreateOrGetDevice
  <1>2. CASE \E code \in Codes : Answer(r, code) /\ UNCHANGED devices
    BY <1>1, <1>2, EndSimulates
  <1>3. ASSUME NEW ip, job' = [job EXCEPT ![r].ip = ip], Goto(r, "sync")
        PROVE  Creating' = Creating /\ Resetting' = Resetting
    <2>1. /\ Others(r) /\ pc'[r] = "sync"
          /\ job'[r].user = job[r].user /\ job'[r].key = job[r].key
      BY <1>1, <1>3 DEF Typed, TypeOK, Job, Goto, Others
    <2>2. QED
      BY <1>1, <2>1, StaysCreating DEF CreateSteps
  <1>4. CASE \E d \in ByKey(job[r].key) :
                 /\ job' = [job EXCEPT ![r].ip = d.ip]
                 /\ Goto(r, "sync") /\ UNCHANGED devices
    BY <1>1, <1>3, <1>4, StutterStep
  <1>5. CASE /\ ByKey(job[r].key) = {}
             /\ \A d \in DevicesOf(job[r].user) : d.name # job[r].name
             /\ \E ip \in Addresses \ UsedIPs :
                    /\ devices' = devices \cup {[job[r] EXCEPT !.ip = ip]}
                    /\ job' = [job EXCEPT ![r].ip = ip]
             /\ Goto(r, "sync")
    <2>1. PICK ip \in Addresses : /\ devices' = devices \cup {[job[r] EXCEPT !.ip = ip]}
                                  /\ job' = [job EXCEPT ![r].ip = ip]
                                  /\ \A d \in devices : d.ip # ip
      BY <1>5, AddressFacts
    <2> DEFINE l == [job[r] EXCEPT !.ip = ip]
    <2>2. /\ l \in Row /\ l.user = job[r].user /\ l.name = job[r].name /\ l.key = job[r].key
          /\ l.ip = ip
      BY <1>1 DEF Typed, TypeOK, JobOK, Job, Row
    <2>3. \A m \in devices :
             l.key # m.key /\ l.ip # m.ip /\ ~(l.user = m.user /\ l.name = m.name)
      BY <1>5, <2>1, <2>2 DEF ByKey, DevicesOf
    <2>4. Creating' = Creating /\ Resetting' = Resetting
      BY <1>3, <1>5, <2>1
    <2>5. <<l.user, l.key>> \in Creating
      BY <1>1, <2>2, CreatingHas DEF CreateSteps
    <2> HIDE DEF l
    <2>6. devices' = devices \cup {l}
      BY <2>1 DEF l
    <2>7. QED
      BY <1>1, <2>2, <2>3, <2>4, <2>5, <2>6, GrantStep
  <1>6. QED
    BY <1>2, <1>4, <1>5 DEF CreateOrGetDevice, Codes

LEMMA UpsertSimulates ==
    ASSUME LeaseInv, NEW r \in Requests, UpsertPeer(r), UNCHANGED crossed
    PROVE  Simulates
  <1>1. Typed /\ pc[r] = "sync" /\ devices' = devices
    BY DEF LeaseInv, UpsertPeer
  <1>2. CASE peers' = peers
    BY <1>1, <1>2, EndSimulates DEF UpsertPeer
  <1>3. CASE peers' = WithPeer(job[r].key, job[r].ip) /\ Answer(r, 201)
    <2>1. \E l \in Row : /\ l.user = job[r].user /\ l.key = job[r].key /\ l.ip = job[r].ip
                         /\ l \in devices \/ l.key \in crossed
      <3>1. CASE job[r].key \in crossed
        <4> DEFINE l == [user |-> job[r].user, name |-> job[r].name, key |-> job[r].key,
                         ip |-> job[r].ip]
        <4>1. l \in Row
          BY <1>1 DEF Typed, JobOK, Row
        <4>2. QED
          BY <3>1, <4>1
      <3>2. CASE \E d \in devices : d.user = job[r].user /\ d.key = job[r].key /\ d.ip = job[r].ip
        BY <1>1, <3>2 DEF Typed, TypeOK
      <3>3. QED
        BY <1>1, <3>1, <3>2 DEF LeaseInv, InOrder, SyncHasRow
    <2>2. PICK l \in Row : /\ l.user = job[r].user /\ l.key = job[r].key /\ l.ip = job[r].ip
                           /\ l \in devices \/ l.key \in crossed
      BY <2>1
    <2>3. l.key \in Keys /\ l.ip \in Addresses /\ NoAddress \notin Addresses
      BY AddressFacts DEF Row
    <2>4. \A k \in Keys : peers'[k] = IF k = l.key THEN l.ip
                                      ELSE IF peers[k] = l.ip THEN NoAddress ELSE peers[k]
      BY <1>3, <2>2 DEF WithPeer
    <2>5. ServedPairs' = {p \in ServedPairs : p[1] # l.key /\ p[2] # l.ip} \cup {<<l.key, l.ip>>}
      <3>1. \A p : p \in ServedPairs' <=>
                \E k \in Keys : peers'[k] \in Addresses /\ p = <<k, peers'[k]>>
        BY DEF ServedPairs
      <3>2. \A p : p \in ServedPairs <=>
                \E k \in Keys : peers[k] \in Addresses /\ p = <<k, peers[k]>>
        BY DEF ServedPairs
      <3>3. \A p : p \in ServedPairs' <=>
                \/ p \in ServedPairs /\ p[1] # l.key /\ p[2] # l.ip
                \/ p = <<l.key, l.ip>>
        BY <2>3, <2>4, <3>1, <3>2
      <3>4. QED
        BY <3>3
    <2>6. /\ <<l.user, l.key>> \in Creating
          /\ Creating' \in {Creating, Creating \ {<<l.user, l.key>>}} /\ Resetting' = Resetting
      BY <1>1, <1>3, <2>2, AnswerOthers, LeavesCreating DEF CreateSteps
    <2>7. QED
      BY <1>1, <2>2, <2>5, <2>6, ServeStep
  <1>4. QED
    BY <1>2, <1>3 DEF UpsertPeer

LEMMA ListSimulates ==
    ASSUME Typed, NEW r \in Requests, DevicesForUser(r), UNCHANGED crossed
    PROVE  Simulates
  <1>1. pc[r] = "list" /\ UNCHANGED <<devices, peers>> /\ ServedPairs' = ServedPairs
    BY SamePairs DEF DevicesForUser
  <1>2. CASE Answer(r, 500)
    BY <1>1, <1>2, EndSimulates
  <1>3. CASE job' = job /\ \E s \in {"remove", "delete"} : Goto(r, s)
    <2>1. Others(r) /\ pc'[r] \in ResetSteps /\ job'[r] = job[r]
      BY <1>1, <1>3 DEF Typed, TypeOK, Goto, Others, ResetSteps
    <2>2. Creating' = Creating /\ Resetting' = Resetting
      BY <1>1, <2>1, StaysResetting DEF ResetSteps
    <2>3. QED
      BY <1>1, <2>2, StutterStep
  <1>4. QED
    BY <1>2, <1>3 DEF DevicesForUser

LEMMA RemoveSimulates ==
    ASSUME LeaseInv, NEW r \in Requests, RemovePeer(r), UNCHANGED crossed
    PROVE  Simulates
  <1>1. Typed /\ pc[r] = "remove" /\ devices' = devices
    BY DEF LeaseInv, RemovePeer
  <1>2. CASE Answer(r, 503) /\ peers' = peers
    BY <1>1, <1>2, EndSimulates
  <1>3. ASSUME NEW k \in todo[r], peers' = [peers EXCEPT ![k] = None], job' = job,
               NEW s \in {"remove", "delete"}, Goto(r, s)
        PROVE  Simulates
    <2>1. k \in crossed \/ \E l \in devices : l.user = job[r].user /\ l.key = k
      BY <1>1 DEF LeaseInv, InOrder, ResetOwnKeys
    <2>2. k \in Keys /\ None \notin Addresses
      BY <1>1, AddressFacts DEF Typed, TypeOK
    <2>3. \A m \in Keys : peers'[m] = IF m = k THEN None ELSE peers[m]
      BY <1>1, <1>3, <2>2 DEF Typed, TypeOK
    <2>4. ServedPairs' = {p \in ServedPairs : p[1] # k}
      BY <2>2, <2>3 DEF ServedPairs
    <2>5. Others(r) /\ pc'[r] \in ResetSteps /\ job'[r] = job[r]
      BY <1>1, <1>3 DEF Typed, TypeOK, Goto, Others, ResetSteps
    <2>6. Creating' = Creating /\ Resetting' = Resetting
      BY <1>1, <2>5, StaysResetting DEF ResetSteps
    <2>7. job[r].user \in Users /\ job[r].user \in Resetting
      BY <1>1, ResettingHas DEF Typed, JobOK, ResetSteps
    <2>8. QED
      BY <1>1, <2>1, <2>2, <2>4, <2>6, <2>7, WithdrawStep
  <1>4. QED
    BY <1>2, <1>3 DEF RemovePeer

LEMMA DeleteSimulates ==
    ASSUME LeaseInv, NEW r \in Requests, ResetDevices(r), UNCHANGED crossed
    PROVE  Simulates
  <1>1. /\ Typed /\ pc[r] = "delete" /\ peers' = peers /\ ServedPairs' = ServedPairs
        /\ pc[r] \in ResetSteps
    BY SamePairs DEF LeaseInv, ResetDevices, ResetSteps
  <1>2. CASE Answer(r, 500) /\ UNCHANGED devices
    BY <1>1, <1>2, EndSimulates
  <1>3. CASE devices' = devices \ DevicesOf(job[r].user) /\ Answer(r, 200)
    <2>1. \A l \in devices : l.user = job[r].user => l.key \in crossed \/ peers[l.key] \notin Addresses
      BY <1>1 DEF LeaseInv, InOrder, ResetCovers
    <2>2. \A l \in devices :
              l.user = job[r].user => <<l.key, l.ip>> \notin ServedPairs \/ l.key \in crossed
      BY <2>1 DEF ServedPairs
    <2>3. /\ job[r].user \in Users /\ job[r].user \in Resetting
          /\ Resetting' \in {Resetting, Resetting \ {job[r].user}} /\ Creating' = Creating
      BY <1>1, <1>3, AnswerOthers, LeavesResetting
    <2>4. QED
      BY <1>1, <1>3, <2>2, <2>3, RevokeStep
  <1>4. QED
    BY <1>2, <1>3 DEF ResetDevices

\* A create that arrives is asked for, a reset that arrives begins.
LEMMA PostSimulates ==
    ASSUME Typed, NEW r \in Requests, NEW u \in Users, NEW n \in Names, NEW k \in Keys,
           PostDevice(r, u, n, k), CreateCrosses(u, k)
    PROVE  Simulates
  <1>1. /\ pc[r] = "idle" /\ UNCHANGED <<devices, peers>> /\ ServedPairs' = ServedPairs
        /\ Others(r) /\ pc'[r] = "create" /\ job'[r].user = u /\ job'[r].key = k
    BY SamePairs DEF Typed, TypeOK, PostDevice, Arrive, Others
  <1>2. Resetting' = Resetting
    BY <1>1, NotResetting DEF ResetSteps
  <1>3. \A c : c \in Creating' <=> c \in Creating \/ c = <<u, k>>
    BY <1>1, CreatingHas, CreatingWillHave DEF Others, CreateSteps
  <1>4. Creating' = Creating \cup {<<u, k>>}
    BY <1>3
  <1>5. QED
    BY <1>1, <1>2, <1>4, AskStep

LEMMA PostResetSimulates ==
    ASSUME Typed, NEW r \in Requests, NEW u \in Users, PostReset(r, u), ResetCrosses(u)
    PROVE  Simulates
  <1>1. /\ pc[r] = "idle" /\ UNCHANGED <<devices, peers>> /\ ServedPairs' = ServedPairs
        /\ Others(r) /\ pc'[r] = "list" /\ job'[r].user = u
    BY SamePairs DEF Typed, TypeOK, PostReset, NoJob, Arrive, Others
  <1>2. Creating' = Creating
    BY <1>1, NotCreating DEF CreateSteps
  <1>3. \A v : v \in Resetting' <=> v \in Resetting \/ v = u
    BY <1>1, ResettingHas, ResettingWillHave DEF Others, ResetSteps
  <1>4. Resetting' = Resetting \cup {u}
    BY <1>3
  <1>5. QED
    BY <1>1, <1>2, <1>4, BeginStep

LEMMA StepSimulates ==
    ASSUME LeaseInv, [Next]_vars
    PROVE  Simulates
  <1> USE DEF LeaseInv
  <1>1. CASE \E r \in Requests, u \in Users, n \in Names, k \in Keys :
                 PostDevice(r, u, n, k) /\ CreateCrosses(u, k)
    BY <1>1, PostSimulates
  <1>2. CASE \E r \in Requests, u \in Users : PostReset(r, u) /\ ResetCrosses(u)
    BY <1>2, PostResetSimulates
  <1>3. CASE \E r \in Requests : Handle(r) /\ UNCHANGED crossed
    BY <1>3, CreateSimulates, UpsertSimulates, ListSimulates, RemoveSimulates, DeleteSimulates
       DEF Handle
  <1>4. CASE Crash /\ UNCHANGED crossed
    <2>1. Creating' = {} /\ Resetting' = {}
      BY <1>4 DEF Crash, Creating, Resetting
    <2>2. QED
      BY <1>4, <2>1, SamePairs, StopStep DEF Crash
  <1>5. CASE PeersLost /\ UNCHANGED crossed
    <2>1. ServedPairs' = {}
      BY <1>5, AddressFacts DEF PeersLost, ServedPairs
    <2>2. Creating' = Creating /\ Resetting' = Resetting /\ devices' = devices
      BY <1>5 DEF PeersLost, Creating, Resetting
    <2>3. QED
      BY <1>5, <2>1, <2>2, OutageStep
  <1>6. CASE UNCHANGED vars
    <2>1. Creating' = Creating /\ Resetting' = Resetting
      BY <1>6 DEF vars, Creating, Resetting
    <2>2. QED
      BY <1>6, <2>1, SamePairs, StutterStep DEF vars
  <1>7. QED
    BY <1>1, <1>2, <1>3, <1>4, <1>5, <1>6 DEF Next

\* Requests in any order, failures in the middle of them, a crash or an outage: to
\* the PCs it is the promise, in which a profile is asked for, granted, served and
\* revoked in one step each, and only a key that has crossed a reset of its own
\* user is served without a lease or loses one to somebody else.
THEOREM ApiKeepsPromise == Spec => KeepsPromise
  <1>1. Init => Promise!Init
    BY AddressFacts DEF Init, Promise!Init, Creating, Resetting
  <1>2. LeaseInv /\ [Next]_vars => [Promise!Next]_(Promise!vars)
    BY StepSimulates DEF Simulates
  <1>3. QED
    BY <1>1, <1>2, LeaseInvariance, PTL DEF Spec, KeepsPromise, Promise!Spec

==============================================================================
