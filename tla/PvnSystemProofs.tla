--------------------------- MODULE PvnSystemProofs ---------------------------
(***************************************************************************)
(* PvnSystem for any sets of PCs, accounts, keys and concurrent requests,  *)
(* any subnet and any number of failures.                                  *)
(***************************************************************************)
EXTENDS PvnSystem, TLAPS

Creating  == {"create", "sync"}
Resetting == {"list", "remove", "delete"}

\* A request that runs has a user, and a create has all it needs.
JobOK ==
    \A r \in Requests :
        /\ pc[r] # "idle" => job[r].user \in Users /\ answer[r] = 0
        /\ pc[r] \in Creating => job[r].name = Name /\ job[r].key \in Keys
        /\ pc[r] = "sync" => job[r].ip \in Addresses
        /\ pc[r] # "remove" => todo[r] = {}

Typed == TypeOK /\ Api!TypeOK /\ JobOK

-----------------------------------------------------------------------------
\* No two PCs have one key, and what the API has of a PC's key belongs to the
\* PC's account.
KeysOwned ==
    /\ \A p, q \in PCs : key[p] = key[q] /\ key[p] # None => p = q
    /\ \A p \in PCs :
          /\ \A d \in devices : d.key = key[p] => d.user = account[p]
          /\ \A r \in Requests : pc[r] \in Creating /\ job[r].key = key[p] => job[r].user = account[p]
          /\ \A r \in Requests : key[p] \in todo[r] => job[r].user = account[p]

\* UNIQUE(user_id, name), UNIQUE(client_public_key), UNIQUE(assigned_ip).
RowsUnique ==
    \A d, e \in devices : d.user = e.user \/ d.key = e.key \/ d.ip = e.ip => d = e

\* A request that a helper waits for is its own, and is the one it has sent.
AskedIsOwn ==
    \A p \in PCs : asked[p] # None =>
        /\ \A q \in PCs : asked[q] = asked[p] => q = p
        /\ pc[asked[p]] # "idle" =>
              /\ job[asked[p]].user = account[p]
              /\ \/ /\ step[p] \in {"fetch", "refetch"} /\ pc[asked[p]] \in Creating
                    /\ job[asked[p]].key = key[p]
                 \/ step[p] = "reset" /\ pc[asked[p]] \in Resetting

\* Two requests in flight are of two accounts.
Exclusive ==
    \A r, s \in Requests :
        pc[r] # "idle" /\ pc[s] # "idle" /\ job[r].user = job[s].user => r = s

\* The row that a create leased is still there when it comes to its peer.
SyncHasRow == \A r \in Requests : pc[r] = "sync" => job[r] \in devices

\* The PCs that lose their profile to a reset know, or are not on.
ResetEvicts ==
    \A r \in Requests : pc[r] \in Resetting =>
        \A p \in PCs : account[p] = job[r].user =>
            p \in evicted \/ step[p] \in {"off", "error"} \/ asked[p] = r

\* A PC has its profile from the 201 on.
HasProfile(p) ==
    \/ step[p] \in {"start", "on"}
    \/ step[p] \in {"fetch", "refetch"} /\ pc[asked[p]] = "idle" /\ answer[asked[p]] = 201

RowOf(p) == [user |-> account[p], name |-> Name, key |-> key[p], ip |-> config[p]]

ProfileHolds ==
    \A p \in PCs \ evicted : HasProfile(p) =>
        config[p] \in Addresses /\ RowOf(p) \in devices /\ peers[key[p]] = config[p]

Apart == KeysOwned /\ RowsUnique /\ AskedIsOwn
Calm  == Exclusive /\ SyncHasRow /\ ResetEvicts /\ ProfileHolds

SystemInv == Typed /\ Apart /\ (overlapped = "no" => Calm)

-----------------------------------------------------------------------------
(* Facts about the operators.                                              *)

LEMMA AddressFacts ==
    /\ Addresses \subseteq 2..253 /\ None \notin Addresses
    /\ \A ip \in Addresses \ Api!UsedIPs :
          ip \in Addresses /\ \A d \in devices : d.ip # ip
<1>1. Addresses \subseteq 2..253 /\ None \notin Addresses
  BY SystemAssumption DEF SystemAssumption
<1>2. ASSUME NEW ip \in Addresses \ Api!UsedIPs
      PROVE  ip \in Addresses /\ \A d \in devices : d.ip # ip
  BY <1>2 DEF Api!UsedIPs
<1> QED BY <1>1, <1>2

LEMMA UnusedFacts ==
  ASSUME Unused # {}
  PROVE  /\ (CHOOSE r \in Unused : TRUE) \in Requests
         /\ pc[CHOOSE r \in Unused : TRUE] = "idle"
         /\ \A p \in PCs : asked[p] # (CHOOSE r \in Unused : TRUE)
<1>1. (CHOOSE r \in Unused : TRUE) \in Unused
  OBVIOUS
<1> QED BY <1>1 DEF Unused

\* What a request is sent with: a key of this PC's own, and nobody else's.
OwnKey(p) ==
    /\ key' \in [PCs -> Keys \cup {None}] /\ key'[p] \in Keys
    /\ \A q \in PCs \ {p} : key'[q] = key[q]
    /\ key'[p] = key[p] \/ key'[p] \in Fresh

LEMMA NewKeyOwn ==
  ASSUME Typed, NEW p \in PCs, NewKey(p)
  PROVE  OwnKey(p)
<1>1. (CHOOSE k \in Fresh : TRUE) \in Fresh
  BY DEF NewKey
<1>2. Fresh \subseteq Keys
  BY DEF Fresh
<1> QED BY <1>1, <1>2 DEF NewKey, OwnKey, Typed, TypeOK

LEMMA OldKeyOwn ==
  ASSUME Typed, NEW p \in PCs, key' = key, key[p] # None
  PROVE  OwnKey(p)
BY DEF OwnKey, Typed, TypeOK

-----------------------------------------------------------------------------
(* Types.                                                                  *)

\* The requests of the API are typed, and what a failure does to the counter.
ApiLocal ==
    /\ pc \in [Requests -> Api!Steps] /\ job \in [Requests -> Api!Job]
    /\ todo \in [Requests -> SUBSET Keys] /\ answer \in [Requests -> Api!Codes]
    /\ JobOK

LEMMA FaultTyped ==
  ASSUME Typed,
         \/ NoFault \/ Api!NoFault
         \/ \E f \in {"database", "sync", "crash", "peersLost", "giveUp", "reset"} :
               Fault(f) \/ Api!Fault(f)
  PROVE  faults' \in 0..MaxFaults
BY SystemAssumption
   DEF SystemAssumption, Typed, Api!TypeOK, NoFault, Api!NoFault, Fault, Api!Fault

LEMMA AnswerTyped ==
  ASSUME Typed, NEW r \in Requests, NEW code \in Api!Codes, Api!Answer(r, code)
  PROVE  ApiLocal'
BY DEF Typed, Api!TypeOK, JobOK, ApiLocal, Api!Answer, Api!NoJob, Api!Job, Api!Steps, Creating

LEMMA CreateTyped ==
  ASSUME Typed, NEW r \in Requests, Api!CreateOrGetDevice(r)
  PROVE  Api!TypeOK' /\ JobOK'
<1> USE DEF Typed
<1>1. pc[r] = "create" /\ job[r].user \in Users /\ job[r].name = Name /\ job[r].key \in Keys
  BY DEF JobOK, Api!CreateOrGetDevice, Creating
<1>2. faults' \in 0..MaxFaults
  BY FaultTyped DEF Api!CreateOrGetDevice
<1>3. peers' \in [Keys -> Addresses \cup {None}]
  BY DEF Api!CreateOrGetDevice, Api!TypeOK
<1>4. ASSUME NEW ip \in Addresses, job' = [job EXCEPT ![r].ip = ip], Api!Goto(r, "sync"),
             UNCHANGED todo
      PROVE  ApiLocal'
  BY <1>1, <1>4, AddressFacts
     DEF ApiLocal, Api!TypeOK, JobOK, Api!Goto, Api!Job, Api!Steps, Creating
<1>5. CASE \E code \in {400, 409, 500} : Api!Answer(r, code) /\ UNCHANGED devices
  <2>1. ApiLocal' /\ devices' = devices
    BY <1>5, AnswerTyped DEF Api!Codes
  <2> QED BY <1>2, <1>3, <2>1 DEF Api!TypeOK, ApiLocal
<1>6. CASE \E d \in Api!ByKey(job[r].key) :
               /\ job' = [job EXCEPT ![r].ip = d.ip]
               /\ Api!Goto(r, "sync") /\ UNCHANGED <<devices, todo>>
  <2>1. devices' \subseteq Api!Row /\ \A d \in Api!ByKey(job[r].key) : d.ip \in Addresses
    BY <1>6 DEF Api!TypeOK, Api!ByKey, Api!Row
  <2>2. ApiLocal'
    BY <1>4, <1>6, <2>1
  <2> QED BY <1>2, <1>3, <2>1, <2>2 DEF Api!TypeOK, ApiLocal
<1>7. CASE \E ip \in Addresses \ Api!UsedIPs :
               /\ devices' = devices \cup {[job[r] EXCEPT !.ip = ip]}
               /\ job' = [job EXCEPT ![r].ip = ip]
               /\ Api!Goto(r, "sync") /\ UNCHANGED todo
  <2>1. PICK ip \in Addresses : /\ devices' = devices \cup {[job[r] EXCEPT !.ip = ip]}
                                    /\ job' = [job EXCEPT ![r].ip = ip]
                                    /\ Api!Goto(r, "sync") /\ UNCHANGED todo
    BY <1>7, AddressFacts
  <2>2. [job[r] EXCEPT !.ip = ip] \in Api!Row
    BY <1>1 DEF Api!TypeOK, Api!Row, Api!Job
  <2>3. ApiLocal'
    BY <1>4, <2>1
  <2> QED BY <1>2, <1>3, <2>1, <2>2, <2>3 DEF Api!TypeOK, ApiLocal
<1> QED BY <1>5, <1>6, <1>7 DEF Api!CreateOrGetDevice

LEMMA UpsertTyped ==
  ASSUME Typed, NEW r \in Requests, Api!UpsertPeer(r)
  PROVE  Api!TypeOK' /\ JobOK'
<1> USE DEF Typed
<1>1. faults' \in 0..MaxFaults
  BY FaultTyped DEF Api!UpsertPeer
<1>2. ApiLocal'
  BY AnswerTyped DEF Api!UpsertPeer, Api!Codes
<1>3. peers' \in [Keys -> Addresses \cup {None}] /\ devices' \subseteq Api!Row
  BY AddressFacts DEF Api!UpsertPeer, Api!WithPeer, Api!TypeOK, JobOK
<1> QED BY <1>1, <1>2, <1>3 DEF Api!TypeOK, ApiLocal

LEMMA ResetTyped ==
  ASSUME Typed, NEW r \in Requests,
         Api!DevicesForUser(r) \/ Api!RemovePeer(r) \/ Api!ResetDevices(r)
  PROVE  Api!TypeOK' /\ JobOK'
<1> USE DEF Typed
<1>1. faults' \in 0..MaxFaults
  BY FaultTyped DEF Api!DevicesForUser, Api!RemovePeer, Api!ResetDevices
<1>2. CASE \E code \in Api!Codes : Api!Answer(r, code)
  <2>1. ApiLocal'
    BY <1>2, AnswerTyped
  <2>2. peers' \in [Keys -> Addresses \cup {None}] /\ devices' \subseteq Api!Row
    BY DEF Api!DevicesForUser, Api!RemovePeer, Api!ResetDevices, Api!TypeOK
  <2> QED BY <1>1, <2>1, <2>2 DEF Api!TypeOK, ApiLocal
<1>3. CASE /\ todo' = [todo EXCEPT ![r] = {d.key : d \in Api!DevicesOf(job[r].user)}]
           /\ Api!Goto(r, IF Api!DevicesOf(job[r].user) = {} THEN "delete" ELSE "remove")
           /\ pc[r] = "list" /\ UNCHANGED <<job, devices, peers>>
  <2>1. {d.key : d \in Api!DevicesOf(job[r].user)} \subseteq Keys
    BY DEF Api!TypeOK, Api!DevicesOf, Api!Row
  <2> QED BY <1>1, <1>3, <2>1 DEF Api!TypeOK, JobOK, Api!Goto, Api!Steps, Creating
<1>4. CASE /\ \E k \in todo[r] : /\ peers' = [peers EXCEPT ![k] = None]
                                 /\ todo' = [todo EXCEPT ![r] = @ \ {k}]
                                 /\ Api!Goto(r, IF todo[r] = {k} THEN "delete" ELSE "remove")
           /\ pc[r] = "remove" /\ UNCHANGED <<job, devices>>
  BY <1>1, <1>4 DEF Api!TypeOK, JobOK, Api!Goto, Api!Steps, Creating
<1> QED BY <1>2, <1>3, <1>4 DEF Api!DevicesForUser, Api!RemovePeer, Api!ResetDevices, Api!Codes


\* A helper sends a request.
LEMMA AskTyped ==
  ASSUME Typed, NEW p \in PCs, NEW r \in Requests, NEW s \in Calling,
         PostDevice(p, r, s) \/ PostReset(p, r, s),
         OwnKey(p), UNCHANGED <<account, config>>
  PROVE  Typed'
<1>1. Ask(p, r, s) /\ (evicted' \subseteq PCs)
  BY DEF PostDevice, PostReset, Others, Typed, TypeOK
<1>2. TypeOK'
  BY <1>1, SystemAssumption DEF SystemAssumption, Ask, Goto, OwnKey, Typed, TypeOK, Steps, Calling
<1>3. account[p] \in Users /\ Name \in {Name} /\ key'[p] \in Keys
  BY DEF Typed, TypeOK, OwnKey
<1>4. CASE PostDevice(p, r, s)
  BY <1>2, <1>3, <1>4 DEF PostDevice, Api!PostDevice, Api!Arrive, Typed, Api!TypeOK, JobOK,
     Creating, Api!Job, Api!Steps, Api!Codes, Api!NoFault
<1>5. CASE PostReset(p, r, s)
  BY <1>2, <1>3, <1>5 DEF PostReset, Api!PostReset, Api!Arrive, Typed, Api!TypeOK, JobOK,
     Creating, Api!Job, Api!NoJob, Api!Steps, Api!Codes, Api!NoFault
<1> QED BY <1>4, <1>5

\* The request that a helper is at.
LEMMA AskedTyped ==
  ASSUME Typed, NEW p \in PCs, asked[p] # None
  PROVE  asked[p] \in Requests /\ step[p] \in Calling /\ key[p] \in Keys
BY DEF Typed, TypeOK

LEMMA TypedInit == Init => Typed
<1>1. Init => TypeOK
  BY SystemAssumption DEF SystemAssumption, Init, TypeOK, Steps, Calling
<1>2. Init => Api!TypeOK /\ JobOK
  BY SystemAssumption
     DEF SystemAssumption, Init, Api!Init, Api!TypeOK, JobOK, Creating, Api!Job, Api!NoJob,
         Api!Steps, Api!Codes
<1> QED BY <1>1, <1>2 DEF Typed

LEMMA TypedNext ==
  ASSUME Typed, [Next]_vars
  PROVE  Typed'
<1>1. ASSUME NEW p \in PCs, Connect(p)
      PROVE  Typed'
  <2>1. OwnKey(p)
    BY <1>1, NewKeyOwn, OldKeyOwn DEF Connect
  <2>2. PICK r \in Requests : PostDevice(p, r, "fetch")
    BY <1>1, UnusedFacts DEF Connect
  <2> QED BY <1>1, <2>1, <2>2, AskTyped DEF Connect, Calling
<1>2. ASSUME NEW p \in PCs, Receive(p)
      PROVE  Typed'
  <2>1. asked[p] \in Requests /\ step[p] \in Calling /\ key[p] \in Keys /\ key[p] # None
    BY <1>2, AskedTyped, SystemAssumption DEF Receive, SystemAssumption
  <2>2. CASE \E s \in {"start", "error"} : Return(p, s)
    BY <1>2, <2>1, <2>2
       DEF Receive, Return, Goto, NoFault, history, Typed, TypeOK, Api!TypeOK, JobOK, Api!Codes, Steps, Calling
  <2>3. CASE key' = key /\ PostReset(p, asked[p], "reset")
    BY <1>2, <2>1, <2>3, OldKeyOwn, AskTyped DEF Receive, Calling
  <2>4. CASE NewKey(p) /\ PostDevice(p, asked[p], "refetch")
    BY <1>2, <2>1, <2>4, NewKeyOwn, AskTyped DEF Receive, Calling
  <2> QED BY <1>2, <2>2, <2>3, <2>4 DEF Receive, Continue
<1>3. ASSUME NEW p \in PCs, Verify(p) \/ Disconnect(p)
      PROVE  Typed'
  BY <1>3 DEF Verify, Disconnect, Goto, api, history, NoFault, Typed, TypeOK, Api!TypeOK, JobOK,
     Steps, Calling
<1>4. ASSUME NEW p \in PCs, GiveUp(p) \/ Reset(p)
      PROVE  Typed'
  <2>1. faults' \in 0..MaxFaults
    BY <1>4, FaultTyped DEF GiveUp, Reset
  <2> QED BY <1>4, <2>1 DEF GiveUp, Reset, Goto, api, history, Typed, TypeOK, Api!TypeOK, JobOK,
     Steps, Calling
<1>5. ASSUME NEW r \in Requests, HandleRequest(r)
      PROVE  Typed'
  <2>1. Api!TypeOK' /\ JobOK'
    BY <1>5, CreateTyped, UpsertTyped, ResetTyped DEF HandleRequest, Api!Handle
  <2>2. TypeOK'
    BY <1>5 DEF HandleRequest, history, Typed, TypeOK, JobOK
  <2> QED BY <2>1, <2>2 DEF Typed
<1>6. CASE Crash \/ PeersLost
  <2>1. faults' \in 0..MaxFaults
    BY <1>6, FaultTyped DEF Crash, PeersLost, Api!Crash, Api!PeersLost
  <2>2. Api!TypeOK' /\ JobOK'
    BY <1>6, <2>1 DEF Crash, PeersLost, Api!Crash, Api!PeersLost, Typed, Api!TypeOK, JobOK,
       Creating, Api!NoJob, Api!Job, Api!Steps
  <2>3. TypeOK'
    BY <1>6 DEF Crash, PeersLost, history, Typed, TypeOK
  <2> QED BY <2>2, <2>3 DEF Typed
<1>7. ASSUME NEW r \in Requests, Cancel(r)
      PROVE  Typed'
  <2>1. ApiLocal' /\ UNCHANGED <<devices, peers, faults>>
    BY <1>7, AnswerTyped DEF Cancel, NoFault, Api!Codes
  <2>2. TypeOK'
    BY <1>7 DEF Cancel, history, Typed, TypeOK
  <2> QED BY <2>1, <2>2 DEF Typed, Api!TypeOK, ApiLocal
<1>8. CASE UNCHANGED vars
  BY <1>8 DEF vars, api, history, Typed, TypeOK, Api!TypeOK, JobOK
<1> QED BY <1>1, <1>2, <1>3, <1>4, <1>5, <1>6, <1>7, <1>8 DEF Next, User, Helper

LEMMA TypedHolds == Spec => []Typed
<1> QED BY TypedInit, TypedNext, PTL DEF Spec

\* Types of helpers and API together: a helper waits for a request only while it
\* is at one, has a key from its first request on, and writes no configuration
\* but with an address of the subnet.
THEOREM SystemTypesCorrect == Spec => []TypeOK
<1>1. Typed => TypeOK
  BY DEF Typed
<1> QED BY <1>1, TypedHolds, PTL


-----------------------------------------------------------------------------
(* Profiles: the steps of the helpers.                                     *)

LEMMA ProfileInit == Init => SystemInv
<1>1. Init => Typed
  BY TypedInit
<1>2. Init => Apart /\ Calm
  BY DEF Init, Api!Init, Apart, KeysOwned, RowsUnique, AskedIsOwn, Calm, Exclusive, SyncHasRow,
     ResetEvicts, ProfileHolds, HasProfile, Creating, Resetting
<1> QED BY <1>1, <1>2 DEF SystemInv

\* A request is sent: what comes into flight, and what follows if it is the only
\* one of its account.
LEMMA AskKeeps ==
  ASSUME SystemInv, Typed',
         NEW p \in PCs, NEW r \in Requests, NEW s \in Calling,
         asked[p] \in {None, r}, \A q \in PCs \ {p} : asked[q] # r,
         OwnKey(p), UNCHANGED <<account, config>>,
         \/ s \in {"fetch", "refetch"} /\ PostDevice(p, r, s)
         \/ s = "reset" /\ key' = key /\ PostReset(p, r, s)
  PROVE  SystemInv'
<1> USE DEF Creating, Resetting
<1>0. /\ Typed /\ pc[r] = "idle" /\ todo[r] = {} /\ r # None
      /\ pc \in [Requests -> Api!Steps] /\ job \in [Requests -> Api!Job]
      /\ answer \in [Requests -> Api!Codes]
      /\ asked \in [PCs -> Requests \cup {None}] /\ step \in [PCs -> Steps]
      /\ UNCHANGED <<devices, peers, todo>>
  BY SystemAssumption DEF SystemAssumption, SystemInv, Typed, TypeOK, Api!TypeOK, JobOK, PostDevice, PostReset, Api!PostDevice,
     Api!PostReset, Api!Arrive
<1>1. \A x \in Requests \ {r} : pc'[x] = pc[x] /\ job'[x] = job[x] /\ answer'[x] = answer[x]
  BY <1>0 DEF PostDevice, PostReset, Api!PostDevice, Api!PostReset, Api!Arrive
<1>2. /\ job'[r].user = account[p] /\ answer'[r] = 0
      /\ \/ s \in {"fetch", "refetch"} /\ pc'[r] = "create" /\ job'[r].key = key'[p]
            /\ evicted' = evicted \ {p}
         \/ s = "reset" /\ pc'[r] = "list" /\ key' = key /\ evicted' = evicted \cup Others(p)
  BY <1>0 DEF PostDevice, PostReset, Api!PostDevice, Api!PostReset, Api!Arrive, Api!NoJob
<1>3. /\ \A q \in PCs \ {p} : asked'[q] = asked[q] /\ step'[q] = step[q] /\ key'[q] = key[q]
      /\ asked'[p] = r /\ step'[p] = s
  BY <1>0 DEF PostDevice, PostReset, Ask, Goto, OwnKey
<1>4. overlapped' = "no" =>
          overlapped = "no" /\ \A x \in Requests : pc[x] # "idle" => job[x].user # account[p]
  BY DEF PostDevice, PostReset, Ask, Busy
<1>5. KeysOwned'
  <2>0. key'[p] # None
    BY SystemAssumption DEF SystemAssumption, OwnKey
  <2>1. CASE key'[p] = key[p]
    <3>1. \A q \in PCs : key'[q] = key[q]
      BY <1>3, <2>1
    <3>2. \A q \in PCs : key[q] = key[p] => q = p
      BY <2>0, <2>1 DEF KeysOwned, SystemInv, Apart
    <3> QED BY <1>0, <1>1, <1>2, <3>1, <3>2 DEF KeysOwned, SystemInv, Apart
  <2>2. CASE key'[p] \in Fresh
    <3>1. /\ \A q \in PCs : key[q] # key'[p]
          /\ \A d \in devices : d.key # key'[p]
          /\ \A x \in Requests : job[x].key # key'[p] /\ key'[p] \notin todo[x]
      BY <2>2 DEF Fresh, Api!ByKey
    <3> QED BY <1>0, <1>1, <1>2, <1>3, <3>1 DEF KeysOwned, SystemInv, Apart
  <2> QED BY <2>1, <2>2 DEF OwnKey
<1>6. RowsUnique'
  BY <1>0 DEF RowsUnique, SystemInv, Apart
<1>7. AskedIsOwn'
  BY <1>0, <1>1, <1>2, <1>3 DEF AskedIsOwn, SystemInv, Apart
<1>8. ASSUME overlapped' = "no" PROVE Calm'
  <2>0. Calm
    BY <1>4, <1>8 DEF SystemInv
  <2>1. Exclusive'
    BY <1>1, <1>2, <1>4, <1>8, <2>0 DEF Exclusive, Calm
  <2>2. SyncHasRow'
    BY <1>0, <1>1, <1>2, <2>0 DEF SyncHasRow, Calm
  <2>3. ResetEvicts'
    BY <1>0, <1>1, <1>2, <1>3, <1>4, <1>8, <2>0 DEF ResetEvicts, Calm, Others
  <2>4. ASSUME NEW q \in PCs \ {p}, HasProfile(q)'
        PROVE  HasProfile(q) /\ RowOf(q)' = RowOf(q)
    <3>1. asked'[q] = asked[q] /\ step'[q] = step[q] /\ key'[q] = key[q]
      BY <1>3
    <3>2. step[q] \in {"fetch", "refetch"} => asked[q] \in Requests \ {r}
      BY <1>0, AskedTyped DEF Typed, TypeOK, Calling
    <3> QED BY <1>1, <2>4, <3>1, <3>2 DEF HasProfile, RowOf
  <2>5. ~HasProfile(p)'
    BY <1>2, <1>3 DEF HasProfile, Calling
  <2>6. ProfileHolds'
    BY <1>0, <1>2, <1>3, <2>0, <2>4, <2>5 DEF ProfileHolds, Calm
  <2> QED BY <2>1, <2>2, <2>3, <2>6 DEF Calm
<1> QED BY <1>5, <1>6, <1>7, <1>8 DEF SystemInv, Apart

\* A helper goes on without the API: at most it keeps what it has.
LEMMA AloneKeeps ==
  ASSUME SystemInv, Typed',
         UNCHANGED <<devices, peers, pc, job, todo, account, evicted, overlapped>>,
         NEW p \in PCs,
         \A q \in PCs \ {p} :
            /\ key'[q] = key[q] /\ config'[q] = config[q]
            /\ step'[q] = step[q] /\ asked'[q] = asked[q]
            /\ asked[q] # None => answer'[asked[q]] = answer[asked[q]],
         asked'[p] = None, step'[p] \in {"off", "error", "start", "on"},
         key'[p] = key[p] \/ key'[p] = None,
         step'[p] \in {"start", "on"} =>
            HasProfile(p) /\ key'[p] = key[p] /\ (p \notin evicted => config'[p] = config[p])
  PROVE  SystemInv'
<1> USE DEF Creating, Resetting
<1>1. KeysOwned'
  <2>1. /\ \A d \in devices : d.key # None
        /\ \A r \in Requests : pc[r] \in Creating => job[r].key # None
        /\ \A r \in Requests : None \notin todo[r]
    BY SystemAssumption
       DEF SystemAssumption, SystemInv, Typed, Api!TypeOK, JobOK, Api!Row
  <2> QED BY <2>1 DEF SystemInv, Apart, KeysOwned
<1>2. RowsUnique' /\ AskedIsOwn'
  BY DEF SystemInv, Apart, RowsUnique, AskedIsOwn
<1>3. ASSUME overlapped' = "no" PROVE Calm'
  <2>0. Calm /\ Typed /\ AskedIsOwn
    BY <1>3 DEF SystemInv, Apart
  <2>1. Exclusive' /\ SyncHasRow'
    BY <2>0 DEF Calm, Exclusive, SyncHasRow
  <2>2. ASSUME HasProfile(p), NEW r \in Requests, pc[r] \in Resetting
        PROVE  asked[p] # r /\ step[p] \notin {"off", "error"}
    BY <2>0, <2>2, SystemAssumption
       DEF SystemAssumption, HasProfile, Typed, TypeOK, AskedIsOwn, Calling
  <2>3. ResetEvicts'
    BY <2>0, <2>2 DEF Calm, ResetEvicts
  <2>4. ASSUME NEW q \in PCs \ {p}, HasProfile(q)'
        PROVE  HasProfile(q) /\ RowOf(q)' = RowOf(q) /\ key'[q] = key[q] /\ config'[q] = config[q]
    <3>1. step[q] \in {"fetch", "refetch"} => asked[q] # None
      BY <2>0 DEF Typed, TypeOK, Calling
    <3> QED BY <2>4, <3>1 DEF HasProfile, RowOf
  <2>5. ASSUME HasProfile(p)', p \notin evicted
        PROVE  HasProfile(p) /\ RowOf(p)' = RowOf(p) /\ key'[p] = key[p] /\ config'[p] = config[p]
    BY <2>5 DEF HasProfile, RowOf
  <2>6. ProfileHolds'
    BY <2>0, <2>4, <2>5 DEF Calm, ProfileHolds
  <2> QED BY <2>1, <2>3, <2>6 DEF Calm
<1> QED BY <1>1, <1>2, <1>3 DEF SystemInv, Apart


-----------------------------------------------------------------------------
(* Profiles: the steps of a handler.                                       *)

\* What a handler's step leaves alone.
HandleFrame(r) ==
    /\ UNCHANGED <<account, key, step, asked, evicted, overlapped>>
    /\ \A x \in Requests \ {r} :
          pc'[x] = pc[x] /\ job'[x] = job[x] /\ todo'[x] = todo[x] /\ answer'[x] = answer[x]

LEMMA HandleFrames ==
  ASSUME Typed, NEW r \in Requests, HandleRequest(r)
  PROVE  HandleFrame(r)
<1>1. UNCHANGED <<account, key, step, asked, evicted, overlapped>>
  BY DEF HandleRequest, history
<1>2. CASE \E code \in Api!Codes : Api!Answer(r, code)
  BY <1>1, <1>2 DEF Typed, Api!TypeOK, Api!Answer, HandleFrame
<1>3. CASE /\ \E s \in Api!Steps : Api!Goto(r, s)
           /\ job' = job \/ \E ip \in Addresses : job' = [job EXCEPT ![r].ip = ip]
           /\ todo' = todo \/ \E ks \in SUBSET Keys : todo' = [todo EXCEPT ![r] = ks]
  BY <1>1, <1>3 DEF Typed, Api!TypeOK, Api!Goto, HandleFrame
<1>4. CASE Api!CreateOrGetDevice(r)
  <2>1. \A d \in Api!ByKey(job[r].key) : d.ip \in Addresses
    BY DEF Typed, Api!TypeOK, Api!Row, Api!ByKey
  <2>2. \A ip \in Addresses \ Api!UsedIPs : ip \in Addresses
    BY AddressFacts
  <2> QED BY <1>2, <1>3, <1>4, <2>1, <2>2 DEF Api!CreateOrGetDevice, Api!Codes, Api!Steps
<1>5. CASE Api!UpsertPeer(r) \/ Api!ResetDevices(r)
  BY <1>2, <1>5 DEF Api!UpsertPeer, Api!ResetDevices, Api!Codes
<1>6. CASE Api!DevicesForUser(r)
  <2>1. {d.key : d \in Api!DevicesOf(job[r].user)} \in SUBSET Keys
    BY DEF Typed, Api!TypeOK, Api!Row, Api!DevicesOf
  <2>2. (IF Api!DevicesOf(job[r].user) = {} THEN "delete" ELSE "remove") \in Api!Steps
    BY DEF Api!Steps
  <2> QED BY <1>2, <1>3, <1>6, <2>1, <2>2 DEF Api!DevicesForUser, Api!Codes
<1>7. CASE Api!RemovePeer(r)
  <2>1. \A k \in todo[r] : todo[r] \ {k} \in SUBSET Keys
    BY DEF Typed, Api!TypeOK
  <2>2. \A k \in todo[r] : (IF todo[r] = {k} THEN "delete" ELSE "remove") \in Api!Steps
    BY DEF Api!Steps
  <2> QED BY <1>2, <1>3, <1>7, <2>1, <2>2 DEF Api!RemovePeer, Api!Codes
<1> QED BY <1>4, <1>5, <1>6, <1>7 DEF HandleRequest, Api!Handle

\* A cancelled request leaves all that is not its own as it is.
LEMMA CancelFrames ==
  ASSUME Typed, NEW r \in Requests, Cancel(r)
  PROVE  /\ HandleFrame(r) /\ pc'[r] = "idle" /\ todo'[r] = {}
         /\ UNCHANGED <<devices, peers, config, abandoned>>
         /\ \A p \in PCs : asked[p] # r
BY DEF Cancel, Api!Answer, HandleFrame, history, Typed, Api!TypeOK

\* Who has a profile after the step had it before, or gets it by the step.
LEMMA ProfileBefore ==
  ASSUME SystemInv, NEW r \in Requests, HandleRequest(r), HandleFrame(r),
         NEW p \in PCs, HasProfile(p)'
  PROVE  \/ HasProfile(p) /\ RowOf(p)' = RowOf(p) /\ config'[p] = config[p] /\ asked[p] # r
         \/ /\ asked[p] = r /\ pc'[r] = "idle" /\ answer'[r] = 201
            /\ step[p] \in {"fetch", "refetch"}
<1>1. Typed
  BY DEF SystemInv
<1>2. asked[p] = r => asked[p] # None /\ step[p] \in Calling
  BY <1>1, SystemAssumption DEF SystemAssumption, Typed, TypeOK
<1>3. asked[p] # r => config'[p] = config[p]
  BY <1>1 DEF HandleRequest, Typed, TypeOK
<1>4. step[p] \in {"fetch", "refetch"} => asked[p] \in Requests
  BY <1>1 DEF Typed, TypeOK, Calling
<1>5. CASE asked[p] = r
  BY <1>2, <1>5 DEF HandleFrame, HasProfile, Calling
<1>6. CASE asked[p] # r
  BY <1>3, <1>4, <1>6 DEF HandleFrame, HasProfile, RowOf
<1> QED BY <1>5, <1>6

\* A request that ends, without a profile for anybody.
LEMMA EndKeeps ==
  ASSUME SystemInv, Typed', NEW r \in Requests, HandleRequest(r), NEW code \in Api!Codes,
         Api!Answer(r, code), code # 201, UNCHANGED <<devices, peers>>
  PROVE  SystemInv'
<1> USE DEF Creating, Resetting
<1>1. Typed /\ HandleFrame(r)
  BY HandleFrames DEF SystemInv
<1>2. pc'[r] = "idle" /\ answer'[r] = code /\ todo'[r] = {}
  BY <1>1 DEF Api!Answer, Typed, Api!TypeOK
<1>3. Apart'
  BY <1>1, <1>2 DEF SystemInv, Apart, HandleFrame, KeysOwned, RowsUnique, AskedIsOwn, Typed, TypeOK
<1>4. ASSUME overlapped' = "no" PROVE Calm'
  <2>0. Calm
    BY <1>1, <1>4 DEF SystemInv, HandleFrame
  <2>1. Exclusive' /\ SyncHasRow' /\ ResetEvicts'
    BY <1>1, <1>2, <2>0 DEF HandleFrame, Calm, Exclusive, SyncHasRow, ResetEvicts
  <2>2. ProfileHolds'
    BY <1>1, <1>2, <2>0, ProfileBefore DEF HandleFrame, Calm, ProfileHolds
  <2> QED BY <2>1, <2>2 DEF Calm
<1> QED BY <1>3, <1>4 DEF SystemInv


LEMMA CancelKeeps ==
  ASSUME SystemInv, Typed', NEW r \in Requests, Cancel(r)
  PROVE  SystemInv'
<1> USE DEF Creating, Resetting
<1>1. /\ Typed /\ HandleFrame(r) /\ pc'[r] = "idle" /\ todo'[r] = {}
      /\ UNCHANGED <<devices, peers, config>> /\ \A p \in PCs : asked[p] # r
  BY CancelFrames DEF SystemInv
<1>2. Apart'
  BY <1>1 DEF SystemInv, Apart, HandleFrame, KeysOwned, RowsUnique, AskedIsOwn, Typed, TypeOK
<1>3. ASSUME overlapped' = "no" PROVE Calm'
  <2>0. Calm
    BY <1>1, <1>3 DEF SystemInv, HandleFrame
  <2>1. Exclusive' /\ SyncHasRow' /\ ResetEvicts'
    BY <1>1, <2>0 DEF HandleFrame, Calm, Exclusive, SyncHasRow, ResetEvicts
  <2>2. ASSUME NEW p \in PCs, HasProfile(p)' PROVE HasProfile(p)
    <3>1. step[p] \in {"fetch", "refetch"} => asked[p] \in Requests \ {r}
      BY <1>1 DEF Typed, TypeOK, Calling
    <3> QED BY <1>1, <2>2, <3>1 DEF HandleFrame, HasProfile
  <2>3. ProfileHolds'
    BY <1>1, <2>0, <2>2 DEF HandleFrame, Calm, ProfileHolds, RowOf
  <2> QED BY <2>1, <2>3 DEF Calm
<1> QED BY <1>2, <1>3 DEF SystemInv


\* A row is what its fields say.
LEMMA RowFields ==
  ASSUME Typed
  PROVE  /\ \A d \in devices : /\ d.user \in Users /\ d.name = Name /\ d.key \in Keys
                               /\ d.ip \in Addresses /\ d.key # None
                               /\ d = [user |-> d.user, name |-> d.name, key |-> d.key, ip |-> d.ip]
         /\ \A r \in Requests :
               job[r] = [user |-> job[r].user, name |-> job[r].name, key |-> job[r].key,
                         ip |-> job[r].ip]
BY AddressFacts, SystemAssumption
   DEF Typed, Api!TypeOK, Api!Row, Api!Job, SystemAssumption

\* A create comes to its peer, with a row that was there or is new.
LEMMA RowKeeps ==
  ASSUME SystemInv, Typed', NEW r \in Requests, HandleRequest(r), HandleFrame(r),
         pc[r] = "create", pc'[r] = "sync",
         UNCHANGED <<peers, todo, answer>>,
         devices' = devices \/ (devices' = devices \cup {job'[r]} /\
            \A d \in devices : d.user # job[r].user /\ d.key # job[r].key /\ d.ip # job'[r].ip),
         job'[r] \in devices',
         job'[r].user = job[r].user, job'[r].key = job[r].key, job'[r].name = Name
  PROVE  SystemInv'
<1> USE DEF Creating, Resetting
<1>1. Typed /\ KeysOwned /\ RowsUnique /\ AskedIsOwn
  BY DEF SystemInv, Apart
<1>2. KeysOwned'
  BY <1>1 DEF HandleFrame, KeysOwned
<1>3. RowsUnique'
  BY <1>1 DEF RowsUnique
<1>4. AskedIsOwn'
  BY <1>1 DEF HandleFrame, AskedIsOwn, Typed, TypeOK
<1>5. ASSUME overlapped' = "no" PROVE Calm'
  <2>0. Calm
    BY <1>5 DEF SystemInv, HandleFrame
  <2>1. Exclusive' /\ SyncHasRow' /\ ResetEvicts'
    BY <2>0 DEF HandleFrame, Calm, Exclusive, SyncHasRow, ResetEvicts
  <2>2. ProfileHolds'
    BY <2>0, ProfileBefore DEF HandleFrame, Calm, ProfileHolds
  <2> QED BY <2>1, <2>2 DEF Calm
<1> QED BY <1>2, <1>3, <1>4, <1>5 DEF SystemInv, Apart

LEMMA CreateKeeps ==
  ASSUME SystemInv, Typed', NEW r \in Requests, HandleRequest(r), Api!CreateOrGetDevice(r)
  PROVE  SystemInv'
<1>1. /\ Typed /\ HandleFrame(r) /\ pc[r] = "create" /\ peers' = peers
      /\ job[r].name = Name
  BY HandleFrames DEF SystemInv, Typed, JobOK, Creating, Api!CreateOrGetDevice
<1>2. CASE \E code \in {400, 409, 500} : Api!Answer(r, code) /\ UNCHANGED devices
  BY <1>1, <1>2, EndKeeps DEF Api!Codes
<1>3. CASE \E d \in Api!ByKey(job[r].key) :
               /\ d.user = job[r].user
               /\ job' = [job EXCEPT ![r].ip = d.ip]
               /\ Api!Goto(r, "sync") /\ UNCHANGED <<devices, todo>>
  <2>1. PICK d \in devices : /\ d.key = job[r].key /\ d.user = job[r].user
                             /\ job' = [job EXCEPT ![r].ip = d.ip]
                             /\ pc' = [pc EXCEPT ![r] = "sync"]
                             /\ UNCHANGED <<devices, todo, answer>>
    BY <1>3 DEF Api!ByKey, Api!Goto
  <2>2. /\ pc'[r] = "sync" /\ job'[r].user = job[r].user /\ job'[r].key = job[r].key
        /\ job'[r].name = job[r].name /\ job'[r].ip = d.ip
    BY <1>1, <2>1 DEF Typed, Api!TypeOK, Api!Job
  <2>3. job'[r] = [user |-> job'[r].user, name |-> job'[r].name, key |-> job'[r].key,
                   ip |-> job'[r].ip]
    BY DEF Typed, Api!TypeOK, Api!Job
  <2>4. job'[r] = d
    BY <1>1, <2>1, <2>2, <2>3, RowFields
  <2> QED BY <1>1, <2>1, <2>2, <2>4, RowKeeps
<1>4. CASE /\ Api!ByKey(job[r].key) = {}
           /\ \A d \in Api!DevicesOf(job[r].user) : d.name # job[r].name
           /\ \E ip \in Addresses \ Api!UsedIPs :
                  /\ devices' = devices \cup {[job[r] EXCEPT !.ip = ip]}
                  /\ job' = [job EXCEPT ![r].ip = ip]
           /\ Api!Goto(r, "sync") /\ UNCHANGED todo
  <2>1. PICK ip \in Addresses : /\ devices' = devices \cup {[job[r] EXCEPT !.ip = ip]}
                                /\ job' = [job EXCEPT ![r].ip = ip]
                                /\ \A d \in devices : d.ip # ip
    BY <1>4, AddressFacts
  <2>2. \A d \in devices : d.user # job[r].user /\ d.key # job[r].key
    BY <1>1, <1>4, RowFields DEF Api!ByKey, Api!DevicesOf
  <2>3. /\ job'[r] = [job[r] EXCEPT !.ip = ip] /\ job'[r].ip = ip
        /\ job'[r].user = job[r].user /\ job'[r].key = job[r].key /\ job'[r].name = job[r].name
    BY <1>1, <2>1 DEF Typed, Api!TypeOK, Api!Job
  <2>4. pc'[r] = "sync" /\ UNCHANGED <<todo, answer>>
    BY <1>1, <1>4 DEF Typed, Api!TypeOK, Api!Goto
  <2> QED BY <1>1, <2>1, <2>2, <2>3, <2>4, RowKeeps
<1> QED BY <1>2, <1>3, <1>4 DEF Api!CreateOrGetDevice

\* The only PC whose peer is set is the one that the row is for.
LEMMA UpsertKeeps ==
  ASSUME SystemInv, Typed', NEW r \in Requests, HandleRequest(r), Api!UpsertPeer(r)
  PROVE  SystemInv'
<1> USE DEF Creating, Resetting
<1>1. /\ Typed /\ HandleFrame(r) /\ pc[r] = "sync" /\ devices' = devices
      /\ job[r].name = Name /\ job[r].key \in Keys /\ job[r].ip \in Addresses
  BY HandleFrames DEF SystemInv, Typed, JobOK, Api!UpsertPeer
<1>2. CASE Api!Answer(r, 503) /\ peers' = peers
  BY <1>1, <1>2, EndKeeps DEF Api!Codes
<1>3. CASE Api!Answer(r, 201) /\ peers' = Api!WithPeer(job[r].key, job[r].ip)
  <2>1. pc'[r] = "idle" /\ answer'[r] = 201 /\ todo'[r] = {}
    BY <1>1, <1>3 DEF Api!Answer, Typed, Api!TypeOK
  <2>2. Apart'
    BY <1>1, <2>1 DEF SystemInv, Apart, HandleFrame, KeysOwned, RowsUnique, AskedIsOwn, Typed, TypeOK
  <2>3. ASSUME overlapped' = "no" PROVE Calm'
    <3>0. Calm /\ RowsUnique /\ AskedIsOwn /\ job[r] \in devices
      BY <1>1, <2>3 DEF SystemInv, Apart, HandleFrame, Calm, SyncHasRow
    <3>1. Exclusive' /\ SyncHasRow' /\ ResetEvicts'
      BY <1>1, <2>1, <3>0 DEF HandleFrame, Calm, Exclusive, SyncHasRow, ResetEvicts
    <3>2. ASSUME NEW p \in PCs \ evicted, HasProfile(p), RowOf(p)' = RowOf(p), config'[p] = config[p]
          PROVE  config'[p] \in Addresses /\ RowOf(p)' \in devices' /\ peers'[key[p]] = config'[p]
      <4>1. config[p] \in Addresses /\ RowOf(p) \in devices /\ peers[key[p]] = config[p]
        BY <3>0, <3>2 DEF Calm, ProfileHolds
      <4>2. key[p] \in Keys
        BY <1>1, <4>1, RowFields DEF RowOf
      <4>3. RowOf(p).key = key[p] /\ RowOf(p).ip = config[p]
        BY DEF RowOf
      <4>4. key[p] = job[r].key <=> config[p] = job[r].ip
        BY <3>0, <4>1, <4>3 DEF RowsUnique
      <4> QED BY <1>1, <1>3, <3>2, <4>1, <4>2, <4>4 DEF Api!WithPeer
    <3>3. ASSUME NEW p \in PCs, asked[p] = r, step[p] \in {"fetch", "refetch"}
          PROVE  config'[p] \in Addresses /\ RowOf(p)' \in devices' /\ peers'[key[p]] = config'[p]
      <4>1. job[r].user = account[p] /\ job[r].key = key[p]
        BY <1>1, <3>0, <3>3, SystemAssumption DEF AskedIsOwn, SystemAssumption
      <4>2. config'[p] = job[r].ip
        BY <1>1, <2>1, <3>3 DEF HandleRequest
      <4>3. RowOf(p)' = job[r]
        BY <1>1, <4>1, <4>2, RowFields DEF RowOf, HandleFrame
      <4> QED BY <1>1, <1>3, <3>0, <4>1, <4>2, <4>3 DEF Api!WithPeer
    <3>4. ProfileHolds'
      BY <1>1, <3>2, <3>3, ProfileBefore DEF HandleFrame, ProfileHolds
    <3> QED BY <3>1, <3>4 DEF Calm
  <2> QED BY <2>2, <2>3 DEF SystemInv
<1> QED BY <1>2, <1>3 DEF Api!UpsertPeer


\* A reset takes a profile only from those that know, or are not on.
LEMMA ResetSpares ==
  ASSUME SystemInv, overlapped = "no", NEW r \in Requests, pc[r] \in Resetting,
         NEW p \in PCs \ evicted, HasProfile(p), asked[p] # r
  PROVE  account[p] # job[r].user
BY DEF SystemInv, Calm, ResetEvicts, HasProfile

LEMMA ListKeeps ==
  ASSUME SystemInv, Typed', NEW r \in Requests, HandleRequest(r), Api!DevicesForUser(r)
  PROVE  SystemInv'
<1> USE DEF Creating, Resetting
<1>1. Typed /\ HandleFrame(r) /\ pc[r] = "list" /\ UNCHANGED <<devices, peers>>
  BY HandleFrames DEF SystemInv, Api!DevicesForUser
<1>2. CASE Api!Answer(r, 500)
  BY <1>1, <1>2, EndKeeps DEF Api!Codes
<1>3. CASE /\ todo' = [todo EXCEPT ![r] = {d.key : d \in Api!DevicesOf(job[r].user)}]
           /\ Api!Goto(r, IF Api!DevicesOf(job[r].user) = {} THEN "delete" ELSE "remove")
           /\ job' = job
  <2>1. /\ todo'[r] = {d.key : d \in Api!DevicesOf(job[r].user)}
        /\ pc'[r] \in {"remove", "delete"} /\ answer' = answer
    BY <1>1, <1>3 DEF Typed, Api!TypeOK, Api!Goto
  <2>2. KeysOwned'
    BY <1>1, <1>3, <2>1 DEF SystemInv, Apart, KeysOwned, HandleFrame, Api!DevicesOf
  <2>3. RowsUnique' /\ AskedIsOwn'
    BY <1>1, <1>3, <2>1 DEF SystemInv, Apart, RowsUnique, AskedIsOwn, HandleFrame, Typed, TypeOK
  <2>4. ASSUME overlapped' = "no" PROVE Calm'
    <3>0. Calm
      BY <1>1, <2>4 DEF SystemInv, HandleFrame
    <3>1. Exclusive' /\ SyncHasRow' /\ ResetEvicts'
      BY <1>1, <1>3, <2>1, <3>0 DEF HandleFrame, Calm, Exclusive, SyncHasRow, ResetEvicts
    <3>2. ProfileHolds'
      BY <1>1, <2>1, <3>0, ProfileBefore DEF HandleFrame, Calm, ProfileHolds
    <3> QED BY <3>1, <3>2 DEF Calm
  <2> QED BY <2>2, <2>3, <2>4 DEF SystemInv, Apart
<1> QED BY <1>1, <1>2, <1>3 DEF Api!DevicesForUser

LEMMA RemoveKeeps ==
  ASSUME SystemInv, Typed', NEW r \in Requests, HandleRequest(r), Api!RemovePeer(r)
  PROVE  SystemInv'
<1> USE DEF Creating, Resetting
<1>1. Typed /\ HandleFrame(r) /\ pc[r] = "remove" /\ devices' = devices
  BY HandleFrames DEF SystemInv, Api!RemovePeer
<1>2. CASE Api!Answer(r, 503) /\ peers' = peers
  BY <1>1, <1>2, EndKeeps DEF Api!Codes
<1>3. ASSUME NEW k \in todo[r],
             peers' = [peers EXCEPT ![k] = None], todo' = [todo EXCEPT ![r] = @ \ {k}],
             Api!Goto(r, IF todo[r] = {k} THEN "delete" ELSE "remove"), job' = job
      PROVE  SystemInv'
  <2>1. todo'[r] \subseteq todo[r] /\ pc'[r] \in {"remove", "delete"} /\ answer' = answer
    BY <1>1, <1>3 DEF Typed, Api!TypeOK, Api!Goto
  <2>2. KeysOwned'
    BY <1>1, <1>3, <2>1 DEF SystemInv, Apart, KeysOwned, HandleFrame
  <2>3. RowsUnique' /\ AskedIsOwn'
    BY <1>1, <1>3, <2>1 DEF SystemInv, Apart, RowsUnique, AskedIsOwn, HandleFrame, Typed, TypeOK
  <2>4. ASSUME overlapped' = "no" PROVE Calm'
    <3>0. Calm /\ KeysOwned /\ overlapped = "no"
      BY <1>1, <2>4 DEF SystemInv, Apart, HandleFrame
    <3>1. Exclusive' /\ SyncHasRow' /\ ResetEvicts'
      BY <1>1, <1>3, <2>1, <3>0 DEF HandleFrame, Calm, Exclusive, SyncHasRow, ResetEvicts
    <3>2. ASSUME NEW p \in PCs \ evicted, HasProfile(p), asked[p] # r
          PROVE  key[p] # k /\ key[p] \in Keys /\ peers'[key[p]] = peers[key[p]]
      <4>1. key[p] # k
        BY <1>1, <1>3, <3>0, <3>2, ResetSpares DEF KeysOwned
      <4>2. key[p] \in Keys
        BY <1>1, <3>0, <3>2, RowFields DEF Calm, ProfileHolds, RowOf
      <4> QED BY <1>1, <1>3, <4>1, <4>2 DEF Typed, Api!TypeOK
    <3>3. ProfileHolds'
      BY <1>1, <2>1, <3>0, <3>2, ProfileBefore DEF HandleFrame, Calm, ProfileHolds
    <3> QED BY <3>1, <3>3 DEF Calm
  <2> QED BY <2>2, <2>3, <2>4 DEF SystemInv, Apart
<1> QED BY <1>1, <1>2, <1>3 DEF Api!RemovePeer

LEMMA DeleteKeeps ==
  ASSUME SystemInv, Typed', NEW r \in Requests, HandleRequest(r), Api!ResetDevices(r)
  PROVE  SystemInv'
<1> USE DEF Creating, Resetting
<1>1. Typed /\ HandleFrame(r) /\ pc[r] = "delete" /\ peers' = peers
  BY HandleFrames DEF SystemInv, Api!ResetDevices
<1>2. CASE Api!Answer(r, 500) /\ devices' = devices
  BY <1>1, <1>2, EndKeeps DEF Api!Codes
<1>3. CASE devices' = devices \ Api!DevicesOf(job[r].user) /\ Api!Answer(r, 200)
  <2>1. pc'[r] = "idle" /\ answer'[r] = 200 /\ todo'[r] = {}
    BY <1>1, <1>3 DEF Api!Answer, Typed, Api!TypeOK
  <2>2. \A d \in devices : d.user # job[r].user => d \in devices'
    BY <1>3 DEF Api!DevicesOf
  <2>3. KeysOwned'
    BY <1>1, <1>3, <2>1 DEF SystemInv, Apart, KeysOwned, HandleFrame
  <2>4. RowsUnique' /\ AskedIsOwn'
    BY <1>1, <1>3, <2>1 DEF SystemInv, Apart, RowsUnique, AskedIsOwn, HandleFrame, Typed, TypeOK
  <2>5. ASSUME overlapped' = "no" PROVE Calm'
    <3>0. Calm /\ overlapped = "no"
      BY <1>1, <2>5 DEF SystemInv, HandleFrame
    <3>1. Exclusive' /\ ResetEvicts'
      BY <1>1, <2>1, <3>0 DEF HandleFrame, Calm, Exclusive, ResetEvicts
    <3>2. SyncHasRow'
      BY <1>1, <2>1, <2>2, <3>0 DEF HandleFrame, Calm, Exclusive, SyncHasRow
    <3>3. ASSUME NEW p \in PCs \ evicted, HasProfile(p), asked[p] # r, RowOf(p) \in devices
          PROVE  RowOf(p) \in devices'
      <4>1. RowOf(p).user # job[r].user
        BY <1>1, <3>0, <3>3, ResetSpares DEF RowOf
      <4> QED BY <2>2, <3>3, <4>1
    <3>4. ProfileHolds'
      BY <1>1, <2>1, <3>0, <3>3, ProfileBefore DEF HandleFrame, Calm, ProfileHolds
    <3> QED BY <3>1, <3>2, <3>4 DEF Calm
  <2> QED BY <2>3, <2>4, <2>5 DEF SystemInv, Apart
<1> QED BY <1>1, <1>2, <1>3 DEF Api!ResetDevices

-----------------------------------------------------------------------------
LEMMA ProfileNext ==
  ASSUME SystemInv, [Next]_vars
  PROVE  SystemInv'
<1>0. Typed /\ Typed'
  BY TypedNext DEF SystemInv
<1>1. ASSUME NEW p \in PCs, Connect(p)
      PROVE  SystemInv'
  <2>1. OwnKey(p) /\ UNCHANGED <<account, config>>
    BY <1>0, <1>1, NewKeyOwn, OldKeyOwn DEF Connect
  <2>2. PICK r \in Requests : PostDevice(p, r, "fetch") /\ \A q \in PCs : asked[q] # r
    BY <1>1, UnusedFacts DEF Connect
  <2>3. asked[p] = None
    BY <1>0, <1>1 DEF Connect, Typed, TypeOK, Calling
  <2> QED BY <1>0, <2>1, <2>2, <2>3, AskKeeps DEF Calling
<1>2. ASSUME NEW p \in PCs, Receive(p)
      PROVE  SystemInv'
  <2>1. /\ asked[p] \in Requests /\ step[p] \in Calling /\ key[p] \in Keys /\ key[p] # None
        /\ asked[p] # None /\ pc[asked[p]] = "idle" /\ UNCHANGED <<account, config>>
    BY <1>0, <1>2, AskedTyped, SystemAssumption DEF Receive, SystemAssumption
  <2>2. \A q \in PCs \ {p} : asked[q] # asked[p]
    BY <2>1 DEF SystemInv, Apart, AskedIsOwn
  <2>3. CASE key' = key /\ PostReset(p, asked[p], "reset")
    BY <1>0, <2>1, <2>2, <2>3, OldKeyOwn, AskKeeps DEF Calling
  <2>4. CASE NewKey(p) /\ PostDevice(p, asked[p], "refetch")
    BY <1>0, <2>1, <2>2, <2>4, NewKeyOwn, AskKeeps DEF Calling
  <2>5. CASE \E s \in {"start", "error"} :
                Return(p, s) /\ (s = "start" => step[p] \in {"fetch", "refetch"} /\ answer[asked[p]] = 201)
    <3>1. PICK s \in {"start", "error"} :
             Return(p, s) /\ (s = "start" => step[p] \in {"fetch", "refetch"} /\ answer[asked[p]] = 201)
      BY <2>5
    <3>2. /\ UNCHANGED <<devices, peers, pc, job, todo, account, key, config, evicted, overlapped>>
          /\ asked'[p] = None /\ step'[p] = s
          /\ \A q \in PCs \ {p} : asked'[q] = asked[q] /\ step'[q] = step[q]
          /\ \A x \in Requests \ {asked[p]} : answer'[x] = answer[x]
      BY <1>0, <2>1, <3>1 DEF Return, Goto, history, Typed, TypeOK, Api!TypeOK
    <3>3. \A q \in PCs \ {p} : asked[q] # None => answer'[asked[q]] = answer[asked[q]]
      BY <1>0, <2>2, <3>2 DEF Typed, TypeOK
    <3>4. s = "start" => HasProfile(p)
      BY <2>1, <3>1 DEF HasProfile
    <3> QED BY <1>0, <3>2, <3>3, <3>4, AloneKeeps
  <2> QED BY <1>2, <2>3, <2>4, <2>5 DEF Receive, Continue
<1>3. ASSUME NEW p \in PCs, Verify(p) \/ Disconnect(p) \/ GiveUp(p) \/ Reset(p)
      PROVE  SystemInv'
  <2>1. /\ UNCHANGED <<devices, peers, pc, job, todo, answer, account, evicted, overlapped>>
        /\ \A q \in PCs \ {p} : /\ key'[q] = key[q] /\ config'[q] = config[q]
                                /\ step'[q] = step[q] /\ asked'[q] = asked[q]
        /\ asked'[p] = None /\ (key'[p] = key[p] \/ key'[p] = None)
        /\ \/ step'[p] \in {"off", "error"}
           \/ step'[p] = "on" /\ step[p] = "start" /\ key' = key /\ config' = config
    BY <1>0, <1>3 DEF Verify, Disconnect, GiveUp, Reset, Goto, api, history, Typed, TypeOK, Calling
  <2>2. step[p] = "start" => HasProfile(p)
    BY DEF HasProfile
  <2> QED BY <1>0, <2>1, <2>2, AloneKeeps
<1>4. ASSUME NEW r \in Requests, HandleRequest(r)
      PROVE  SystemInv'
  BY <1>0, <1>4, CreateKeeps, UpsertKeeps, ListKeeps, RemoveKeeps, DeleteKeeps
     DEF HandleRequest, Api!Handle
<1>5. CASE Crash
  <2>1. /\ \A r \in Requests : pc'[r] = "idle" /\ job'[r] = Api!NoJob /\ todo'[r] = {}
        /\ UNCHANGED <<devices, peers, answer, account, key, config, step, asked, evicted, overlapped>>
    BY <1>5 DEF Crash, Api!Crash, history
  <2>2. Apart'
    BY <1>0, <2>1 DEF SystemInv, Apart, KeysOwned, RowsUnique, AskedIsOwn, Typed, TypeOK, Creating
  <2>3. ASSUME overlapped' = "no" PROVE Calm'
    <3>0. Calm
      BY <2>1, <2>3 DEF SystemInv
    <3>1. Exclusive' /\ SyncHasRow' /\ ResetEvicts'
      BY <2>1 DEF Exclusive, SyncHasRow, ResetEvicts, Resetting
    <3>2. ASSUME NEW p \in PCs, HasProfile(p)' PROVE HasProfile(p)
      <4>1. step[p] \in {"fetch", "refetch"} => asked[p] \in Requests
        BY <1>0 DEF Typed, TypeOK, Calling
      <4> QED BY <1>0, <2>1, <3>2, <4>1 DEF HasProfile, Typed, JobOK
    <3>3. ProfileHolds'
      BY <2>1, <3>0, <3>2 DEF Calm, ProfileHolds, RowOf
    <3> QED BY <3>1, <3>3 DEF Calm
  <2> QED BY <1>0, <2>2, <2>3 DEF SystemInv
<1>6. CASE PeersLost
  <2>1. /\ UNCHANGED <<devices, pc, job, todo, answer, account, key, config, step, asked, overlapped>>
        /\ evicted' = PCs
    BY <1>6 DEF PeersLost, Api!PeersLost
  <2>2. Apart'
    BY <2>1 DEF SystemInv, Apart, KeysOwned, RowsUnique, AskedIsOwn
  <2>3. overlapped' = "no" => Calm'
    BY <2>1 DEF SystemInv, Calm, Exclusive, SyncHasRow, ResetEvicts, ProfileHolds
  <2> QED BY <1>0, <2>2, <2>3 DEF SystemInv
<1>7. ASSUME NEW r \in Requests, Cancel(r)
      PROVE  SystemInv'
  BY <1>0, <1>7, CancelKeeps
<1>8. CASE UNCHANGED vars
  BY <1>0, <1>8 DEF vars, api, history, SystemInv, Apart, KeysOwned, RowsUnique, AskedIsOwn, Calm,
     Exclusive, SyncHasRow, ResetEvicts, ProfileHolds, HasProfile, RowOf
<1> QED BY <1>1, <1>2, <1>3, <1>4, <1>5, <1>6, <1>7, <1>8 DEF Next, User, Helper

\* A PC that shows On is served, unless it was evicted or requests of one
\* account have overlapped: for any number of PCs on any accounts, whatever the
\* API fails in and whichever requests the helpers give up.
THEOREM OnPCsAreServed == Spec => []OnIsServed
<1>1. SystemInv => OnIsServed
  <2> SUFFICES ASSUME SystemInv, overlapped = "no",
                      NEW p \in PCs, step[p] = "on", p \notin evicted
               PROVE  Served(p)
    BY DEF OnIsServed
  <2>1. config[p] \in Addresses /\ peers[key[p]] = config[p] /\ key[p] # None
    BY DEF SystemInv, Calm, ProfileHolds, HasProfile, Typed, TypeOK
  <2> QED BY <2>1, AddressFacts DEF Served
<1> QED BY <1>1, ProfileInit, ProfileNext, PTL DEF Spec

-----------------------------------------------------------------------------
(* What it takes for requests of an account to overlap.                    *)

\* Every PC its own account, and no helper has given up a request.
OnTheirOwn == abandoned = "no" /\ \A p, q \in PCs : account[p] = account[q] => p = q

\* Then a request that runs is one that a helper waits for: the PCs cannot have
\* two requests in flight, as they wait for the one.
RunningIsAsked == \A r \in Requests : pc[r] # "idle" => \E p \in PCs : asked[p] = r

CauseInv == SystemInv /\ (OnTheirOwn => overlapped = "no" /\ RunningIsAsked)

LEMMA AskHasCause ==
  ASSUME CauseInv, SystemInv', NEW p \in PCs, NEW r \in Requests, NEW s \in Calling,
         PostDevice(p, r, s) \/ PostReset(p, r, s), account' = account,
         asked[p] # None => pc[asked[p]] = "idle"
  PROVE  CauseInv'
<1> SUFFICES ASSUME OnTheirOwn' PROVE overlapped' = "no" /\ RunningIsAsked'
  BY DEF CauseInv
<1>1. /\ Typed /\ AskedIsOwn /\ OnTheirOwn /\ overlapped = "no" /\ RunningIsAsked
      /\ asked \in [PCs -> Requests \cup {None}] /\ pc \in [Requests -> Api!Steps]
  BY DEF CauseInv, SystemInv, Apart, Typed, TypeOK, Api!TypeOK, OnTheirOwn, PostDevice, PostReset,
     Ask
<1>2. ASSUME NEW x \in Requests, pc[x] # "idle"
      PROVE  job[x].user # account[p] /\ \E q \in PCs \ {p} : asked[q] = x
  <2>1. PICK q \in PCs : asked[q] = x
    BY <1>1, <1>2 DEF RunningIsAsked
  <2>2. asked[q] # None
    BY <2>1, SystemAssumption DEF SystemAssumption
  <2>3. job[x].user = account[q] /\ q # p
    BY <1>1, <1>2, <2>1, <2>2 DEF AskedIsOwn
  <2> QED BY <1>1, <2>1, <2>3 DEF OnTheirOwn
<1>3. ~Busy(account[p]) /\ overlapped' = "no"
  BY <1>1, <1>2 DEF Busy, PostDevice, PostReset, Ask
<1>4. /\ asked' = [asked EXCEPT ![p] = r]
      /\ \A x \in Requests \ {r} : pc'[x] = pc[x]
  BY <1>1 DEF PostDevice, PostReset, Ask, Api!PostDevice, Api!PostReset, Api!Arrive
<1>5. RunningIsAsked'
  BY <1>1, <1>2, <1>4 DEF RunningIsAsked
<1> QED BY <1>3, <1>5

LEMMA CauseNext ==
  ASSUME CauseInv, [Next]_vars
  PROVE  CauseInv'
<1>0. Typed /\ SystemInv /\ SystemInv'
  BY ProfileNext DEF CauseInv, SystemInv
<1>1. ASSUME NEW p \in PCs, Connect(p)
      PROVE  CauseInv'
  <2>1. PICK r \in Requests : PostDevice(p, r, "fetch")
    BY <1>1, UnusedFacts DEF Connect
  <2>2. asked[p] = None /\ account' = account
    BY <1>0, <1>1 DEF Connect, Typed, TypeOK, Calling
  <2> QED BY <1>0, <2>1, <2>2, AskHasCause DEF Calling
<1>2. ASSUME NEW p \in PCs, Receive(p)
      PROVE  CauseInv'
  <2>1. asked[p] \in Requests /\ pc[asked[p]] = "idle" /\ account' = account
    BY <1>0, <1>2, AskedTyped DEF Receive
  <2>2. CASE \E s \in Calling : PostDevice(p, asked[p], s) \/ PostReset(p, asked[p], s)
    BY <1>0, <2>1, <2>2, AskHasCause
  <2>3. CASE \E s \in {"start", "error"} : Return(p, s)
    <3>1. /\ asked' = [asked EXCEPT ![p] = None]
          /\ pc' = pc /\ overlapped' = overlapped /\ abandoned' = abandoned
      BY <2>3 DEF Return, history
    <3> QED BY <1>0, <2>1, <3>1 DEF CauseInv, OnTheirOwn, RunningIsAsked, Typed, TypeOK
  <2> QED BY <1>2, <2>2, <2>3 DEF Receive, Continue, Calling
<1>3. ASSUME NEW p \in PCs, GiveUp(p)
      PROVE  CauseInv'
  BY <1>0, <1>3 DEF GiveUp, CauseInv, OnTheirOwn
<1>4. ASSUME NEW p \in PCs, Verify(p) \/ Disconnect(p) \/ Reset(p)
      PROVE  CauseInv'
  <2>1. UNCHANGED <<pc, asked, account, overlapped, abandoned>>
    BY <1>4 DEF Verify, Disconnect, Reset, api, history
  <2> QED BY <1>0, <2>1 DEF CauseInv, OnTheirOwn, RunningIsAsked
<1>5. ASSUME NEW r \in Requests, HandleRequest(r)
      PROVE  CauseInv'
  <2>1. /\ HandleFrame(r) /\ abandoned' = abandoned /\ pc[r] # "idle"
    BY <1>0, <1>5, HandleFrames DEF HandleRequest, history, Api!Handle, Api!CreateOrGetDevice,
       Api!UpsertPeer, Api!DevicesForUser, Api!RemovePeer, Api!ResetDevices
  <2> QED BY <1>0, <2>1 DEF HandleFrame, CauseInv, OnTheirOwn, RunningIsAsked
<1>6. CASE Crash \/ PeersLost
  <2>1. /\ UNCHANGED <<account, asked, overlapped, abandoned>>
        /\ \A r \in Requests : pc'[r] # "idle" => pc[r] # "idle"
    BY <1>6 DEF Crash, PeersLost, Api!Crash, Api!PeersLost, history
  <2> QED BY <1>0, <2>1 DEF CauseInv, OnTheirOwn, RunningIsAsked
<1>7. ASSUME NEW r \in Requests, Cancel(r)
      PROVE  CauseInv'
  BY <1>0, <1>7, CancelFrames DEF HandleFrame, CauseInv, OnTheirOwn, RunningIsAsked
<1>8. CASE UNCHANGED vars
  BY <1>0, <1>8 DEF vars, api, history, CauseInv, OnTheirOwn, RunningIsAsked
<1> QED BY <1>1, <1>2, <1>3, <1>4, <1>5, <1>6, <1>7, <1>8 DEF Next, User, Helper

\* As long as every PC has an account of its own and no request is given up, the
\* requests of an account never overlap, so that what the other theorems say of
\* PCs and profiles holds outright.
THEOREM OverlapNeedsCause == Spec => []OverlapHasCause
<1>1. Init => CauseInv
  BY ProfileInit DEF Init, Api!Init, CauseInv, RunningIsAsked
<1>2. CauseInv => OverlapHasCause
  BY DEF CauseInv, SystemInv, Typed, TypeOK, OnTheirOwn, OverlapHasCause
<1> QED BY <1>1, <1>2, CauseNext, PTL DEF Spec

-----------------------------------------------------------------------------
(* Peers and leases.                                                       *)

\* A reset deletes no row whose peer it has not removed.
ResetCovers ==
    \A r \in Requests :
        /\ pc[r] \in {"remove", "delete"} =>
              \A d \in devices : d.user = job[r].user =>
                  d.key \in todo[r] \/ peers[d.key] \notin Addresses
        /\ pc[r] = "delete" => todo[r] = {}

Leased == ResetCovers /\ Api!PeerHasLease

PeerInv == SystemInv /\ (overlapped = "no" => Leased)

\* Steps that send a request, end one, or are none of the API's: no row and no
\* peer changes, and no reset comes further.
LEMMA FrameLeased ==
  ASSUME PeerInv, SystemInv', overlapped' = "no" => overlapped = "no",
         devices' = devices,
         peers' = peers \/ \A k \in Keys : peers'[k] = None,
         \A x \in Requests : pc'[x] \in {"remove", "delete"} =>
            pc[x] = pc'[x] /\ job'[x] = job[x] /\ todo'[x] = todo[x]
  PROVE  PeerInv'
<1> SUFFICES ASSUME overlapped' = "no" PROVE Leased'
  BY DEF PeerInv
<1>1. Leased /\ None \notin Addresses /\ \A d \in devices : d.key \in Keys
  BY AddressFacts, RowFields DEF PeerInv, SystemInv
<1>2. Api!PeerHasLease'
  BY <1>1 DEF Leased, Api!PeerHasLease, Api!Serves
<1>3. ResetCovers'
  BY <1>1 DEF Leased, ResetCovers
<1> QED BY <1>2, <1>3 DEF Leased

LEMMA EndLeased ==
  ASSUME PeerInv, SystemInv', NEW r \in Requests, HandleFrame(r),
         NEW code \in Api!Codes, Api!Answer(r, code), UNCHANGED <<devices, peers>>
  PROVE  PeerInv'
<1>1. pc'[r] = "idle"
  BY DEF Api!Answer, PeerInv, SystemInv, Typed, Api!TypeOK
<1> QED BY <1>1, FrameLeased DEF HandleFrame

LEMMA CreateLeased ==
  ASSUME PeerInv, SystemInv', NEW r \in Requests, HandleFrame(r), Api!CreateOrGetDevice(r)
  PROVE  PeerInv'
<1>0. Typed /\ pc[r] = "create" /\ peers' = peers
  BY DEF PeerInv, SystemInv, Api!CreateOrGetDevice
<1>1. CASE \E code \in Api!Codes : Api!Answer(r, code) /\ UNCHANGED devices
  BY <1>0, <1>1, EndLeased
<1>2. CASE \E ip \in Addresses : /\ Api!Goto(r, "sync") /\ todo' = todo
                                 /\ job' = [job EXCEPT ![r].ip = ip]
                                 /\ \/ devices' = devices
                                    \/ devices' = devices \cup {[job[r] EXCEPT !.ip = ip]}
  <2> SUFFICES ASSUME overlapped' = "no" PROVE Leased'
    BY DEF PeerInv
  <2>1. Leased /\ Exclusive
    BY DEF HandleFrame, PeerInv, SystemInv, Calm
  <2>2. pc'[r] = "sync"
    BY <1>0, <1>2 DEF Typed, Api!TypeOK, Api!Goto
  <2>3. /\ devices \subseteq devices'
        /\ \A d \in devices' \ devices : d.user = job[r].user
    BY <1>0, <1>2 DEF Typed, Api!TypeOK, Api!Job
  <2>4. Api!PeerHasLease'
    BY <1>0, <2>1, <2>3 DEF Leased, Api!PeerHasLease, Api!Serves
  <2>5. ResetCovers'
    <3> SUFFICES ASSUME NEW x \in Requests, pc'[x] \in {"remove", "delete"}
                 PROVE  /\ \A d \in devices' : d.user = job'[x].user =>
                              d.key \in todo'[x] \/ peers'[d.key] \notin Addresses
                        /\ pc'[x] = "delete" => todo'[x] = {}
      BY DEF ResetCovers
    <3>1. x # r /\ pc'[x] = pc[x] /\ job'[x] = job[x] /\ todo'[x] = todo[x]
      BY <2>2 DEF HandleFrame
    <3>2. job[x].user # job[r].user
      BY <1>0, <2>1, <3>1 DEF Exclusive
    <3> QED BY <1>0, <2>1, <2>3, <3>1, <3>2 DEF Leased, ResetCovers
  <2> QED BY <2>4, <2>5 DEF Leased
<1>3. \A d \in Api!ByKey(job[r].key) : d.ip \in Addresses
  BY <1>0, RowFields DEF Api!ByKey
<1>4. \A ip \in Addresses \ Api!UsedIPs : ip \in Addresses
  BY AddressFacts
<1> QED BY <1>1, <1>2, <1>3, <1>4 DEF Api!CreateOrGetDevice, Api!Codes

\* A peer is set under the address of its row, and no reset of its user runs.
LEMMA UpsertLeased ==
  ASSUME PeerInv, SystemInv', NEW r \in Requests, HandleFrame(r), Api!UpsertPeer(r)
  PROVE  PeerInv'
<1>0. Typed /\ RowsUnique /\ pc[r] = "sync" /\ devices' = devices
  BY DEF PeerInv, SystemInv, Apart, Api!UpsertPeer
<1>1. CASE peers' = peers
  BY <1>0, <1>1, EndLeased DEF Api!UpsertPeer, Api!Codes
<1>2. CASE peers' = Api!WithPeer(job[r].key, job[r].ip) /\ Api!Answer(r, 201)
  <2> SUFFICES ASSUME overlapped' = "no" PROVE Leased'
    BY DEF PeerInv
  <2>1. Leased /\ Exclusive /\ job[r] \in devices /\ None \notin Addresses
    BY <1>0, AddressFacts DEF HandleFrame, PeerInv, SystemInv, Calm, SyncHasRow
  <2>2. \A k \in Keys : peers'[k] = IF k = job[r].key THEN job[r].ip
                                    ELSE IF peers[k] = job[r].ip THEN None ELSE peers[k]
    BY <1>2 DEF Api!WithPeer
  <2>3. pc'[r] = "idle"
    BY <1>0, <1>2 DEF Api!Answer, Typed, Api!TypeOK
  <2>4. Api!PeerHasLease'
    BY <1>0, <2>1, <2>2 DEF Leased, Api!PeerHasLease, Api!Serves
  <2>5. ResetCovers'
    <3> SUFFICES ASSUME NEW x \in Requests, pc'[x] \in {"remove", "delete"}
                 PROVE  /\ \A d \in devices : d.user = job[x].user =>
                              d.key \in todo[x] \/ peers'[d.key] \notin Addresses
                        /\ pc[x] = "delete" => todo[x] = {}
      BY <1>0, <2>3 DEF ResetCovers, HandleFrame
    <3>1. pc[x] \in {"remove", "delete"} /\ job[x].user # job[r].user
      BY <1>0, <2>1, <2>3 DEF HandleFrame, Exclusive
    <3>2. ASSUME NEW d \in devices, d.user = job[x].user, d.key \notin todo[x]
          PROVE  peers'[d.key] \notin Addresses
      <4>1. d.key # job[r].key /\ d.key \in Keys
        BY <1>0, <2>1, <3>1, <3>2, RowFields DEF RowsUnique
      <4>2. peers[d.key] \notin Addresses
        BY <2>1, <3>1, <3>2 DEF Leased, ResetCovers
      <4> QED BY <2>1, <2>2, <4>1, <4>2
    <3> QED BY <2>1, <3>1, <3>2 DEF Leased, ResetCovers
  <2> QED BY <2>4, <2>5 DEF Leased
<1> QED BY <1>1, <1>2 DEF Api!UpsertPeer

LEMMA ResetLeased ==
  ASSUME PeerInv, SystemInv', NEW r \in Requests, HandleFrame(r),
         Api!DevicesForUser(r) \/ Api!RemovePeer(r) \/ Api!ResetDevices(r)
  PROVE  PeerInv'
<1>0. Typed /\ None \notin Addresses /\ \A d \in devices : d.key \in Keys
  BY AddressFacts, RowFields DEF PeerInv, SystemInv
<1>1. CASE \E code \in Api!Codes : Api!Answer(r, code) /\ UNCHANGED <<devices, peers>>
  BY <1>1, EndLeased
<1>2. CASE /\ todo' = [todo EXCEPT ![r] = {d.key : d \in Api!DevicesOf(job[r].user)}]
           /\ Api!Goto(r, IF Api!DevicesOf(job[r].user) = {} THEN "delete" ELSE "remove")
           /\ UNCHANGED <<job, devices, peers>>
  <2> SUFFICES ASSUME overlapped' = "no" PROVE Leased'
    BY DEF PeerInv
  <2>1. Leased
    BY DEF HandleFrame, PeerInv
  <2>2. /\ pc'[r] = IF Api!DevicesOf(job[r].user) = {} THEN "delete" ELSE "remove"
        /\ todo'[r] = {d.key : d \in Api!DevicesOf(job[r].user)}
    BY <1>0, <1>2 DEF Typed, Api!TypeOK, Api!Goto
  <2>3. /\ \A d \in devices : d.user = job[r].user => d.key \in todo'[r]
        /\ pc'[r] = "delete" => todo'[r] = {}
    BY <2>2 DEF Api!DevicesOf
  <2>4. Api!PeerHasLease' /\ ResetCovers'
    BY <1>2, <2>1, <2>3 DEF Leased, Api!PeerHasLease, Api!Serves, ResetCovers, HandleFrame
  <2> QED BY <2>4 DEF Leased
<1>3. ASSUME NEW k \in todo[r], pc[r] = "remove",
             peers' = [peers EXCEPT ![k] = None], todo' = [todo EXCEPT ![r] = @ \ {k}],
             Api!Goto(r, IF todo[r] = {k} THEN "delete" ELSE "remove"), UNCHANGED <<job, devices>>
      PROVE  PeerInv'
  <2> SUFFICES ASSUME overlapped' = "no" PROVE Leased'
    BY DEF PeerInv
  <2>1. Leased
    BY DEF HandleFrame, PeerInv
  <2>2. /\ pc'[r] = IF todo[r] = {k} THEN "delete" ELSE "remove"
        /\ todo'[r] = todo[r] \ {k} /\ k \in Keys
    BY <1>0, <1>3 DEF Typed, Api!TypeOK, Api!Goto
  <2>3. \A l \in Keys : peers'[l] = IF l = k THEN None ELSE peers[l]
    BY <1>0, <1>3, <2>2 DEF Typed, Api!TypeOK
  <2>4. Api!PeerHasLease'
    BY <1>0, <1>3, <2>1, <2>3 DEF Leased, Api!PeerHasLease, Api!Serves
  <2>5. pc'[r] = "delete" => todo'[r] = {}
    BY <2>2
  <2>6. ResetCovers'
    BY <1>0, <1>3, <2>1, <2>2, <2>3, <2>5 DEF Leased, ResetCovers, HandleFrame
  <2> QED BY <2>4, <2>6 DEF Leased
<1>4. CASE /\ pc[r] = "delete" /\ Api!Answer(r, 200) /\ peers' = peers
           /\ devices' = devices \ Api!DevicesOf(job[r].user)
  <2> SUFFICES ASSUME overlapped' = "no" PROVE Leased'
    BY DEF PeerInv
  <2>1. Leased
    BY DEF HandleFrame, PeerInv
  <2>2. pc'[r] = "idle" /\ \A d : d \in devices' <=> d \in devices /\ d.user # job[r].user
    BY <1>0, <1>4 DEF Typed, Api!TypeOK, Api!Answer, Api!DevicesOf
  <2>3. \A d \in devices : d.user = job[r].user => peers[d.key] \notin Addresses
    BY <1>4, <2>1 DEF Leased, ResetCovers
  <2>4. Api!PeerHasLease'
    BY <1>4, <2>1, <2>2, <2>3 DEF Leased, Api!PeerHasLease, Api!Serves
  <2>5. ResetCovers'
    BY <1>4, <2>1, <2>2 DEF Leased, ResetCovers, HandleFrame
  <2> QED BY <2>4, <2>5 DEF Leased
<1> QED BY <1>1, <1>2, <1>3, <1>4 DEF Api!DevicesForUser, Api!RemovePeer, Api!ResetDevices, Api!Codes

LEMMA LeasedNext ==
  ASSUME PeerInv, [Next]_vars
  PROVE  PeerInv'
<1>0. Typed /\ SystemInv'
  BY ProfileNext DEF PeerInv, SystemInv
<1>1. ASSUME NEW p \in PCs, User(p) \/ Helper(p) \/ GiveUp(p)
      PROVE  PeerInv'
  <2>1. CASE \E r \in Requests, s \in Calling : PostDevice(p, r, s) \/ PostReset(p, r, s)
    <3>1. PICK r \in Requests, s \in Calling : PostDevice(p, r, s) \/ PostReset(p, r, s)
      BY <2>1
    <3>2. /\ overlapped' = "no" => overlapped = "no"
          /\ UNCHANGED <<devices, peers, todo>>
          /\ pc'[r] \in {"create", "list"}
          /\ \A x \in Requests \ {r} : pc'[x] = pc[x] /\ job'[x] = job[x]
      BY <1>0, <3>1 DEF Typed, Api!TypeOK, PostDevice, PostReset, Ask, Api!PostDevice,
         Api!PostReset, Api!Arrive
    <3> QED BY <1>0, <3>2, FrameLeased
  <2>2. CASE UNCHANGED <<devices, peers, pc, job, todo, overlapped>>
    BY <1>0, <2>2, FrameLeased
  <2>3. CASE Connect(p)
    BY <2>1, <2>3, UnusedFacts DEF Connect, Calling
  <2>4. CASE Receive(p)
    <3>1. asked[p] \in Requests
      BY <1>0, <2>4, AskedTyped DEF Receive
    <3>2. CASE \E s \in {"start", "error"} : Return(p, s)
      BY <2>2, <3>2 DEF Return, history
    <3> QED BY <2>1, <2>4, <3>1, <3>2 DEF Receive, Continue, Calling
  <2>5. CASE Verify(p) \/ Disconnect(p) \/ Reset(p) \/ GiveUp(p)
    BY <2>2, <2>5 DEF Verify, Disconnect, Reset, GiveUp, api, history
  <2> QED BY <1>1, <2>3, <2>4, <2>5 DEF User, Helper
<1>2. ASSUME NEW r \in Requests, HandleRequest(r)
      PROVE  PeerInv'
  BY <1>0, <1>2, HandleFrames, CreateLeased, UpsertLeased, ResetLeased
     DEF HandleRequest, Api!Handle
<1>3. CASE Crash \/ PeersLost
  <2>1. /\ UNCHANGED <<devices, overlapped>>
        /\ peers' = peers \/ \A k \in Keys : peers'[k] = None
        /\ \A x \in Requests :
              pc'[x] = "idle" \/ (pc'[x] = pc[x] /\ job'[x] = job[x] /\ todo'[x] = todo[x])
    BY <1>3 DEF Crash, PeersLost, Api!Crash, Api!PeersLost, history
  <2> QED BY <1>0, <2>1, FrameLeased
<1>4. ASSUME NEW r \in Requests, Cancel(r)
      PROVE  PeerInv'
  <2>1. HandleFrame(r) /\ pc'[r] = "idle" /\ UNCHANGED <<devices, peers>>
    BY <1>0, <1>4, CancelFrames
  <2> QED BY <1>0, <2>1, FrameLeased DEF HandleFrame
<1>5. CASE UNCHANGED vars
  BY <1>0, <1>5, FrameLeased DEF vars, api, history
<1> QED BY <1>1, <1>2, <1>3, <1>4, <1>5 DEF Next

\* The database and the kernel agree on every address that is served, although
\* nothing but the helpers keeps the requests of an account apart, and through
\* every answer that is lost, request that dies and restart.
THEOREM SystemPeersAreLeased == Spec => []PeersHaveLeases
<1>1. Init => PeerInv
  <2>1. Init => ResetCovers /\ Api!PeerHasLease
    BY AddressFacts DEF Init, Api!Init, ResetCovers, Api!PeerHasLease, Api!Serves
  <2> QED BY <2>1, ProfileInit DEF PeerInv, Leased
<1>2. PeerInv => PeersHaveLeases
  BY DEF PeerInv, Leased, PeersHaveLeases
<1> QED BY <1>1, <1>2, LeasedNext, PTL DEF Spec

==============================================================================
