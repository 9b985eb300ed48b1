------------------------------ MODULE PvnSystem ------------------------------
(***************************************************************************)
(* Several PCs and the control API.  Each PC is the helper as the API sees *)
(* it: the requests of a connect, in their order, and what is done with    *)
(* the answers.  The API is ControlApi, request by request.  PCs may share *)
(* an account, as they do with MVP_NO_LOGIN; all helpers use one device    *)
(* name, so that an account has one device and the last PC to come evicts  *)
(* the others.                                                             *)
(***************************************************************************)
EXTENDS Integers, FiniteSets

CONSTANTS
    PCs, Users, Keys, Requests,
    Accounts,       \* the users that the PCs can be for the API
    Name,           \* "Windows PC", the name of every device
    Addresses,      \* see ControlApi
    None,           \* no value
    Faults,         \* failures of the API, "giveUp" and "reset" by hand, as far as
                    \* they can happen in this instance
    MaxFaults       \* how many of them can happen in one behavior

ASSUME SystemAssumption ==
    /\ None \notin 2..253 /\ None \notin Users \cup Keys \cup Requests \cup {Name}
    /\ Accounts \subseteq [PCs -> Users]
    /\ Addresses \subseteq 2..253
    /\ MaxFaults \in Nat

VARIABLES
    devices, peers, pc, job, todo, answer, faults,  \* see ControlApi
    account,    \* the user that a PC is for the API
    key,        \* client-private.key
    config,     \* the address in pvn-v2.conf
    step,       \* where connect is, or how it ended
    asked,      \* the request that the helper waits for
    evicted,    \* PCs whose profile was dropped since they asked for it
    overlapped, \* whether two requests of an account were ever in flight together
    abandoned   \* whether a helper has ever given up a request

api     == <<devices, peers, pc, job, todo, answer>>
history == <<evicted, overlapped, abandoned>>
vars    == <<api, faults, account, key, config, step, asked, history>>

\* A peer without an address is as good as none.  The history that ControlApi
\* keeps of its requests is not needed here, beside "overlapped".
Api == INSTANCE ControlApi WITH Names <- {Name}, NoAddress <- None, crossed <- {}

Calling == {"fetch", "reset", "refetch"}
Steps   == Calling \cup {"off", "start", "on", "error"}

TypeOK ==
    /\ account \in [PCs -> Users] /\ key \in [PCs -> Keys \cup {None}]
    /\ config \in [PCs -> Addresses \cup {None}]
    /\ step \in [PCs -> Steps] /\ asked \in [PCs -> Requests \cup {None}]
    /\ \A p \in PCs : (asked[p] # None <=> step[p] \in Calling)
    /\ \A p \in PCs : step[p] \in Calling \cup {"start", "on"} => key[p] # None
    /\ evicted \subseteq PCs /\ overlapped \in {"no", "yes"} /\ abandoned \in {"no", "yes"}

Init ==
    /\ Api!Init
    /\ account \in Accounts
    /\ key = [p \in PCs |-> None] /\ config = [p \in PCs |-> None]
    /\ step = [p \in PCs |-> "off"] /\ asked = [p \in PCs |-> None]
    /\ evicted = {} /\ overlapped = "no" /\ abandoned = "no"

-----------------------------------------------------------------------------
Fault(f) == f \in Faults /\ faults < MaxFaults /\ faults' = faults + 1
NoFault  == faults' = faults

\* What the web checks see: the server takes packets from this key and address.
Served(p) == key[p] # None /\ config[p] # None /\ peers[key[p]] = config[p]

Others(p) == {q \in PCs \ {p} : account[q] = account[p]}

\* Requests of user u are in flight.
Busy(u) == \E r \in Requests : pc[r] # "idle" /\ job[r].user = u

\* Keys that nobody has, and that no profile and no request is about.
Fresh == {k \in Keys :
    /\ \A p \in PCs : key[p] # k
    /\ Api!ByKey(k) = {} /\ peers[k] = None
    /\ \A r \in Requests : job[r].key # k /\ k \notin todo[r]}

\* Requests that are neither running nor waited for.
Unused == {r \in Requests : pc[r] = "idle" /\ \A p \in PCs : asked[p] # r}

\* Which of them it is makes no difference.
NewKey(p) == Fresh # {} /\ key' = [key EXCEPT ![p] = CHOOSE k \in Fresh : TRUE]

Goto(p, s) == step' = [step EXCEPT ![p] = s]

-----------------------------------------------------------------------------
(* The helper of a PC.  What it does between an answer and the next        *)
(* request, nobody else can see.                                           *)

Ask(p, r, s) ==
    /\ asked' = [asked EXCEPT ![p] = r] /\ Goto(p, s)
    /\ overlapped' = IF Busy(account[p]) THEN "yes" ELSE overlapped
    /\ abandoned' = abandoned

\* fetch_config, up to the answer
PostDevice(p, r, s) ==
    /\ Ask(p, r, s) /\ Api!PostDevice(r, account[p], Name, key'[p])
    /\ evicted' = evicted \ {p}

\* reset_backend_device, up to the answer
PostReset(p, r, s) ==
    /\ Ask(p, r, s) /\ Api!PostReset(r, account[p])
    /\ evicted' = evicted \cup Others(p)

\* connect, with load_or_create_private_key
Connect(p) ==
    /\ step[p] \in {"off", "error"} /\ Unused # {}
    /\ IF key[p] = None THEN NewKey(p) ELSE key' = key
    /\ PostDevice(p, CHOOSE r \in Unused : TRUE, "fetch")
    /\ UNCHANGED <<account, config>>

\* The helper has its last answer, and answer[r] is read.
Return(p, s) ==
    /\ asked' = [asked EXCEPT ![p] = None] /\ Goto(p, s)
    /\ answer' = [answer EXCEPT ![asked[p]] = 0]
    /\ key' = key /\ NoFault /\ UNCHANGED <<devices, peers, pc, job, todo, history>>

\* (mutant: a conflict is an error as any other)
ContinueWithoutReset(p, r, code) ==
    \/ step[p] = "fetch" /\ code = 201 /\ Return(p, "start")
    \/ step[p] = "fetch" /\ code # 201 /\ Return(p, "error")

\* A conflict leads to a reset, and that to a new key and a second try.
Continue(p, r, code) ==
    \/ step[p] = "fetch" /\ code = 409 /\ key' = key /\ PostReset(p, r, "reset")
    \/ step[p] = "reset" /\ code = 200 /\ NewKey(p) /\ PostDevice(p, r, "refetch")
    \/ step[p] \in {"fetch", "refetch"} /\ code = 201 /\ Return(p, "start")
    \/ step[p] = "fetch" /\ code \notin {201, 409} /\ Return(p, "error")
    \/ step[p] = "refetch" /\ code # 201 /\ Return(p, "error")
    \/ step[p] = "reset" /\ code # 200 /\ Return(p, "error")

\* The answer, or none because the API has stopped.
Receive(p) ==
    /\ asked[p] # None /\ pc[asked[p]] = "idle"
    /\ Continue(p, asked[p], answer[asked[p]])
    /\ UNCHANGED <<account, config>>

\* 20 s are over, or the connection is lost: the API goes on with the request,
\* at least for a while.
GiveUp(p) ==
    /\ asked[p] # None /\ Fault("giveUp")
    /\ asked' = [asked EXCEPT ![p] = None] /\ Goto(p, "error")
    /\ abandoned' = "yes" /\ UNCHANGED <<api, account, key, config, evicted, overlapped>>

\* The tunnel is installed and checked; one that carries nothing is removed.
Verify(p) ==
    /\ step[p] = "start"
    /\ IF Served(p) THEN Goto(p, "on") /\ config' = config
                    ELSE Goto(p, "error") /\ config' = [config EXCEPT ![p] = None]
    /\ NoFault /\ UNCHANGED <<api, account, key, asked, history>>

Disconnect(p) ==
    /\ step[p] = "on" /\ Goto(p, "off") /\ config' = [config EXCEPT ![p] = None]
    /\ NoFault /\ UNCHANGED <<api, account, key, asked, history>>

\* (mutant: without the mutex)
ResetAnyTime(p) ==
    /\ Goto(p, "off") /\ Fault("reset")
    /\ key' = [key EXCEPT ![p] = None] /\ config' = [config EXCEPT ![p] = None]
    /\ UNCHANGED <<api, account, asked, history>>

\* Under Advanced: the key is deleted, and the API does not hear of it.
Reset(p) ==
    /\ step[p] \in {"off", "error", "on"} /\ Goto(p, "off") /\ Fault("reset")
    /\ key' = [key EXCEPT ![p] = None] /\ config' = [config EXCEPT ![p] = None]
    /\ UNCHANGED <<api, account, asked, history>>

-----------------------------------------------------------------------------
(* The API.                                                                *)

\* A step of a request; a 201 brings its helper the address.
HandleRequest(r) ==
    /\ Api!Handle(r)
    /\ config' = [p \in PCs |->
          IF asked[p] = r /\ pc[r] = "sync" /\ answer'[r] = 201 THEN job[r].ip ELSE config[p]]
    /\ UNCHANGED <<account, key, step, asked, history>>

\* The server has noticed that nobody waits for r any more: its context is
\* cancelled, and the next call of the store or of wg fails.
Cancel(r) ==
    /\ pc[r] # "idle" /\ \A p \in PCs : asked[p] # r
    /\ Api!Answer(r, 0)
    /\ NoFault /\ UNCHANGED <<devices, peers, account, key, config, step, asked, history>>

Crash == Api!Crash /\ UNCHANGED <<account, key, config, step, asked, history>>

PeersLost ==
    /\ Api!PeersLost /\ evicted' = PCs
    /\ UNCHANGED <<account, key, config, step, asked, overlapped, abandoned>>

-----------------------------------------------------------------------------
User(p)   == Connect(p) \/ Disconnect(p) \/ Reset(p)
Helper(p) == Receive(p) \/ Verify(p)

Next ==
    \/ \E p \in PCs : User(p) \/ Helper(p) \/ GiveUp(p)
    \/ \E r \in Requests : HandleRequest(r) \/ Cancel(r)
    \/ Crash \/ PeersLost

Spec == Init /\ [][Next]_vars

\* Operations of helpers and handlers of the API run to their end.
FairSpec ==
    /\ Spec
    /\ \A p \in PCs : WF_vars(Helper(p))
    /\ \A r \in Requests : WF_vars(HandleRequest(r))

-----------------------------------------------------------------------------
(* Properties.                                                             *)

\* A PC that shows On is served by the VPS - On is never checked again - unless
\* another PC of its account has had the profiles dropped since, the interface
\* has lost its peers, or requests of an account have overlapped.
OnIsServed ==
    overlapped = "no" => \A p \in PCs : step[p] = "on" /\ p \notin evicted => Served(p)

\* The mutex of a helper and the order of the calls in connect keep the requests of
\* an account apart: it takes a second PC on the account, or a request that was
\* given up and still runs, to have two of them in flight.
OverlapHasCause ==
    overlapped = "yes" =>
        abandoned = "yes" \/ \E p, q \in PCs : p # q /\ account[p] = account[q]

\* Whatever PCs and API do, fail in and leave half done, the server takes packets
\* only under an address that the database leases to that key, as long as no
\* requests of one account have overlapped.
PeersHaveLeases == overlapped = "no" => Api!PeerHasLease

\* The user presses GO when the VPN is off, and STOP when it does not work.
WantsVpn(p) == WF_vars(Connect(p) \/ (~Served(p) /\ Disconnect(p)))

LeftAlone(p) == <>[](\A q \in Others(p) : step[q] \in {"off", "error", "on"})

\* Whatever has happened - evictions, peers lost, handlers that died, requests
\* given up that still run, a key thrown away - a PC whose user wants the VPN is
\* served again once the other PCs of its account are left as they are.
PeerComesBack ==
    \A p \in PCs : WantsVpn(p) /\ LeftAlone(p) => []<>(step[p] = "on" /\ Served(p))

==============================================================================
