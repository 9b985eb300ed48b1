--------------------------- MODULE TunnelController ---------------------------
(***************************************************************************)
(* The helper service's TunnelController: the one object that owns the     *)
(* WireGuard tunnel of a PC.  Its connect, disconnect and reset run under  *)
(* the service mutex, so one operation is in progress at a time, but each  *)
(* is a long chain of commands, file writes and network calls, any of      *)
(* which may fail, and the process may be stopped between any two of them. *)
(* A step of the model is one such call.                                   *)
(*                                                                         *)
(* Not part of src/ and modelled from how the controller uses it: the      *)
(* WireGuard tunnel service, the route table and the account's profile at  *)
(* the backend (tunnel, via, service, route, provisioned).                 *)
(***************************************************************************)
EXTENDS Naturals, FiniteSets

CONSTANTS
    Keys,       \* client key pairs, a private key and its public key as one value
    Endpoints,  \* IPv4 addresses the WireGuard endpoint may resolve to
    None,       \* no file, no tunnel, no route, no value
    Blank,      \* a file that exists and is empty
    Faults,     \* the kinds of failure that can happen in this instance
    MaxFaults   \* how many of them can happen in one behavior

FaultKinds ==
    {"createDir", "readKey", "writeKey", "tornWrite", "deleteKey", "backend", "conflict",
     "uninstall", "deleteRoute", "deleteMarker", "deleteConf", "dns", "addRoute",
     "writeMarker", "writeConf", "install", "activation", "query", "publicIp", "internet",
     "crash", "reboot", "moved", "tunnelDown", "evict", "foreign"}

\* Those that leave something behind that a later operation does not put right.
Lasting ==
    {"uninstall", "deleteRoute", "deleteMarker", "writeMarker", "crash", "reboot",
     "moved", "tunnelDown", "evict"}

ASSUME ConstantsAssumption ==
    /\ None # Blank
    /\ {None, Blank} \cap (Keys \cup Endpoints) = {}
    /\ None \notin {"pvn", "foreign"}
    /\ Keys \cap Endpoints = {}
    /\ Endpoints # {}
    /\ Faults \subseteq FaultKinds
    /\ MaxFaults \in Nat

VARIABLES
    state, lastError,       \* ServiceStatus: state and last_error, empty or not
    op, pc,                 \* operation in progress and its next step
    key, ep,                \* its locals: private key in use, endpoint address
    keyFile, conf, marker,  \* client-private.key, pvn-v2.conf, endpoint-route.txt
    tunnel, via, service,   \* key and endpoint of the installed tunnel, its service
    route,                  \* owner of the /32 host route to each endpoint address
    provisioned,            \* key the backend holds this PC's profile for
    faults,                 \* number of failures so far, at most MaxFaults
    happened                \* the lasting ones among them

status == <<state, lastError>>
locals == <<key, ep>>
disk   == <<keyFile, conf, marker>>
os     == <<tunnel, via, service, route>>
vars   == <<status, op, pc, locals, disk, os, provisioned, faults, happened>>

States == {"off", "connecting", "on", "disconnecting", "error"}
Ops    == {"none", "connect", "giveUp", "disconnect", "reset"}
Steps  == {"idle", "load", "fetch", "resetBackend", "rekey", "refetch", "store", "uninstall",
           "unroute", "unmark", "unconf", "resolve", "route", "mark", "conf", "install",
           "wait", "verifyIp", "verifyInternet", "verifyTunnel", "verifyBaseline", "forget"}

TypeOK ==
    /\ state \in States /\ lastError \in {"empty", "set"}
    /\ op \in Ops /\ pc \in Steps
    /\ key \in Keys \cup {None} /\ ep \in Endpoints \cup {None}
    /\ keyFile \in Keys \cup {None, Blank}
    /\ conf \in Keys \cup {None, Blank}
    /\ marker \in Endpoints \cup {None, Blank}
    /\ tunnel \in Keys \cup {None} /\ via \in Endpoints \cup {None}
    /\ service \in {"stopped", "running"}
    /\ route \in [Endpoints -> {None, "pvn", "foreign"}]
    /\ provisioned \in Keys \cup {None}
    /\ faults \in 0..MaxFaults /\ happened \subseteq Lasting

-----------------------------------------------------------------------------
(* Building blocks.                                                        *)

\* A failure of kind f happens in this step.
Fault(f) ==
    /\ f \in Faults /\ faults < MaxFaults /\ faults' = faults + 1
    /\ happened' = happened \cup ({f} \cap Lasting)
NoFault == UNCHANGED <<faults, happened>>

\* The operation goes on with step s.
Goto(s) == pc' = s /\ UNCHANGED <<status, op>>

\* The operation returns; handle_client records the error of one that failed.
Return(s, err) ==
    /\ state' = s /\ lastError' = err
    /\ pc' = "idle" /\ op' = "none"
    /\ key' = None /\ ep' = None

\* (mutant: handle_client does not record the error)
UnrecordedBail == Return(state, "empty")

\* An error passed on by `?`: whatever the status was, it stays.
Bail == Return(state, "set")

\* (mutant: a state that ServiceStatus does not have)
UnknownFail == Return("failed", "set")

\* An error that went through fail(), or its inlined form.
Fail == Return("error", "set")

\* connect gives up on an installed tunnel: `let _ = self.cleanup()`, then the error.
GiveUp == op' = "giveUp" /\ pc' = "uninstall" /\ UNCHANGED <<status, locals>>

\* A random private key is none of those in use anywhere.
FreshKeys == Keys \ {keyFile, conf, tunnel, provisioned, key}

\* The tunnel carries traffic: it runs, the server knows its key, and the
\* handshakes to the server do not go into the tunnel itself.
Working ==
    /\ service = "running"
    /\ tunnel # None /\ tunnel = provisioned
    /\ via # None /\ route[via] # None

\* Name resolution and web traffic get out: no tunnel captures them, or it works.
Online == service = "running" => Working

\* The API has the address of the endpoint: its host route leads around the tunnel.
Reachable == service = "running" => via # None /\ route[via] # None

-----------------------------------------------------------------------------
Init ==
    /\ state = "off" /\ lastError = "empty"
    /\ op = "none" /\ pc = "idle"
    /\ key = None /\ ep = None
    /\ keyFile = None /\ conf = None /\ marker = None
    /\ tunnel = None /\ via = None /\ service = "stopped"
    /\ route = [e \in Endpoints |-> None]
    /\ provisioned = None
    /\ faults = 0 /\ happened = {}

-----------------------------------------------------------------------------
(* POST /connect, /disconnect and /reset take the mutex.                   *)

Begin(o, s, first) ==
    /\ pc = "idle"
    /\ state' = s /\ lastError' = "empty" /\ op' = o /\ pc' = first
    /\ NoFault /\ UNCHANGED <<locals, disk, os, provisioned>>

Connect    == Begin("connect", "connecting", "load")
Disconnect == Begin("disconnect", "disconnecting", "uninstall")

\* (mutant: reset says that it disconnects)
ResetAsDisconnect == Begin("reset", "disconnecting", "uninstall")

Reset == Begin("reset", state, "uninstall")

-----------------------------------------------------------------------------
(* connect, first part: the private key and the profile.                   *)

\* create_dir_all, then read the key file or go on to create one.
LoadPrivateKey ==
    /\ pc = "load"
    /\ \/ /\ keyFile \in Keys
          /\ Goto("fetch") /\ key' = keyFile /\ ep' = ep /\ NoFault
       \/ /\ keyFile = None
          /\ Goto("store") /\ NoFault /\ UNCHANGED locals
       \/ Bail /\ keyFile = Blank /\ NoFault    \* "private key must decode to 32 bytes"
       \/ Bail /\ Fault("createDir")
       \/ Bail /\ keyFile # None /\ Fault("readKey")
    /\ UNCHANGED <<disk, os, provisioned>>

\* fs::write truncates the file before it writes, so a failure leaves it Blank.
ReplacePrivateKey(here, next) ==
    /\ pc = here
    /\ \/ \E k \in FreshKeys :
             /\ keyFile' = k /\ key' = k /\ ep' = ep
             /\ Goto(next) /\ NoFault
       \/ /\ Fault("writeKey") /\ keyFile' \in {keyFile, Blank}
          /\ Bail
    /\ UNCHANGED <<conf, marker, os, provisioned>>

\* (mutant: the 409 is an error like any other)
FetchConfigOnce(here, conflict) ==
    /\ pc = here
    /\ \/ /\ Reachable /\ provisioned \in {None, key}
          /\ provisioned' = key
          /\ Goto("uninstall") /\ NoFault /\ UNCHANGED locals
       \/ /\ Reachable /\ provisioned \notin {None, key} /\ provisioned' = provisioned
          /\ Fail /\ NoFault
    /\ UNCHANGED <<disk, os>>

\* POST /api/devices.  Only the first 409 leads to the reset of the profile.
FetchConfig(here, conflict) ==
    /\ pc = here
    /\ \/ /\ Reachable /\ provisioned \in {None, key}
          /\ provisioned' = key
          /\ Goto("uninstall") /\ NoFault /\ UNCHANGED locals
       \/ /\ Reachable /\ provisioned' = provisioned
          /\ IF provisioned \in {None, key} THEN Fault("conflict") ELSE NoFault
          /\ conflict
       \/ /\ Fail
          /\ \/ ~Online /\ NoFault /\ provisioned' = provisioned
             \/ Fault("backend") /\ provisioned' \in {provisioned, key}
    /\ UNCHANGED <<disk, os>>

\* (mutant: the answer to the reset is not looked at)
ResetBackendDeviceUnchecked ==
    /\ pc = "resetBackend"
    /\ \/ provisioned' = None /\ NoFault
       \/ provisioned' = provisioned /\ Fault("backend")
    /\ Goto("rekey") /\ UNCHANGED <<locals, disk, os>>

\* POST /api/devices/reset.
ResetBackendDevice ==
    /\ pc = "resetBackend"
    /\ \/ /\ Reachable /\ provisioned' = None
          /\ Goto("rekey") /\ NoFault /\ UNCHANGED locals
       \/ /\ Fail
          /\ \/ ~Online /\ NoFault /\ provisioned' = provisioned
             \/ Fault("backend") /\ provisioned' \in {provisioned, None}
    /\ UNCHANGED <<disk, os>>

-----------------------------------------------------------------------------
(* cleanup, shared by the three operations.                                *)

UninstallTunnel ==
    /\ pc = "uninstall"
    /\ \/ tunnel' = None /\ via' = None /\ service' = "stopped" /\ NoFault
       \/ Fault("uninstall") /\ UNCHANGED <<tunnel, via, service>>
    /\ Goto(IF marker = None THEN "unconf" ELSE "unroute")
    /\ UNCHANGED <<locals, disk, route, provisioned>>

\* route.exe DELETE takes the address only: it deletes whoever's route is there.
RoutesWithout(ip) == [e \in Endpoints |-> IF e = ip THEN None ELSE route[e]]

DeleteEndpointRoute ==
    /\ pc = "unroute"
    /\ \/ route' = RoutesWithout(marker) /\ NoFault
       \/ Fault("deleteRoute") /\ route' = route
    /\ Goto("unmark")
    /\ UNCHANGED <<locals, disk, tunnel, via, service, provisioned>>

RemoveMarker ==
    /\ pc = "unmark"
    /\ \/ marker' = None /\ NoFault
       \/ Fault("deleteMarker") /\ marker' = marker
    /\ Goto("unconf")
    /\ UNCHANGED <<locals, keyFile, conf, os, provisioned>>

\* Where an operation goes on after its cleanup.
AfterCleanup ==
    \/ op = "giveUp" /\ Fail
    \/ op = "connect" /\ Goto("resolve") /\ UNCHANGED locals
    \/ op = "disconnect" /\ Goto("verifyTunnel") /\ UNCHANGED locals
    \/ op = "reset" /\ Goto("forget") /\ UNCHANGED locals

\* (mutant: the error of remove_file is ignored)
RemoveConfigIgnoringErrors ==
    /\ pc = "unconf"
    /\ \/ conf' = None /\ NoFault
       \/ conf' = conf /\ Fault("deleteConf")
    /\ AfterCleanup /\ UNCHANGED <<keyFile, marker, os, provisioned>>

RemoveConfig ==
    /\ pc = "unconf"
    /\ \/ conf' = None /\ NoFault /\ AfterCleanup
       \/ /\ conf # None /\ Fault("deleteConf") /\ conf' = conf
          /\ IF op = "giveUp" THEN Fail ELSE Bail
    /\ UNCHANGED <<keyFile, marker, os, provisioned>>

-----------------------------------------------------------------------------
(* connect, second part: route, tunnel and verification.                   *)

ResolveEndpoint ==
    /\ pc = "resolve"
    /\ \/ \E e \in Endpoints :
             Online /\ ep' = e /\ key' = key /\ Goto("route") /\ NoFault
       \/ Fail /\ (IF Online THEN Fault("dns") ELSE NoFault)
    /\ UNCHANGED <<disk, os, provisioned>>

\* (mutant: a failure to add the route is ignored)
EnsureEndpointRouteBestEffort ==
    /\ pc = "route"
    /\ \/ route[ep] = None /\ route' = [route EXCEPT ![ep] = "pvn"] /\ NoFault
       \/ route' = route /\ (IF route[ep] = None THEN Fault("addRoute") ELSE NoFault)
    /\ Goto(IF route' = route THEN "conf" ELSE "mark")
    /\ UNCHANGED <<locals, disk, tunnel, via, service, provisioned>>

\* (mutant: the route is taken for PVN's own whoever created it)
EnsureEndpointRouteTakeOver ==
    /\ pc = "route"
    /\ route' = [route EXCEPT ![ep] = IF @ = None THEN "pvn" ELSE @]
    /\ Goto("mark") /\ NoFault /\ UNCHANGED <<locals, disk, tunnel, via, service, provisioned>>

\* The script of add_endpoint_route_script and what it prints.
AddEndpointRoute(ip, printed) ==
    \/ printed = "EXISTS" /\ route[ip] # None /\ route' = route /\ NoFault
    \/ printed = "CREATED" /\ route[ip] = None /\ route' = [route EXCEPT ![ip] = "pvn"] /\ NoFault
    \/ printed = "error" /\ route' = route /\ Fault("addRoute")

EnsureEndpointRoute ==
    /\ pc = "route"
    /\ \/ AddEndpointRoute(ep, "EXISTS") /\ Goto("conf") /\ UNCHANGED locals
       \/ AddEndpointRoute(ep, "CREATED") /\ Goto("mark") /\ UNCHANGED locals
       \/ AddEndpointRoute(ep, "error") /\ Fail
    /\ UNCHANGED <<disk, tunnel, via, service, provisioned>>

\* (mutant: a marker that exists is not written again)
RecordFirstRoute ==
    /\ pc = "mark"
    /\ marker' = IF marker = None THEN ep ELSE marker
    /\ Goto("conf") /\ NoFault /\ UNCHANGED <<locals, keyFile, conf, os, provisioned>>

RecordRoute ==
    /\ pc = "mark"
    /\ \/ marker' = ep /\ Goto("conf") /\ NoFault /\ UNCHANGED locals
       \/ Fault("writeMarker") /\ marker' \in {marker, Blank} /\ Fail
    /\ UNCHANGED <<keyFile, conf, os, provisioned>>

WriteConfig ==
    /\ pc = "conf"
    /\ \/ conf' = key /\ Goto("install") /\ NoFault /\ UNCHANGED locals
       \/ Fault("writeConf") /\ conf' \in {conf, Blank} /\ Bail
    /\ UNCHANGED <<keyFile, marker, os, provisioned>>

\* The configuration names the endpoint by its host name: WireGuard resolves it
\* for itself, and the answer need not be the last one.
WireGuardResolves(last) ==
    \E e \in Endpoints : via' = e /\ (IF e = last THEN NoFault ELSE Fault("moved"))

\* wireguard.exe refuses to install over a tunnel that runs.
InstallTunnel ==
    /\ pc = "install"
    /\ \/ /\ service = "stopped" /\ tunnel' = conf /\ WireGuardResolves(ep)
          /\ Goto("wait") /\ UNCHANGED locals
       \/ /\ IF service = "running" THEN NoFault ELSE Fault("install")
          /\ Bail /\ UNCHANGED <<tunnel, via>>
    /\ UNCHANGED <<disk, service, route, provisioned>>

WaitForTunnelActive ==
    /\ pc = "wait"
    /\ \/ service = "running" /\ Goto("verifyIp") /\ NoFault /\ UNCHANGED locals
       \/ Fault("activation") /\ GiveUp
    /\ UNCHANGED <<disk, os, provisioned>>

\* Through a working tunnel the public address is the server's, and only then.
VerifyPublicIp ==
    /\ pc = "verifyIp"
    /\ \/ Working /\ Goto("verifyInternet") /\ NoFault /\ UNCHANGED locals
       \/ (IF Working THEN Fault("publicIp") ELSE NoFault) /\ GiveUp
    /\ UNCHANGED <<disk, os, provisioned>>

VerifyInternet ==
    /\ pc = "verifyInternet"
    /\ \/ Online /\ Return("on", lastError) /\ NoFault
       \/ (IF Online THEN Fault("internet") ELSE NoFault) /\ GiveUp
    /\ UNCHANGED <<disk, os, provisioned>>

-----------------------------------------------------------------------------
(* disconnect and reset after their cleanup.                               *)

VerifyTunnelGone ==
    /\ pc = "verifyTunnel"
    /\ \/ \* a failed sc.exe means "not active"
          /\ IF service = "running" THEN Fault("query") ELSE NoFault
          /\ Goto("verifyBaseline") /\ UNCHANGED locals
       \/ service = "running" /\ Fail /\ NoFault
    /\ UNCHANGED <<disk, os, provisioned>>

VerifyBaseline ==
    /\ pc = "verifyBaseline"
    /\ \/ service = "stopped" /\ Return("off", lastError) /\ NoFault
       \/ Bail /\ (IF Online THEN Fault("publicIp") ELSE NoFault)
       \/ Fail /\ Online /\ (IF service = "running" THEN NoFault ELSE Fault("internet"))
    /\ UNCHANGED <<disk, os, provisioned>>

ForgetKey ==
    /\ pc = "forget"
    /\ \/ keyFile' = None /\ Return("off", lastError) /\ NoFault
       \/ /\ keyFile # None /\ Fault("deleteKey") /\ keyFile' = keyFile
          /\ Bail
    /\ UNCHANGED <<conf, marker, os, provisioned>>

-----------------------------------------------------------------------------
(* The process and its surroundings.                                       *)

\* The file that the current step writes.
Torn(s, file) ==
    IF pc \in s /\ "tornWrite" \in Faults THEN {file, Blank} ELSE {file}

\* The service stops or dies in the middle of whatever it does, and new()
\* starts over: the stop handler does not wait for the request in progress.
ProcessRestart ==
    /\ Return("off", "empty")
    /\ keyFile' \in Torn({"store", "rekey"}, keyFile)
    /\ conf' \in Torn({"conf"}, conf)
    /\ marker' \in Torn({"mark"}, marker)
    /\ UNCHANGED provisioned

Restart == Fault("crash") /\ ProcessRestart /\ UNCHANGED os

\* Host routes are not persistent; the tunnel service starts again by itself.
Reboot ==
    /\ Fault("reboot") /\ ProcessRestart
    /\ service' = "stopped" /\ UNCHANGED <<tunnel, via>>
    /\ route' = [e \in Endpoints |-> IF route[e] = "pvn" THEN None ELSE route[e]]

TunnelUp ==
    /\ tunnel # None /\ service = "stopped" /\ service' = "running"
    /\ WireGuardResolves(via)
    /\ UNCHANGED <<status, op, pc, locals, disk, tunnel, route, provisioned>>

TunnelDown ==
    /\ service = "running" /\ Fault("tunnelDown") /\ service' = "stopped"
    /\ UNCHANGED <<status, op, pc, locals, disk, tunnel, via, route, provisioned>>

\* Another PC of the account takes the profile over.
Evict ==
    /\ provisioned # None /\ Fault("evict") /\ provisioned' = None
    /\ UNCHANGED <<status, op, pc, locals, disk, os>>

\* The user, or another program, adds a host route to the endpoint.
ForeignRoute ==
    /\ \E e \in Endpoints : route[e] = None /\ route' = [route EXCEPT ![e] = "foreign"]
    /\ Fault("foreign")
    /\ UNCHANGED <<status, op, pc, locals, disk, tunnel, via, service, provisioned>>

-----------------------------------------------------------------------------
User == Connect \/ Disconnect \/ Reset

Provision ==
    \/ LoadPrivateKey
    \/ ReplacePrivateKey("store", "fetch")
    \/ FetchConfig("fetch", Goto("resetBackend") /\ UNCHANGED locals)
    \/ ResetBackendDevice
    \/ ReplacePrivateKey("rekey", "refetch")
    \/ FetchConfig("refetch", Fail)

Cleanup == UninstallTunnel \/ DeleteEndpointRoute \/ RemoveMarker \/ RemoveConfig

BringUp ==
    \/ ResolveEndpoint \/ EnsureEndpointRoute \/ RecordRoute \/ WriteConfig
    \/ InstallTunnel \/ WaitForTunnelActive \/ VerifyPublicIp \/ VerifyInternet

TearDown == VerifyTunnelGone \/ VerifyBaseline \/ ForgetKey

Step == Provision \/ Cleanup \/ BringUp \/ TearDown

Environment == Restart \/ Reboot \/ TunnelUp \/ TunnelDown \/ Evict \/ ForeignRoute

Next == User \/ Step \/ Environment

Spec == Init /\ [][Next]_vars

\* Every call the controller makes returns (curl, the HTTP client and the wait
\* have timeouts), Windows starts an installed tunnel, and a client that wants
\* the VPN keeps sending both requests.
FairSpec ==
    /\ Spec
    /\ WF_vars(Step) /\ WF_vars(TunnelUp)
    /\ SF_vars(Connect) /\ SF_vars(Disconnect)

(* Properties.  Some hold until a failure of certain kinds has happened.    *)

Idle == pc = "idle"
Without(kinds) == happened \cap kinds = {}

\* When the helper reports On without an error, traffic goes through a tunnel
\* that carries the current key, and it stays so while the surroundings stay:
\* no failed write, lost file, restart or refused call on the way to On can
\* leave it on top of an old tunnel or of a profile the server does not know.
OnMeansWorking ==
    Without({"tunnelDown", "evict"}) =>
        (Idle /\ state = "on" /\ lastError = "empty" =>
            Working /\ keyFile = tunnel /\ conf = tunnel)

\* The handshake of an installed tunnel is never captured by the tunnel itself:
\* there is a host route to the address that WireGuard sends it to (ADR-001).
EndpointRouted == tunnel # None => route[via] # None

\* It is so for as long as the host name gives WireGuard the address it gave the
\* helper: the route is there before the tunnel and until the tunnel is gone.
TunnelHasEndpointRoute == Without({"uninstall", "reboot", "moved"}) => EndpointRouted

\* A host route that PVN created is on record in the marker file, so that a
\* later cleanup finds it, whichever operation failed in between.
OwnRouteRecorded ==
    Without({"crash", "deleteRoute", "writeMarker"}) =>
        \A e \in Endpoints :
            route[e] = "pvn" => marker = e \/ (pc = "mark" /\ ep = e)

\* Off after a disconnect or a reset means that nothing of the tunnel is left:
\* no tunnel, no configuration and none of PVN's routes.
OffMeansClean ==
    Without({"crash", "reboot", "uninstall", "deleteRoute", "writeMarker"}) =>
        (Idle /\ state = "off" =>
            tunnel = None /\ conf = None /\ \A e \in Endpoints : route[e] # "pvn")

\* An operation that ends early leaves "connecting" or "disconnecting" behind;
\* then at least last_error says why, so the status is never a mute spinner.
StuckIsVisible ==
    Idle /\ state \in {"connecting", "disconnecting"} => lastError = "set"

KeepsForeignRoutes ==
    \A e \in Endpoints : route[e] = "foreign" => route'[e] = "foreign"

\* Cleanup removes only routes that PVN created (ADR-001).
CleanupKeepsForeignRoutes == [][KeepsForeignRoutes]_vars

\* It does so for as long as the marker file went with its route: no cleanup
\* was cut short, and no restart of Windows took the route away.
ForeignRoutesKept ==
    [][Without({"crash", "reboot", "deleteMarker"}) => KeepsForeignRoutes]_vars

\* connect gives a key up only after the backend let go of it: otherwise a
\* profile would be left that nobody holds the private key of.
KeyGivenUpAfterProfile ==
    [][op = "connect" /\ keyFile \in Keys /\ keyFile' # keyFile => provisioned # keyFile]_vars

\* To the threads that call it the controller is what ControllerPromise says:
\* whatever fails, an operation ends in one of the states promised for it, On
\* only with the tunnel installed, and only connect installs.
Promise == INSTANCE ControllerPromise WITH
    Unmarked <- {"connect", "disconnect"},
    op <- IF op = "giveUp" THEN "connect" ELSE op,
    installed <- tunnel # None
ImplementsPromise == Promise!Spec

\* However the previous attempts ended, GO and STOP get the VPN on again.
ReconnectWorks == []<>(Idle /\ state = "on" /\ Working)

==============================================================================
