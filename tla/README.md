# PVN v2: verification project

TLA+ models of PVN v2, a Windows VPN client with a helper service and a small
control API, checked with TLC and proved about with TLAPS. Source paths are
relative to the repository.

## 1. Inventory

| Component | Source | State | Operations | Talks to |
|---|---|---|---|---|
| Window (Tauri + React) | `apps/windows-ui` | last status, `busy`, last error | GO, STOP, reset, repair, status every 2.5 s | helper: HTTP on localhost, 120 s timeout |
| Helper service | `apps/windows-service/src/main.rs:556-752` | mutex around the controller, bearer token | one thread per connection, start, Stop | window; Windows service manager |
| Tunnel controller | `main.rs:147-485` | `ServiceStatus`; files `client-private.key`, `pvn-v2.conf`, `endpoint-route.txt` | connect, disconnect, reset | `wireguard.exe`, `route.exe`, `sc.exe`, control API, web checks |
| Control API, devices and peers | `services/api/internal/{httpapi,db,wg}` | table `devices`; WireGuard peers in the kernel | `POST /api/devices`, `POST /api/devices/reset`, queries | SQLite, kernel (wgctrl) |
| Address allocation | `db/store.go:339` | none, a function of the used addresses | `nextAssignedIP` | called by `CreateOrGetDevice` |
| Login and sessions | `db/store.go:111-209`, `httpapi/server.go:158` | tables `users`, `sessions` | login, check of a token, the MVP user | SQLite |
| Installation and repair | `apps/windows-ui/src-tauri/resources/*.ps1`, `windows/nsis-hooks.nsh` | token file, service registration | install, repair, uninstall | helper service |
| VPS scripts | `infra/vps` | `wg-pvn-v2.conf`, `api.env` | deploy, restart of the interface | API, kernel |
| Configuration, seed user, E2E script, release tooling | `services/api/internal/config`, `cmd/seed-user`, `scripts`, `release` | none | | |

What is hard in it:

* *Partial failure on the PC.* `connect` is a chain of about fifteen commands,
  file writes and network calls. Some errors go through `fail()` (state Error),
  some return through `?` and leave Connecting behind, some are ignored
  (`wireguard.exe /uninstalltunnelservice`, deletion of route and marker).
* *A process that stops in the middle.* Stop of the Windows service does not
  wait for the handler thread; what the operation did so far stays in files,
  route table and tunnel service, and `new()` starts over with Off.
* *Order.* The host route to the endpoint has to be there before the tunnel that
  takes the default route, and its marker has to be in step with it.
* *One name, two resolutions.* The helper resolves the endpoint's host name for the
  route; WireGuard resolves it again, from the configuration, for the tunnel.
* *Two owners of one fact.* The API keeps a lease in SQLite and a peer in the
  kernel. It changes one after the other, in handlers that run concurrently.
* *One account for all PCs.* `deploy-api.sh` sets `PVN_MVP_NO_LOGIN=true`:
  every PC uses the same user and, from the helper, the same device name. Nothing
  in the API keeps two requests of one user apart.
* *A secret in two places.* The token file is replaced by installs and repairs
  while the service holds the token it has read at its start; setup, Repair
  Helper, the uninstaller and the service itself can overlap and fail half-way.

What makes the parts correct:

* controller: On means a tunnel that carries traffic; Off means that nothing is
  left; no route is leaked and none of others is deleted; the handshake is never
  routed into the tunnel; no failure is silent; reconnecting works;
* API: no peer without a lease; 201 means lease and peer; nobody but its own
  user cuts a device off - each of them unless a create has crossed a reset of its
  own user; a lost peer comes back when its device is posted;
* allocation: the lowest free address of the subnet, or none;
* window and helper service: no two of GO and STOP pile up, a confirmed STOP is
  final, the window shows what is so, the buttons are never dead for good;
* installation and repair: what reports success leaves a service that accepts the
  token of the file, and the remedies bring a refused window back;
* several PCs: a PC that shows On is served until it is evicted, and gets back in;
* sessions: an expired or unknown token opens nothing.

## 2. Modules

| Module | What it is |
|---|---|
| `TunnelController` | the controller, step by step, with files, routes, tunnel and failures |
| `MCTunnelController` | its instances for TLC |
| `TunnelControllerProofs` | its theorems |
| `ControllerPromise` | what the controller promises to its callers; `TunnelController` implements it |
| `ControllerPromiseProofs` | the theorem that it does |
| `HelperService` | window, desktop process and helper threads around `ControllerPromise` |
| `MCHelperService` | its instances for TLC |
| `HelperServiceProofs` | its theorems |
| `HelperToken` | token file, service process, install script, setup, uninstaller and Repair Helper |
| `MCHelperToken` | its instances for TLC |
| `HelperTokenProofs` | its theorems |
| `AddressPool` | the subnet and its free addresses |
| `AddressScan` | `nextAssignedIP`, iteration by iteration |
| `AddressScanProofs` | its theorems |
| `ControlApi` | the handlers of the API as concurrent requests, database and peers |
| `MCControlApi` | its instances for TLC |
| `ControlApiProofs` | its theorems |
| `LeasePromise` | what the API promises about profiles; `ControlApi` implements it |
| `LeasePromiseProofs` | the theorem that it does |
| `PvnSystem` | the helpers of several PCs, composed with `ControlApi` |
| `MCPvnSystem` | its instances for TLC |
| `PvnSystemProofs` | its theorems |

How they are composed: `HelperService` instantiates `ControllerPromise`, which
`TunnelController` is shown to implement; `PvnSystem` instantiates `ControlApi`,
in which nothing keeps the requests of an account apart: there that is up to the
helpers; `ControlApi` and `AddressScan` share `AddressPool`; `ControlApi`
instantiates `LeasePromise`, under which it is shown to be correct.

### TunnelController

The mutex of `handle_client` lets one operation run at a time; `op` is the
operation, `pc` its next call. Each call that changes something, can fail or can
be interrupted is an action, named after the method or the call. `key` and `ep`
are the locals of `connect`: the private key in use and the resolved endpoint.

* `keyFile`, `conf`, `marker` are the three files. `conf` and the tunnel are
  represented by the key that they hold. `Blank` is the file that `fs::write`
  leaves when it has truncated it and fails.
* `tunnel`, `via`, `service` are the tunnel service: the key it was installed with,
  the endpoint address that WireGuard has for it, and whether it runs. The
  configuration holds the endpoint as the API gave it, in the deployment a host name
  (`deploy-api.sh:43`). The helper resolves it for the route (`ResolveEndpoint`, any
  address each time), WireGuard resolves it again when the tunnel is installed and
  each time its service starts (`WireGuardResolves`). The second answer being another
  one is the failure kind `moved`. `route` has an owner for the host
  route to each endpoint address (`pvn`, `foreign` or nobody). `provisioned` is
  the key the backend holds a profile for on behalf of this PC. These are
  external and modelled from what the controller expects of them.
* The return paths are kept apart: `Bail` (`?`, state unchanged), `Fail` (through
  `fail()` or its inlined form), `GiveUp` (cleanup first, its own error dropped),
  `Return`. `handle_client` stores the error text of the first two.
* `AddEndpointRoute` is the script of main.rs:487-499: a host route that is there
  already, whoever made it, is left alone and reported as EXISTS; otherwise
  `route.exe ADD`, whose failure is an error of connect, and CREATED. Only after
  CREATED is the marker written (main.rs:299). `RoutesWithout` is `route.exe
  DELETE`, whoever made the route.
* `Working` is what the web checks see: the tunnel runs, the server knows its
  key, and a host route leads around it. `Online` and `Reachable` say when names
  resolve and when the API answers; so a dead tunnel that is still installed gets
  in the way of the next `connect`, as it does on the PC.
* `Restart` (the process stops at any step, with torn files), `Reboot` (host
  routes are lost, the tunnel starts by itself), `TunnelDown`, `Evict` (another PC
  resets the shared account) and `ForeignRoute` are the surroundings.

Failures carry a kind; `Faults` says which kinds an instance has, `MaxFaults` how
many in a behavior. `happened` remembers those that leave something behind which
no later operation can put right (`Lasting`), so that a property can say "until
the process was killed between the two writes" and nothing weaker.

### ControllerPromise and HelperService

`ControllerPromise` has three variables: the state of the status, the operation
in progress, and whether the tunnel is installed. An operation ends in On, Off,
Error, or (`Unmarked`) with an error by `?` that leaves Connecting or
Disconnecting behind. `TunnelController` implements it with `op` mapped from
`op` (`giveUp` is still a connect) and `installed` from `tunnel # None`
(`ImplementsPromise`, checked and proved), so `HelperService` uses its actions
instead of the twenty steps behind them.

`HelperService` has three parts.

* The window (`main.tsx`): `shown` is `status.state`, `busy` and `error` are the
  hooks of the same name, `isWorking` is the condition that disables the button.
  `HandleAnswer` is what follows an `await invoke`: `Refreshes` its catch block,
  `StaysBusy` its finally. `Poll` is the timer.
* The desktop process (`src-tauri/src/main.rs`): `calls` are the commands that the
  window has invoked, in order, because Tauri runs commands that are not async on
  its main thread one after the other (external). `asked` is the connection that
  the first of them waits for, `answers` are the results that the window has not
  handled. `Timeout` gives up the request after 120 s, and only on this side.
  `BusyHasReason` relates it to the window: what keeps the button dead is queued here
  or has an answer waiting.
* The helper (`handle_client`): `thread[t]` is a connection, waiting for the mutex
  or running an operation, `job[t]` its command. The mutex is free if `op` is
  `none`; any waiting thread may take it, since the lock of Windows has no order.
  `Refuse` stands for every answer that the handler gives without an operation
  (unreadable request, 401, 400). `StopService` breaks all connections.

The buttons under Advanced are reset and diagnostics; Repair Helper, the third of
them, is in `HelperToken`. The diagnostics command sends three requests that change nothing; one stands for
all of them. `wish` is a history variable for the last click on the big button.

### ControlApi

A request is a goroutine with its own program counter `pc[r]`, its input and
results in `job[r]`, and the list a reset works on in `todo[r]`. A call of the
store is one step (SQLite, one connection, one transaction), a call of the
WireGuard manager is one step, and between them all other requests can go on.
`CreateOrGetDevice` keeps the order of its checks: the key, the address, the
uniqueness of the name; so a full subnet answers 400 before 409.

`Addresses` are the addresses that `nextAssignedIP` may return, the `Candidates` of
the configured subnet in `AddressPool`.

`peers` is the kernel's table, external: a key that gets an address takes it
away from the peer that had it. `PeersLost` is a restart of the interface, whose
configuration file lists no peers (`infra/vps/wireguard.sh`). `Crash` ends all
requests and keeps the rows.

Requests of one user overlap as those of different users do. `crossed` is a history
variable, set when a request arrives and read by no action: the keys whose create
was under way together with a reset of their own user, or whose row was there when a
second reset of the user began. The properties say what holds of all other keys, and
what still holds of these. `PeerHasLease` says it of all keys and is violated
(`api_shared_account`).

### LeasePromise

The API as a PC or an operator thinks of it: `leases`, the set of profiles; `served`,
the pairs of key and address that the server takes packets from; `creating` and
`resetting`, whose profiles are being asked for and taken away; `crossed`, the keys
for which both went on at once. There are no requests, lists or answers in it. A
profile is granted only to who has asked and without a conflict; only what is leased
is served; a reset cuts its own user's profiles off one by one and drops them when
none is served any more; a create or a reset that fails leaves what it has done; a
stop of the API loses nothing, and an outage of the interface loses peers and no
leases. For a crossed key this is weaker in three places: it can be served without
a lease (`Serve`), cut off without one (`Withdraw`), and its lease can go while it is
served (`Revoke`). A client that sends its requests one after the other crosses
nothing and gets the whole promise.

`ControlApi` implements it (`KeepsPromise`) with `leases` from `devices`, `served` from
the peers with an address, `creating` and `resetting` from the requests and their
steps. `CreateOrGetDevice` is a `Grant` or, for a key it knows, a stutter;
`UpsertPeer` is a `Serve`; `ResetDevices` is a `Revoke`, because the peers of all rows
that it deletes are gone or their keys crossed; errors are `AbandonCreate` and
`AbandonReset`.

### HelperToken

One PC, from an empty disk on. Variables: `file` is
`%ProgramData%\PVN v2\helper-token` (a token, `Missing`, or `Blank`, created and not
yet filled), `held` the copy that the running service compares requests with,
`service` what its process is at, `registered` its registration, `script[s]` the
next step or the outcome of each run of `install-helper-service.ps1`, `program` the
program files and the uninstaller, `window`, `sent` and `elevated` the progress of
`service_repair_helper`.

* Service: `EnsureToken` and `WriteToken` are `ensure_service_token`, with file
  creation and content in two steps; it runs after the service has reported
  Running. `Shutdown`, `StopService` and `Stopped` are the stop message and the end
  of the process.
* Script: `ResetToken` (only for Repair), `TestToken`, `SetContent`, `Examine`,
  `AwaitStop` (20 s), `Register`, `StartService`, `VerifyStatus`, in the order of the
  file; `Throw` is an error at any of them. `StopForUpgrade` comes first when setup
  runs it. The script looks at `/status`, which needs no token.
* Repair Helper: read the token and ask with it; only if that fails run the script
  elevated (the user may decline), wait for `/status`, ask again. The window may be
  closed at any point; a script that it has started goes on.
* Uninstaller: stop, wait, `sc.exe delete` by the script and `sc.exe delete` again by
  the hook, whatever the script did (nsis-hooks.nsh:84-92); a setup that overlaps can
  register the service in between.
* Surroundings: `Reboot`, `StartByHand`, and a user who applies a
  remedy while the helper refuses. What the user does beyond that, or while
  something else runs, counts as an extra (`MaxExtras`), and failures are bounded
  by `MaxFaults`.

### PvnSystem

A PC is the helper as the API sees it: `Connect` posts the device with the key of
`client-private.key`, `Continue` reacts to the answer as `connect` does (409: reset
the account, make a new key, post again; 201: install; anything else: error), and
`Verify` stands for installation and web checks, which succeed if the server takes
packets from this key and address (`Served`). `Disconnect` keeps the key; `Reset`
deletes it, and the API is not told. `GiveUp` is the 20 s timeout of the HTTP client:
the helper forgets the request, the API goes on with it, and at any later step the
request may end because its context is cancelled (`Cancel`; every call of the store
and of the WireGuard manager looks at it). `account` gives the PCs their
accounts: all one (the deployed state) or one each; all devices have one name.

`evicted` are the PCs whose profile another PC's reset, or the loss of all peers,
may have taken since they asked for it. `overlapped` remembers whether two requests
of one account were ever in flight together; that can happen between PCs of an
account, and between a request that was given up and the next one of the same PC;
`OverlapHasCause` says that nothing else brings it about, with `abandoned` remembering
whether a request was given up. `PeersHaveLeases` is `PeerHasLease` of the API in this
system, where the helpers are all that keeps requests apart.
Fresh keys and unused requests are picked by CHOOSE: the ones to choose from are
in no part of the state, so that which one is taken makes no difference.

### AddressPool and AddressScan

`AddressScan` is the loop of `nextAssignedIP` over the last octet, with the mask
that may cut the octet, one iteration a step; between two calls devices get the
address or give one back. `IsLowest(_, Free(...))` of `AddressPool` is what it
should find. That it does is proved, and so `ControlApi` uses the result
(`IsLowest(_, free)`, with `free` from `Addresses`) in its one step for the transaction. An address is its last octet, since all
candidates share the first three.

## 3. Runs

| Run | Checks | Instance |
|---|---|---|
| `helper_faults` | types, seven safety properties and `ImplementsPromise` | every kind of failure, four in a behavior, 3 keys, 2 endpoints |
| `helper_reconnect` | `ReconnectWorks` under fairness | two failures of any kind but a failed write of the key |
| `helper_blank_key` | violation of `ReconnectWorks` | one failed write of the key file |
| `helper_foreign_route` | violation of `CleanupKeepsForeignRoutes` | a crash and a foreign route |
| `window` | types, `OnePowerCall`, `StopIsFinal`, `ShowsHelperState`, `BusyHasReason`, `WindowCatchesUp`, `ButtonComesBack` | 2 connections, 2 commands under way, 2 of: lost request, timeout, stop of the service |
| `window_try_again` | violation of `TryAgainPossible` | no failure but those of the operation, no click under Advanced |
| `api_addresses` | types, `FindsLowestFree` | 8 prefix lengths, 2 bases, every subset of 5 octets free at first, then leased and released |
| `api_requests` | types, `UnleasedIsCrossed`, `CreatedIsServed`, `ServedUntilOwnReset`, `KeepsPromise` | 2 users, 2 names, 3 keys, 2 concurrent requests of any users, a subnet of 2 addresses, 1 failure |
| `api_peer_back` | types, `OnIsServed`, `OverlapHasCause`, `PeersHaveLeases`, and `PeerComesBack` under fairness | 2 PCs with one account or two, 4 keys, 2 requests, a subnet of 6 addresses, 1 failure of the API, timeout or reset by hand |
| `api_shared_account` | violation of `PeerHasLease` | 1 user, 2 concurrent requests, no failure |
| `helper_repair` | types, `TokenAgrees`, and `HelperComesBack` under fairness | 4 tokens, 2 runs of the script that may overlap, 2 extras, 2 failures |
| `helper_reinstall` | violation of `BlankTokenIsReplaced` | 1 run of the script at a time, no extra, 1 failure, a user who installs again |

Why the bounds are enough. Three keys are the key on disk, the one that the
backend may still hold and a fresh one; two endpoints let the address change
between two connects, so that marker and route can disagree. Four failures cover
every pair of independent ones in two consecutive operations. In the API two
requests are the smallest number that interleave, three keys and two addresses
make one device too many for the subnet, and two names let a user have two
devices. One failure in `api_requests` meets every state of the other request (it
passes with two as well, in twice the time). Symmetry is used for safety only. With two commands under way the window
can have one queued behind the one that runs, with two failures the request of
an operation and the refresh after it can both be lost. In `helper_repair` at most
three tokens are in use at once (file, service, window) and the fourth is the new
one; two runs of the script are the smallest number that overlap; two failures let
a repair fail that was to mend the first. Two PCs can evict each other; four
keys are the two in use, one that the API may still have a row for, and a new one;
with two requests one can be abandoned while the other runs. (With `MaxFaults = 2`
`api_peer_back` passes as well, liveness included, but takes four minutes.) What holds for every value of these
constants is proved (section 4).

Fairness. `helper_reconnect` assumes that a running operation takes its next step
(every command, HTTP call and wait of the controller ends, with a timeout or an
error), that Windows starts an installed tunnel service, and strong fairness of
`Connect` and `Disconnect`: a client that wants the VPN keeps sending both.
`window` assumes that the timer ticks, that the main threads of window and desktop
process run, that operations end, that a thread which finds the mutex free takes
it, and that the service, which is registered to start automatically, comes back.
Nothing is assumed of the user, and nothing of `Timeout` or `Refuse`.
`api_peer_back` assumes that the handlers of the API and the operations of a helper
run to their end. The user is not in the specification but in the property: for
a PC whose user presses GO whenever the VPN is off and STOP when it does not work
(`WantsVpn`), and whose account the other PCs leave as it is from some time on
(`LeftAlone`), On and served comes again and again.
`helper_repair` assumes that the service, the scripts and the repair command take
their steps, and that a user who is refused tries each remedy again and again.
That is strong fairness: a remedy can be started only when nothing else runs,
and the service may be at work and refuse the window in turns.

### What the runs found

* `window_try_again`: `connect` passes the error of `wireguard.exe
  /installtunnelservice` (and those of the key and configuration files) on by `?`, past `fail()`.
  The helper stays in Connecting with nobody working on it, every poll shows that,
  and `isWorking` keeps the button disabled, next to the advice "Try again"
  (main.tsx:33). Only the reset under Advanced or a restart of the service helps.
* `helper_blank_key`: `replace_private_key` writes with `fs::write`. If that
  fails after truncation, the empty file is read as the key by every later
  connect and refused (`private key must decode to 32 bytes`). README.md:12
  promises "reconnect works without manual cleanup"; only the reset by hand helps.
* `helper_foreign_route`: a marker that is left while its route is gone makes a
  later cleanup delete a route that somebody else has added to that address. The
  ADR (line 90) says that only PVN's own route is removed. With no kill, restart
  of Windows or undeletable marker in between it holds: `ForeignRoutesKept`.
* `api_shared_account`: a create and a reset of one account arrive together. The
  reset finds no row to list, so it has no peer to remove; the create inserts its
  row, configures its peer and answers 201; the reset deletes all rows of the user,
  the new one with them, and answers 200. A peer stays that no lease stands for, and
  no later reset finds it. The same comes of a create that configures its peer after
  the rows are gone, since it does not look at its row again.
* `helper_reinstall`: with a blank token file the service ends with "PVN helper token
  is blank; reinstall PVN or repair helper service" (main.rs:566). Repair Helper
  does help. Installing again does not: setup runs the script without `-ResetToken`,
  and the script keeps a file that exists, whatever is in it; nor does the
  uninstaller delete it.

The host route and the tunnel can part without any failure of the PC. The helper
resolves the endpoint's host name and adds a route for that address (main.rs:202-204);
the configuration that WireGuard gets has the host name (main.rs:205, 532;
`deploy-api.sh:43`), which it resolves for itself. If the answers differ, the tunnel's
handshakes have no route around the tunnel, which ADR-001 (lines 88-90) says the route
is for: with `moved` among the failures TLC finds `EndpointRouted` violated at once.
That is why `TunnelHasEndpointRoute` ends with the first such answer. `OnMeansWorking`
does not: the checks before On fail for such a tunnel, and connect ends in Error.

Two limits of `PeerComesBack` were found by hand, with other values than those of
`api_peer_back`:

* As many addresses as accounts (two addresses, own accounts). After a reset under
  Advanced the API still has the row of the old key; the new key finds no free
  address and is answered 400 before the name is looked at, so that the helper,
  which resets on 409 only, never gets rid of its own old row.
* Own accounts, 3 requests, a timeout and a reset by hand (`MaxFaults = 2`). A create
  that was given up can still be about to configure its peer when a later reset of
  the account drops its row; another account gets the address, and the late create
  takes it away from that peer. So the 20 s timeout of a helper lets a create
  cross a reset even where no two PCs share an account, and another account is hit:
  the last case of `ServedUntilOwnReset`.

## 4. Proofs

All theorems hold for any finite or infinite sets of keys, endpoints, users and
requests, PCs, connections and tokens, any subnet and any number of failures, from
the assumptions on the constants (`ConstantsAssumption`, `HelperAssumption`,
`TokenAssumption`, `ApiAssumption`, `ScanAssumption`, `SystemAssumption`), which the
runs evaluate.

`TunnelControllerProofs`:

* `Inv` = types, `OpAtStep` (which operation can be at which step) and
  `LocalsAtStep` (what the locals and files hold there: after loading, `key` is the
  file's key; at `rekey` the backend has given its profile up; from `install` on
  the configuration holds the key; at the verification steps the tunnel is the one
  of this connect). It is inductive; `TypeCorrect` follows.
* `OneFault`, `NotHappened`: a step has at most one failure, and a lasting failure
  that has not happened in the next state happened neither now nor before. Every
  theorem of the form "until" rests on it.
* `OnIsVerified`: `OnInv` adds that the backend holds the current key from the
  cleanup of a connect on and that the tunnel works at the last check.
* `HandshakeNotCaptured`: `HandshakeInv` has the route at hand from `mark` to
  `install` and no tunnel between uninstall and install. It says nothing once WireGuard
  has got another address than the helper (`moved`); the other invariants do not
  assume that the two agree.
* `RoutesAreRecorded`: `RecordInv` follows the routes through cleanup: after the
  deletion there is none until the next one is made, at `mark` only the new one.
* `OffIsClean`: `CleanInv`, on top of `RecordInv`.
* `ForeignRoutesStay`: `MarkerInv`, a marker names a route of PVN except between
  deletion and removal.
* `FailureIsVisible`, `KeyOutlivesProfile`: from `Inv` alone.

`ControlApiProofs`:

* `Typed` adds to the types what every running handler has in `job[r]`.
* `LeaseInv` is the inductive invariant for leases, with requests that overlap in any
  way. `RowsUnique`: rows are unique in key and address. `Apart`, which is what
  `crossed` is for: where a create is in flight beside a reset of its user, or two
  resets of one user are and there is a row, the key is crossed. `InOrder`, for keys that are not:
  at `sync` the row of the create is still there; a reset has only keys of its own
  user on its list, and every row of that user is on the list or has no served peer.
  The last conjunct is `UnleasedIsCrossed` itself. `PeersAreLeased`, `CreatesAreServed`
  and `ServedUntilReset` follow; they assume nothing of the clients.

`LeasePromiseProofs`:

* `ApiKeepsPromise`, by `LeaseInv` of `ControlApiProofs`: every step of the API is one
  of `LeasePromise` or a stutter. There is a lemma for each step of the promise, saying
  which change of rows, served pairs and requests amounts to it, and one for each step
  of the API. `InOrder` is what makes the end of a reset a `Revoke` and the end of a
  create a `Serve`. No assumption but those on the constants.

`ControllerPromiseProofs`: `PromiseIsKept`, by `Inv` of the controller: every step is
one of the promise or a stutter. The only step that needs more than the kind of
operation is the end of a connect, where `Inv` has the tunnel installed.

`HelperServiceProofs`:

* `Typed` adds to the types that the desktop process waits for a connection only on
  behalf of a command; `HelperTypesCorrect` follows.
* `OnePowerCallHolds`: `Line` puts the results that the window has yet to handle and
  the commands that are yet to run in one sequence. A command that resolves or
  rejects keeps its place in it, a click appends, the window takes the first.
  `OrderInv`, as long as there was neither a timeout nor a click under Advanced: a
  thread at work is the one that is asked, and for the first command; the line has
  one of connect, disconnect and the refresh after a failure at most, and none while
  the button is free.
* `StopsAreFinal`: `StopBehind`, after a click on STOP every connect in the queue has
  a disconnect behind it. With the timeout excluded there is no connect outside the
  queue, since the thread at work has the first command's job.
* `WindowShowsState`: `ShowInv`, with no failure so far: unless connect or disconnect
  is running, either a refresh is due (queued, or owed by a failed command that the
  window has not handled) or the last result that carries a state has the state
  of the helper.
* `BusyIsAnswered`: `ReasonInv`, in terms of `Line`: while busy, something other than
  a poll has a place in it. A command keeps its place until the window handles its
  answer, and the answers that leave busy set have `Refreshes` put a refresh behind.

`HelperTokenProofs`:

* `TokenTypesCorrect`, from the types alone, which are inductive.
* `TokensAgree`: `AgreementInv`. While the file differs from the token in use, some
  run of the script is at a step from which it cannot reach "ok" without having
  stopped the service, or has ended with an error.

`PvnSystemProofs`:

* `SystemTypesCorrect`: `Typed` adds what every running request has.
* `OnPCsAreServed`: `SystemInv`. `Apart` holds in every run: keys are of one PC, and
  rows and running creates with a key are of its account; rows are unique in name,
  key and address; a request that a helper waits for is of its account and its key.
  `Calm` holds as long as no requests of an account have overlapped: two requests in
  flight are of two accounts, a create finds its row when it comes to its peer, a
  running reset has evicted every other PC that could be on, and a PC that was
  answered 201 and not evicted has its row and its peer with its address. The last
  part is what the property says of On; it needs all the others, since the peer of
  one PC can be lost to a reset, to a create with its address, or to one with its key.
* `OverlapNeedsCause`: `CauseInv` adds to `SystemInv` that, with an account per PC and
  nothing given up, a request that runs is one that a helper waits for. A crash or a
  failure ends the request before the helper reads its answer, so this survives them.
  Within these limits no create of a helper crosses a reset.
* `SystemPeersAreLeased`: `PeerInv` adds, until requests overlap, that no row of a
  user whose reset is running is both served and missing from its list (`ResetCovers`).

`AddressScanProofs`: `ScanInv`, no free address lies below the loop variable;
`ScanTypeCorrect`
and `ScanFindsLowestFree` hold for every subnet and every set of used addresses.

Model-checked only: the liveness properties (`ReconnectWorks`, `PeerComesBack`,
`WindowCatchesUp`, `ButtonComesBack`, `HelperComesBack`), since fairness and ENABLED
are out of the prover's reach. Every invariant and action property that a passing
run checks is also proved.

## 5. Not modelled, and what is left

Not modelled: contents of the WireGuard configuration, wording of errors,
diagnostics and status queries (no state changes), DNS, TLS and HTTP details,
bcrypt, migrations, access rights of the token file, the WireGuard package and
update mode of the installer, the E2E and release scripts, and of the VPS scripts
everything but a restart of the interface. The network checks are abstracted to
`Working`, `Online` and `Served`.

Login and sessions are not modelled. `Login`, `UserForToken` and the upsert of the
MVP user are one SQL statement each, deployments run without login
(`deploy-api.sh:49`), and nothing that a session has opened depends on its
remaining valid; `ControlApi` begins where `authenticated()` has found the user.

What is left:

* `LeasePromise` is proved of `ControlApi`, not of `PvnSystem`. It holds there as well,
  with `crossed` carried along, but a lemma of `ControlApiProofs` cannot be used
  through the instance `Api` (the prover does not see into instantiated theorems), so
  that all of them would have to be stated again for it.
* A composition of `PvnSystem` with the whole of `TunnelController` instead of the part
  of `connect` that the API sees. With two PCs its states multiply, and what it
  would add is already checked on either side.
