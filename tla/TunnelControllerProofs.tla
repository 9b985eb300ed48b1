----------------------- MODULE TunnelControllerProofs -----------------------
(***************************************************************************)
(* The safety properties of TunnelController for any sets of keys and of   *)
(* endpoint addresses and any number of failures.                          *)
(***************************************************************************)
EXTENDS TunnelController, TLAPS

-----------------------------------------------------------------------------
(* Failures.                                                               *)

\* A step has one failure or none.
LEMMA OneFault == [Next]_vars => NoFault \/ \E f \in FaultKinds : Fault(f)
  <1>1. User => NoFault
    BY DEF User, Connect, Disconnect, Reset, Begin
  <1>2. Provision => NoFault \/ \E f \in FaultKinds : Fault(f)
    BY DEF Provision, LoadPrivateKey, ReplacePrivateKey, FetchConfig, ResetBackendDevice, FaultKinds
  <1>3. Cleanup => NoFault \/ \E f \in FaultKinds : Fault(f)
    BY DEF Cleanup, UninstallTunnel, DeleteEndpointRoute, RoutesWithout, RemoveMarker, RemoveConfig, FaultKinds
  <1>4. BringUp => NoFault \/ \E f \in FaultKinds : Fault(f)
    BY DEF BringUp, ResolveEndpoint, EnsureEndpointRoute, AddEndpointRoute, RecordRoute, WriteConfig, InstallTunnel,
       WireGuardResolves, WaitForTunnelActive, VerifyPublicIp, VerifyInternet, FaultKinds
  <1>5. TearDown => NoFault \/ \E f \in FaultKinds : Fault(f)
    BY DEF TearDown, VerifyTunnelGone, VerifyBaseline, ForgetKey, FaultKinds
  <1>6. Environment => NoFault \/ \E f \in FaultKinds : Fault(f)
    BY DEF Environment, Restart, Reboot, TunnelUp, WireGuardResolves, TunnelDown, Evict,
       ForeignRoute, FaultKinds
  <1>7. UNCHANGED vars => NoFault
    BY DEF vars, NoFault
  <1>8. QED
    BY <1>1, <1>2, <1>3, <1>4, <1>5, <1>6, <1>7 DEF Next, Step

\* A lasting failure that has not happened by the next state did not happen now or before.
LEMMA NotHappened ==
    ASSUME NEW kinds \in SUBSET Lasting, [Next]_vars, Without(kinds)'
    PROVE  Without(kinds) /\ \A f \in kinds : ~Fault(f)
  <1>1. \A f \in kinds : Fault(f) => f \in happened'
    BY DEF Fault
  <1>2. happened \subseteq happened'
    BY OneFault DEF NoFault, Fault
  <1>3. QED
    BY <1>1, <1>2 DEF Without

-----------------------------------------------------------------------------
(* What the program counter says of the operation and its locals.          *)

CleanupSteps == {"uninstall", "unroute", "unmark", "unconf"}
BringUpSteps == {"resolve", "route", "mark", "conf", "install", "wait", "verifyIp",
                 "verifyInternet"}
WithKey      == {"fetch", "resetBackend", "rekey", "refetch"} \cup BringUpSteps
Installed    == {"wait", "verifyIp", "verifyInternet"}

OpAtStep ==
    /\ pc = "idle" <=> op = "none"
    /\ pc \in {"load", "store"} \cup WithKey => op = "connect"
    /\ pc \in {"verifyTunnel", "verifyBaseline"} => op = "disconnect"
    /\ pc = "forget" => op = "reset"

LocalsAtStep ==
    /\ op = "connect" /\ pc \in WithKey \cup CleanupSteps => key \in Keys /\ key = keyFile
    /\ pc = "store" => keyFile = None
    /\ pc = "rekey" => provisioned = None
    /\ pc \in BringUpSteps \ {"resolve"} => ep \in Endpoints
    /\ pc \in Installed \cup {"install"} => conf = key
    /\ pc \in Installed => tunnel = key

Inv == TypeOK /\ OpAtStep /\ LocalsAtStep

-----------------------------------------------------------------------------
(* Type correctness.                                                       *)

LEMMA InitType == Init => TypeOK
  BY ConstantsAssumption DEF ConstantsAssumption, Init, TypeOK, States, Ops, Steps

LEMMA StepType ==
    ASSUME Inv, [Next]_vars
    PROVE  TypeOK'
  <1> USE ConstantsAssumption DEF ConstantsAssumption, Inv, TypeOK, States, Ops, Steps,
          NoFault, Fault,
          Goto, Return, Bail, Fail, GiveUp, locals, disk, os, status
  <1>1. CASE User
    BY <1>1 DEF User, Connect, Disconnect, Reset, Begin
  <1>2. CASE Provision
    <2>1. CASE LoadPrivateKey
      BY <2>1 DEF LoadPrivateKey
    <2>2. CASE ReplacePrivateKey("store", "fetch")
      BY <2>2 DEF ReplacePrivateKey, FreshKeys
    <2>3. CASE FetchConfig("fetch", Goto("resetBackend") /\ UNCHANGED locals)
      BY <2>3 DEF FetchConfig
    <2>4. CASE ResetBackendDevice
      BY <2>4 DEF ResetBackendDevice
    <2>5. CASE ReplacePrivateKey("rekey", "refetch")
      BY <2>5 DEF ReplacePrivateKey, FreshKeys
    <2>6. CASE FetchConfig("refetch", Fail)
      BY <2>6 DEF FetchConfig
    <2>7. QED
      BY <1>2, <2>1, <2>2, <2>3, <2>4, <2>5, <2>6 DEF Provision
  <1>3. CASE Cleanup
    <2>1. CASE UninstallTunnel
      BY <2>1 DEF UninstallTunnel
    <2>2. CASE DeleteEndpointRoute
      BY <2>2 DEF DeleteEndpointRoute, RoutesWithout
    <2>3. CASE RemoveMarker
      BY <2>3 DEF RemoveMarker
    <2>4. CASE RemoveConfig
      BY <2>4 DEF RemoveConfig, AfterCleanup
    <2>5. QED
      BY <1>3, <2>1, <2>2, <2>3, <2>4 DEF Cleanup
  <1>4. CASE BringUp
    <2>1. CASE ResolveEndpoint
      BY <2>1 DEF ResolveEndpoint
    <2>2. CASE EnsureEndpointRoute
      BY <2>2 DEF EnsureEndpointRoute, AddEndpointRoute
    <2>3. CASE RecordRoute
      BY <2>3 DEF RecordRoute
    <2>4. CASE WriteConfig
      BY <2>4 DEF WriteConfig
    <2>5. CASE InstallTunnel
      BY <2>5 DEF InstallTunnel, WireGuardResolves, OpAtStep, LocalsAtStep, WithKey, BringUpSteps, Installed
    <2>6. CASE WaitForTunnelActive
      BY <2>6 DEF WaitForTunnelActive
    <2>7. CASE VerifyPublicIp
      BY <2>7 DEF VerifyPublicIp
    <2>8. CASE VerifyInternet
      BY <2>8 DEF VerifyInternet
    <2>9. QED
      BY <1>4, <2>1, <2>2, <2>3, <2>4, <2>5, <2>6, <2>7, <2>8 DEF BringUp
  <1>5. CASE TearDown
    BY <1>5 DEF TearDown, VerifyTunnelGone, VerifyBaseline, ForgetKey
  <1>6. CASE Environment
    <2>1. CASE Restart
      BY <2>1 DEF Restart, ProcessRestart, Torn
    <2>2. CASE Reboot
      BY <2>2 DEF Reboot, ProcessRestart, Torn
    <2>3. CASE TunnelUp \/ TunnelDown
      BY <2>3 DEF TunnelUp, WireGuardResolves, TunnelDown
    <2>4. CASE Evict
      BY <2>4 DEF Evict
    <2>5. CASE ForeignRoute
      BY <2>5 DEF ForeignRoute
    <2>6. QED
      BY <1>6, <2>1, <2>2, <2>3, <2>4, <2>5 DEF Environment
  <1>7. CASE UNCHANGED vars
    BY <1>7 DEF vars
  <1>8. QED
    BY <1>1, <1>2, <1>3, <1>4, <1>5, <1>6, <1>7 DEF Next, Step

LEMMA StepLocals ==
    ASSUME Inv, [Next]_vars
    PROVE  OpAtStep' /\ LocalsAtStep'
  <1> USE ConstantsAssumption DEF ConstantsAssumption, Inv, TypeOK, States, Ops, Steps,
          NoFault, Fault,
          Goto, Return, Bail, Fail, GiveUp, locals, disk, os, status,
          OpAtStep, LocalsAtStep, WithKey, BringUpSteps, CleanupSteps, Installed
  <1>1. CASE User
    BY <1>1 DEF User, Connect, Disconnect, Reset, Begin
  <1>2. CASE Provision
    <2>1. CASE LoadPrivateKey
      BY <2>1 DEF LoadPrivateKey
    <2>2. CASE ReplacePrivateKey("store", "fetch")
      BY <2>2 DEF ReplacePrivateKey, FreshKeys
    <2>3. CASE FetchConfig("fetch", Goto("resetBackend") /\ UNCHANGED locals)
      BY <2>3 DEF FetchConfig
    <2>4. CASE ResetBackendDevice
      BY <2>4 DEF ResetBackendDevice
    <2>5. CASE ReplacePrivateKey("rekey", "refetch")
      BY <2>5 DEF ReplacePrivateKey, FreshKeys
    <2>6. CASE FetchConfig("refetch", Fail)
      BY <2>6 DEF FetchConfig
    <2>7. QED
      BY <1>2, <2>1, <2>2, <2>3, <2>4, <2>5, <2>6 DEF Provision
  <1>3. CASE Cleanup
    <2>1. CASE UninstallTunnel
      BY <2>1 DEF UninstallTunnel
    <2>2. CASE DeleteEndpointRoute
      BY <2>2 DEF DeleteEndpointRoute, RoutesWithout
    <2>3. CASE RemoveMarker
      BY <2>3 DEF RemoveMarker
    <2>4. CASE RemoveConfig
      BY <2>4 DEF RemoveConfig, AfterCleanup
    <2>5. QED
      BY <1>3, <2>1, <2>2, <2>3, <2>4 DEF Cleanup
  <1>4. CASE BringUp
    <2>1. CASE ResolveEndpoint
      BY <2>1 DEF ResolveEndpoint
    <2>2. CASE EnsureEndpointRoute
      BY <2>2 DEF EnsureEndpointRoute, AddEndpointRoute
    <2>3. CASE RecordRoute
      BY <2>3 DEF RecordRoute
    <2>4. CASE WriteConfig
      BY <2>4 DEF WriteConfig
    <2>5. CASE InstallTunnel
      BY <2>5 DEF InstallTunnel, WireGuardResolves
    <2>6. CASE WaitForTunnelActive
      BY <2>6 DEF WaitForTunnelActive
    <2>7. CASE VerifyPublicIp
      BY <2>7 DEF VerifyPublicIp
    <2>8. CASE VerifyInternet
      BY <2>8 DEF VerifyInternet
    <2>9. QED
      BY <1>4, <2>1, <2>2, <2>3, <2>4, <2>5, <2>6, <2>7, <2>8 DEF BringUp
  <1>5. CASE TearDown
    BY <1>5 DEF TearDown, VerifyTunnelGone, VerifyBaseline, ForgetKey
  <1>6. CASE Environment
    <2>1. CASE Restart
      BY <2>1 DEF Restart, ProcessRestart, Torn
    <2>2. CASE Reboot
      BY <2>2 DEF Reboot, ProcessRestart, Torn
    <2>3. CASE TunnelUp \/ TunnelDown
      BY <2>3 DEF TunnelUp, WireGuardResolves, TunnelDown
    <2>4. CASE Evict
      BY <2>4 DEF Evict
    <2>5. CASE ForeignRoute
      BY <2>5 DEF ForeignRoute
    <2>6. QED
      BY <1>6, <2>1, <2>2, <2>3, <2>4, <2>5 DEF Environment
  <1>7. CASE UNCHANGED vars
    BY <1>7 DEF vars
  <1>8. QED
    BY <1>1, <1>2, <1>3, <1>4, <1>5, <1>6, <1>7 DEF Next, Step

LEMMA Invariance == Spec => []Inv
  <1>1. Init => Inv
    BY InitType DEF Init, Inv, OpAtStep, LocalsAtStep, WithKey, BringUpSteps, CleanupSteps,
                    Installed
  <1>2. Inv /\ [Next]_vars => Inv'
    BY StepType, StepLocals DEF Inv
  <1>3. QED
    BY <1>1, <1>2, PTL DEF Spec

\* Every variable keeps its type: in particular, no operation installs an empty
\* configuration file or takes a blank key file for a key.
THEOREM TypeCorrect == Spec => []TypeOK
  <1>1. Inv => TypeOK
    BY DEF Inv
  <1>2. QED
    BY <1>1, Invariance, PTL

-----------------------------------------------------------------------------
(* A failed operation is never silent.                                     *)

LEMMA StepStuck ==
    ASSUME Inv, StuckIsVisible, [Next]_vars
    PROVE  StuckIsVisible'
  <1> USE DEF Inv, OpAtStep, StuckIsVisible, Idle, WithKey, BringUpSteps, NoFault, Fault,
          Goto, Return, Bail, Fail, GiveUp, locals, disk, os, status
  <1>1. CASE User
    BY <1>1 DEF User, Connect, Begin, Disconnect, Reset
  <1>2. CASE Provision
    BY <1>2 DEF Provision, LoadPrivateKey, ReplacePrivateKey, FreshKeys,
       FetchConfig, ResetBackendDevice
  <1>3. CASE Cleanup
    BY <1>3 DEF Cleanup, UninstallTunnel, DeleteEndpointRoute, RoutesWithout, RemoveMarker,
       RemoveConfig, AfterCleanup
  <1>4. CASE BringUp
    BY <1>4 DEF BringUp, ResolveEndpoint, EnsureEndpointRoute, AddEndpointRoute, RecordRoute,
       WriteConfig, InstallTunnel, WireGuardResolves, WaitForTunnelActive, VerifyPublicIp,
       VerifyInternet
  <1>5. CASE TearDown
    BY <1>5 DEF TearDown, VerifyTunnelGone, VerifyBaseline, ForgetKey
  <1>6. CASE Environment
    BY <1>6 DEF Environment, Restart, ProcessRestart, Torn, Reboot, TunnelUp,
       WireGuardResolves, TunnelDown, Evict, ForeignRoute
  <1>7. CASE UNCHANGED vars
    BY <1>7 DEF vars
  <1>8. QED
    BY <1>1, <1>2, <1>3, <1>4, <1>5, <1>6, <1>7 DEF Next, Step

\* Whenever the mutex is free and the status still says "connecting" or
\* "disconnecting", handle_client has recorded an error next to it.
THEOREM FailureIsVisible == Spec => []StuckIsVisible
  <1>1. Init => StuckIsVisible
    BY DEF Init, StuckIsVisible, Idle
  <1>2. Inv /\ StuckIsVisible /\ [Next]_vars => StuckIsVisible'
    BY StepStuck
  <1>3. QED
    BY <1>1, <1>2, Invariance, PTL DEF Spec

-----------------------------------------------------------------------------
(* The key outlives its profile, never the other way around.               *)

KeyStep == op = "connect" /\ keyFile \in Keys /\ keyFile' # keyFile => provisioned # keyFile

LEMMA StepKey ==
    ASSUME Inv, Next
    PROVE  KeyStep
  <1> USE ConstantsAssumption DEF ConstantsAssumption, Inv, OpAtStep, LocalsAtStep, KeyStep,
          WithKey, BringUpSteps, Goto, Return, Bail, Fail, GiveUp,
          locals, disk, os, status
  <1>1. CASE User
    BY <1>1 DEF User, Connect, Begin, Disconnect, Reset
  <1>2. CASE Provision
    <2>1. CASE LoadPrivateKey
      BY <2>1 DEF LoadPrivateKey
    <2>2. CASE ReplacePrivateKey("store", "fetch")
      BY <2>2 DEF ReplacePrivateKey, FreshKeys
    <2>3. CASE FetchConfig("fetch", Goto("resetBackend") /\ UNCHANGED locals)
      BY <2>3 DEF FetchConfig
    <2>4. CASE ResetBackendDevice
      BY <2>4 DEF ResetBackendDevice
    <2>5. CASE ReplacePrivateKey("rekey", "refetch")
      BY <2>5 DEF ReplacePrivateKey, FreshKeys
    <2>6. CASE FetchConfig("refetch", Fail)
      BY <2>6 DEF FetchConfig
    <2>7. QED
      BY <1>2, <2>1, <2>2, <2>3, <2>4, <2>5, <2>6 DEF Provision
  <1>3. CASE Cleanup
    BY <1>3 DEF Cleanup, UninstallTunnel, DeleteEndpointRoute, RoutesWithout, RemoveMarker,
       RemoveConfig, AfterCleanup
  <1>4. CASE BringUp
    BY <1>4 DEF BringUp, ResolveEndpoint, EnsureEndpointRoute, AddEndpointRoute, RecordRoute,
       WriteConfig, InstallTunnel, WireGuardResolves, WaitForTunnelActive, VerifyPublicIp,
       VerifyInternet
  <1>5. CASE TearDown
    BY <1>5 DEF TearDown, VerifyTunnelGone, VerifyBaseline, ForgetKey
  <1>6. CASE Environment
    <2>1. CASE Restart
      BY <2>1 DEF Restart, ProcessRestart, Torn
    <2>2. CASE Reboot
      BY <2>2 DEF Reboot, ProcessRestart, Torn
    <2>3. CASE TunnelUp
      BY <2>3 DEF TunnelUp, WireGuardResolves
    <2>4. CASE TunnelDown
      BY <2>4 DEF TunnelDown
    <2>5. CASE Evict
      BY <2>5 DEF Evict
    <2>6. CASE ForeignRoute
      BY <2>6 DEF ForeignRoute
    <2>7. QED
      BY <1>6, <2>1, <2>2, <2>3, <2>4, <2>5, <2>6 DEF Environment
  <1>7. QED
    BY <1>1, <1>2, <1>3, <1>4, <1>5, <1>6 DEF Next, Step

\* A connect replaces the private key only after the backend gave up the
\* profile that belongs to it, also when the service dies in the middle.
THEOREM KeyOutlivesProfile == Spec => KeyGivenUpAfterProfile
  <1>1. Inv /\ [Next]_vars => [KeyStep]_vars
    BY StepKey
  <1>2. QED
    BY <1>1, Invariance, PTL DEF Spec, KeyGivenUpAfterProfile, KeyStep

-----------------------------------------------------------------------------
(* On means that the tunnel works.                                         *)

OnInv ==
    /\ op = "connect" /\ pc \in CleanupSteps \cup BringUpSteps => provisioned = key
    /\ pc = "verifyInternet" => Working
    /\ pc = "idle" /\ state = "on" /\ lastError = "empty" =>
           Working /\ keyFile = tunnel /\ conf = tunnel

OnUntil == Without({"tunnelDown", "evict"}) => OnInv

LEMMA StepOnInv ==
    ASSUME Inv, OnInv, [Next]_vars,
           ~Fault("tunnelDown"), ~Fault("evict")
    PROVE  OnInv'
  <1> USE ConstantsAssumption DEF ConstantsAssumption, Inv, OpAtStep, LocalsAtStep, TypeOK,
          WithKey, BringUpSteps, CleanupSteps, Installed, Goto, Return, Bail, Fail, GiveUp,
          locals, disk, os, status
  <1> USE DEF OnInv, Working, Online, Reachable
  <1>1. CASE User
    <2>1. CASE Connect
      BY <2>1 DEF Connect, Begin
    <2>2. CASE Disconnect
      BY <2>2 DEF Disconnect, Begin
    <2>3. CASE Reset
      BY <2>3 DEF Reset, Begin
    <2>4. QED
      BY <1>1, <2>1, <2>2, <2>3 DEF User
  <1>2. CASE Provision
    <2>1. CASE LoadPrivateKey
      BY <2>1 DEF LoadPrivateKey
    <2>2. CASE ReplacePrivateKey("store", "fetch")
      BY <2>2 DEF ReplacePrivateKey, FreshKeys
    <2>3. CASE FetchConfig("fetch", Goto("resetBackend") /\ UNCHANGED locals)
      BY <2>3 DEF FetchConfig
    <2>4. CASE ResetBackendDevice
      BY <2>4 DEF ResetBackendDevice
    <2>5. CASE ReplacePrivateKey("rekey", "refetch")
      BY <2>5 DEF ReplacePrivateKey, FreshKeys
    <2>6. CASE FetchConfig("refetch", Fail)
      BY <2>6 DEF FetchConfig
    <2>7. QED
      BY <1>2, <2>1, <2>2, <2>3, <2>4, <2>5, <2>6 DEF Provision
  <1>3. CASE Cleanup
    <2>1. CASE UninstallTunnel
      BY <2>1 DEF UninstallTunnel
    <2>2. CASE DeleteEndpointRoute
      BY <2>2 DEF DeleteEndpointRoute, RoutesWithout
    <2>3. CASE RemoveMarker
      BY <2>3 DEF RemoveMarker
    <2>4. CASE RemoveConfig
      BY <2>4 DEF RemoveConfig, AfterCleanup
    <2>5. QED
      BY <1>3, <2>1, <2>2, <2>3, <2>4 DEF Cleanup
  <1>4. CASE BringUp
    <2>1. CASE ResolveEndpoint
      BY <2>1 DEF ResolveEndpoint
    <2>2. CASE EnsureEndpointRoute
      BY <2>2 DEF EnsureEndpointRoute, AddEndpointRoute
    <2>3. CASE RecordRoute
      BY <2>3 DEF RecordRoute
    <2>4. CASE WriteConfig
      BY <2>4 DEF WriteConfig
    <2>5. CASE InstallTunnel
      BY <2>5 DEF InstallTunnel, WireGuardResolves
    <2>6. CASE WaitForTunnelActive
      BY <2>6 DEF WaitForTunnelActive
    <2>7. CASE VerifyPublicIp
      BY <2>7 DEF VerifyPublicIp
    <2>8. CASE VerifyInternet
      BY <2>8 DEF VerifyInternet
    <2>9. QED
      BY <1>4, <2>1, <2>2, <2>3, <2>4, <2>5, <2>6, <2>7, <2>8 DEF BringUp
  <1>5. CASE TearDown
    <2>1. CASE VerifyTunnelGone
      BY <2>1 DEF VerifyTunnelGone
    <2>2. CASE VerifyBaseline
      BY <2>2 DEF VerifyBaseline
    <2>3. CASE ForgetKey
      BY <2>3 DEF ForgetKey
    <2>4. QED
      BY <1>5, <2>1, <2>2, <2>3 DEF TearDown
  <1>6. CASE Environment
    <2>1. CASE Restart
      BY <2>1 DEF Restart, ProcessRestart, Torn
    <2>2. CASE Reboot
      BY <2>2 DEF Reboot, ProcessRestart, Torn
    <2>3. CASE TunnelUp
      BY <2>3 DEF TunnelUp, WireGuardResolves
    <2>4. CASE TunnelDown
      BY <2>4 DEF TunnelDown
    <2>5. CASE Evict
      BY <2>5 DEF Evict
    <2>6. CASE ForeignRoute
      BY <2>6 DEF ForeignRoute
    <2>7. QED
      BY <1>6, <2>1, <2>2, <2>3, <2>4, <2>5, <2>6 DEF Environment
  <1>7. CASE UNCHANGED vars
    BY <1>7 DEF vars
  <1>8. QED
    BY <1>1, <1>2, <1>3, <1>4, <1>5, <1>6, <1>7 DEF Next, Step

\* While nobody stops the tunnel or takes the profile over, On without an error
\* means a working tunnel with the key on disk, whatever failed before.
THEOREM OnIsVerified == Spec => []OnMeansWorking
  <1>1. Init => OnUntil
    BY ConstantsAssumption DEF ConstantsAssumption, Init, OnUntil, OnInv, BringUpSteps,
       CleanupSteps,
       Installed
  <1>2. Inv /\ OnUntil /\ [Next]_vars => OnUntil'
    <2> SUFFICES ASSUME Inv, OnUntil, [Next]_vars,
                        Without({"tunnelDown", "evict"})'
                 PROVE  OnInv'
      BY DEF OnUntil
    <2>1. /\ Without({"tunnelDown", "evict"})
          /\ \A f \in {"tunnelDown", "evict"} : ~Fault(f)
      BY NotHappened DEF Lasting
    <2>2. QED
      BY <2>1, StepOnInv DEF OnUntil
  <1>3. Inv /\ OnUntil => OnMeansWorking
    BY DEF OnUntil, OnInv, OnMeansWorking, Inv, OpAtStep, Idle
  <1>4. QED
    BY <1>1, <1>2, <1>3, Invariance, PTL DEF Spec

-----------------------------------------------------------------------------
(* The endpoint route is there for as long as the tunnel.                  *)

HandshakeInv ==
    /\ tunnel # None => via \in Endpoints /\ route[via] # None
    /\ pc \in {"unroute", "unmark", "unconf"} \cup (BringUpSteps \ Installed) => tunnel = None
    /\ pc \in {"mark", "conf", "install"} => route[ep] # None

HandshakeUntil == Without({"uninstall", "reboot", "moved"}) => HandshakeInv

LEMMA StepHandshakeInv ==
    ASSUME Inv, HandshakeInv, [Next]_vars,
           ~Fault("uninstall"), ~Fault("reboot"), ~Fault("moved")
    PROVE  HandshakeInv'
  <1> USE ConstantsAssumption DEF ConstantsAssumption, Inv, OpAtStep, LocalsAtStep, TypeOK,
          WithKey, BringUpSteps, CleanupSteps, Installed, Goto, Return, Bail, Fail, GiveUp,
          locals, disk, os, status
  <1> USE DEF HandshakeInv
  <1>1. CASE User
    <2>1. CASE Connect
      BY <2>1 DEF Connect, Begin
    <2>2. CASE Disconnect
      BY <2>2 DEF Disconnect, Begin
    <2>3. CASE Reset
      BY <2>3 DEF Reset, Begin
    <2>4. QED
      BY <1>1, <2>1, <2>2, <2>3 DEF User
  <1>2. CASE Provision
    <2>1. CASE LoadPrivateKey
      BY <2>1 DEF LoadPrivateKey
    <2>2. CASE ReplacePrivateKey("store", "fetch")
      BY <2>2 DEF ReplacePrivateKey, FreshKeys
    <2>3. CASE FetchConfig("fetch", Goto("resetBackend") /\ UNCHANGED locals)
      BY <2>3 DEF FetchConfig
    <2>4. CASE ResetBackendDevice
      BY <2>4 DEF ResetBackendDevice
    <2>5. CASE ReplacePrivateKey("rekey", "refetch")
      BY <2>5 DEF ReplacePrivateKey, FreshKeys
    <2>6. CASE FetchConfig("refetch", Fail)
      BY <2>6 DEF FetchConfig
    <2>7. QED
      BY <1>2, <2>1, <2>2, <2>3, <2>4, <2>5, <2>6 DEF Provision
  <1>3. CASE Cleanup
    <2>1. CASE UninstallTunnel
      BY <2>1 DEF UninstallTunnel
    <2>2. CASE DeleteEndpointRoute
      BY <2>2 DEF DeleteEndpointRoute, RoutesWithout
    <2>3. CASE RemoveMarker
      BY <2>3 DEF RemoveMarker
    <2>4. CASE RemoveConfig
      BY <2>4 DEF RemoveConfig, AfterCleanup
    <2>5. QED
      BY <1>3, <2>1, <2>2, <2>3, <2>4 DEF Cleanup
  <1>4. CASE BringUp
    <2>1. CASE ResolveEndpoint
      BY <2>1 DEF ResolveEndpoint
    <2>2. CASE EnsureEndpointRoute
      BY <2>2 DEF EnsureEndpointRoute, AddEndpointRoute
    <2>3. CASE RecordRoute
      BY <2>3 DEF RecordRoute
    <2>4. CASE WriteConfig
      BY <2>4 DEF WriteConfig
    <2>5. CASE InstallTunnel
      BY <2>5 DEF InstallTunnel, WireGuardResolves
    <2>6. CASE WaitForTunnelActive
      BY <2>6 DEF WaitForTunnelActive
    <2>7. CASE VerifyPublicIp
      BY <2>7 DEF VerifyPublicIp
    <2>8. CASE VerifyInternet
      BY <2>8 DEF VerifyInternet
    <2>9. QED
      BY <1>4, <2>1, <2>2, <2>3, <2>4, <2>5, <2>6, <2>7, <2>8 DEF BringUp
  <1>5. CASE TearDown
    <2>1. CASE VerifyTunnelGone
      BY <2>1 DEF VerifyTunnelGone
    <2>2. CASE VerifyBaseline
      BY <2>2 DEF VerifyBaseline
    <2>3. CASE ForgetKey
      BY <2>3 DEF ForgetKey
    <2>4. QED
      BY <1>5, <2>1, <2>2, <2>3 DEF TearDown
  <1>6. CASE Environment
    <2>1. CASE Restart
      BY <2>1 DEF Restart, ProcessRestart, Torn
    <2>2. CASE Reboot
      BY <2>2 DEF Reboot, ProcessRestart, Torn
    <2>3. CASE TunnelUp
      BY <2>3 DEF TunnelUp, WireGuardResolves
    <2>4. CASE TunnelDown
      BY <2>4 DEF TunnelDown
    <2>5. CASE Evict
      BY <2>5 DEF Evict
    <2>6. CASE ForeignRoute
      BY <2>6 DEF ForeignRoute
    <2>7. QED
      BY <1>6, <2>1, <2>2, <2>3, <2>4, <2>5, <2>6 DEF Environment
  <1>7. CASE UNCHANGED vars
    BY <1>7 DEF vars
  <1>8. QED
    BY <1>1, <1>2, <1>3, <1>4, <1>5, <1>6, <1>7 DEF Next, Step

\* If uninstalling works, Windows does not restart and the host name still gives
\* WireGuard the address it gave the helper, there is no moment at which a
\* tunnel is installed without the route to the endpoint it sends to.
THEOREM HandshakeNotCaptured == Spec => []TunnelHasEndpointRoute
  <1>1. Init => HandshakeUntil
    BY ConstantsAssumption DEF ConstantsAssumption, Init, HandshakeUntil, HandshakeInv, BringUpSteps,
       CleanupSteps,
       Installed
  <1>2. Inv /\ HandshakeUntil /\ [Next]_vars => HandshakeUntil'
    <2> SUFFICES ASSUME Inv, HandshakeUntil, [Next]_vars,
                        Without({"uninstall", "reboot", "moved"})'
                 PROVE  HandshakeInv'
      BY DEF HandshakeUntil
    <2>1. /\ Without({"uninstall", "reboot", "moved"})
          /\ \A f \in {"uninstall", "reboot", "moved"} : ~Fault(f)
      BY NotHappened DEF Lasting
    <2>2. QED
      BY <2>1, StepHandshakeInv DEF HandshakeUntil
  <1>3. Inv /\ HandshakeUntil => TunnelHasEndpointRoute
    BY DEF HandshakeUntil, HandshakeInv, TunnelHasEndpointRoute, EndpointRouted
  <1>4. QED
    BY <1>1, <1>2, <1>3, Invariance, PTL DEF Spec

-----------------------------------------------------------------------------
(* PVN's routes are on record.                                             *)

RecordInv ==
    /\ \A e \in Endpoints : route[e] = "pvn" => marker = e \/ (pc = "mark" /\ ep = e)
    /\ pc \in {"unmark", "unconf", "resolve", "route"} => \A e \in Endpoints : route[e] # "pvn"
    /\ pc = "mark" => \A e \in Endpoints : route[e] = "pvn" => e = ep

RecordUntil == Without({"crash", "deleteRoute", "writeMarker"}) => RecordInv

LEMMA StepRecordInv ==
    ASSUME Inv, RecordInv, [Next]_vars,
           ~Fault("crash"), ~Fault("deleteRoute"), ~Fault("writeMarker")
    PROVE  RecordInv'
  <1> USE ConstantsAssumption DEF ConstantsAssumption, Inv, OpAtStep, LocalsAtStep, TypeOK,
          WithKey, BringUpSteps, CleanupSteps, Installed, Goto, Return, Bail, Fail, GiveUp,
          locals, disk, os, status
  <1> USE DEF RecordInv
  <1>1. CASE User
    <2>1. CASE Connect
      BY <2>1 DEF Connect, Begin
    <2>2. CASE Disconnect
      BY <2>2 DEF Disconnect, Begin
    <2>3. CASE Reset
      BY <2>3 DEF Reset, Begin
    <2>4. QED
      BY <1>1, <2>1, <2>2, <2>3 DEF User
  <1>2. CASE Provision
    <2>1. CASE LoadPrivateKey
      BY <2>1 DEF LoadPrivateKey
    <2>2. CASE ReplacePrivateKey("store", "fetch")
      BY <2>2 DEF ReplacePrivateKey, FreshKeys
    <2>3. CASE FetchConfig("fetch", Goto("resetBackend") /\ UNCHANGED locals)
      BY <2>3 DEF FetchConfig
    <2>4. CASE ResetBackendDevice
      BY <2>4 DEF ResetBackendDevice
    <2>5. CASE ReplacePrivateKey("rekey", "refetch")
      BY <2>5 DEF ReplacePrivateKey, FreshKeys
    <2>6. CASE FetchConfig("refetch", Fail)
      BY <2>6 DEF FetchConfig
    <2>7. QED
      BY <1>2, <2>1, <2>2, <2>3, <2>4, <2>5, <2>6 DEF Provision
  <1>3. CASE Cleanup
    <2>1. CASE UninstallTunnel
      BY <2>1 DEF UninstallTunnel
    <2>2. CASE DeleteEndpointRoute
      BY <2>2 DEF DeleteEndpointRoute, RoutesWithout
    <2>3. CASE RemoveMarker
      BY <2>3 DEF RemoveMarker
    <2>4. CASE RemoveConfig
      BY <2>4 DEF RemoveConfig, AfterCleanup
    <2>5. QED
      BY <1>3, <2>1, <2>2, <2>3, <2>4 DEF Cleanup
  <1>4. CASE BringUp
    <2>1. CASE ResolveEndpoint
      BY <2>1 DEF ResolveEndpoint
    <2>2. CASE EnsureEndpointRoute
      BY <2>2 DEF EnsureEndpointRoute, AddEndpointRoute
    <2>3. CASE RecordRoute
      BY <2>3 DEF RecordRoute
    <2>4. CASE WriteConfig
      BY <2>4 DEF WriteConfig
    <2>5. CASE InstallTunnel
      BY <2>5 DEF InstallTunnel, WireGuardResolves
    <2>6. CASE WaitForTunnelActive
      BY <2>6 DEF WaitForTunnelActive
    <2>7. CASE VerifyPublicIp
      BY <2>7 DEF VerifyPublicIp
    <2>8. CASE VerifyInternet
      BY <2>8 DEF VerifyInternet
    <2>9. QED
      BY <1>4, <2>1, <2>2, <2>3, <2>4, <2>5, <2>6, <2>7, <2>8 DEF BringUp
  <1>5. CASE TearDown
    <2>1. CASE VerifyTunnelGone
      BY <2>1 DEF VerifyTunnelGone
    <2>2. CASE VerifyBaseline
      BY <2>2 DEF VerifyBaseline
    <2>3. CASE ForgetKey
      BY <2>3 DEF ForgetKey
    <2>4. QED
      BY <1>5, <2>1, <2>2, <2>3 DEF TearDown
  <1>6. CASE Environment
    <2>1. CASE Restart
      BY <2>1 DEF Restart, ProcessRestart, Torn
    <2>2. CASE Reboot
      BY <2>2 DEF Reboot, ProcessRestart, Torn
    <2>3. CASE TunnelUp
      BY <2>3 DEF TunnelUp, WireGuardResolves
    <2>4. CASE TunnelDown
      BY <2>4 DEF TunnelDown
    <2>5. CASE Evict
      BY <2>5 DEF Evict
    <2>6. CASE ForeignRoute
      BY <2>6 DEF ForeignRoute
    <2>7. QED
      BY <1>6, <2>1, <2>2, <2>3, <2>4, <2>5, <2>6 DEF Environment
  <1>7. CASE UNCHANGED vars
    BY <1>7 DEF vars
  <1>8. QED
    BY <1>1, <1>2, <1>3, <1>4, <1>5, <1>6, <1>7 DEF Next, Step

LEMMA RecordInvariance == Spec => []RecordUntil
  <1>1. Init => RecordUntil
    BY ConstantsAssumption DEF ConstantsAssumption, Init, RecordUntil, RecordInv
  <1>2. Inv /\ RecordUntil /\ [Next]_vars => RecordUntil'
    <2> SUFFICES ASSUME Inv, RecordUntil, [Next]_vars,
                        Without({"crash", "deleteRoute", "writeMarker"})'
                 PROVE  RecordInv'
      BY DEF RecordUntil
    <2>1. /\ Without({"crash", "deleteRoute", "writeMarker"})
          /\ \A f \in {"crash", "deleteRoute", "writeMarker"} : ~Fault(f)
      BY NotHappened DEF Lasting
    <2>2. QED
      BY <2>1, StepRecordInv DEF RecordUntil
  <1>3. QED
    BY <1>1, <1>2, Invariance, PTL DEF Spec

\* If the service is not killed and routes and marker are written, no sequence
\* of operations and of other failures leaks a host route.
THEOREM RoutesAreRecorded == Spec => []OwnRouteRecorded
  <1>1. RecordUntil => OwnRouteRecorded
    BY DEF RecordUntil, RecordInv, OwnRouteRecorded
  <1>2. QED
    BY <1>1, RecordInvariance, PTL

-----------------------------------------------------------------------------
(* Off is clean.                                                           *)

Clean == tunnel = None /\ conf = None /\ \A e \in Endpoints : route[e] # "pvn"

CleanInv ==
    /\ state = "off" => Clean /\ op \in {"none", "reset"}
    /\ pc \in {"unroute", "unmark", "unconf"} => tunnel = None
    /\ pc \in {"verifyTunnel", "verifyBaseline", "forget"} => Clean

CleanUntil == Without({"crash", "reboot", "uninstall", "deleteRoute", "writeMarker"}) => CleanInv

LEMMA StepCleanInv ==
    ASSUME Inv, RecordInv, CleanInv, [Next]_vars,
           ~Fault("crash"), ~Fault("reboot"), ~Fault("uninstall"), ~Fault("deleteRoute"),
           ~Fault("writeMarker")
    PROVE  CleanInv'
  <1> USE ConstantsAssumption DEF ConstantsAssumption, Inv, OpAtStep, LocalsAtStep, TypeOK,
          WithKey, BringUpSteps, CleanupSteps, Installed, Goto, Return, Bail, Fail, GiveUp,
          locals, disk, os, status
  <1> USE DEF RecordInv, CleanInv, Clean
  <1>1. CASE User
    <2>1. CASE Connect
      BY <2>1 DEF Connect, Begin
    <2>2. CASE Disconnect
      BY <2>2 DEF Disconnect, Begin
    <2>3. CASE Reset
      BY <2>3 DEF Reset, Begin
    <2>4. QED
      BY <1>1, <2>1, <2>2, <2>3 DEF User
  <1>2. CASE Provision
    <2>1. CASE LoadPrivateKey
      BY <2>1 DEF LoadPrivateKey
    <2>2. CASE ReplacePrivateKey("store", "fetch")
      BY <2>2 DEF ReplacePrivateKey, FreshKeys
    <2>3. CASE FetchConfig("fetch", Goto("resetBackend") /\ UNCHANGED locals)
      BY <2>3 DEF FetchConfig
    <2>4. CASE ResetBackendDevice
      BY <2>4 DEF ResetBackendDevice
    <2>5. CASE ReplacePrivateKey("rekey", "refetch")
      BY <2>5 DEF ReplacePrivateKey, FreshKeys
    <2>6. CASE FetchConfig("refetch", Fail)
      BY <2>6 DEF FetchConfig
    <2>7. QED
      BY <1>2, <2>1, <2>2, <2>3, <2>4, <2>5, <2>6 DEF Provision
  <1>3. CASE Cleanup
    <2>1. CASE UninstallTunnel
      BY <2>1 DEF UninstallTunnel
    <2>2. CASE DeleteEndpointRoute
      BY <2>2 DEF DeleteEndpointRoute, RoutesWithout
    <2>3. CASE RemoveMarker
      BY <2>3 DEF RemoveMarker
    <2>4. CASE RemoveConfig
      BY <2>4 DEF RemoveConfig, AfterCleanup
    <2>5. QED
      BY <1>3, <2>1, <2>2, <2>3, <2>4 DEF Cleanup
  <1>4. CASE BringUp
    <2>1. CASE ResolveEndpoint
      BY <2>1 DEF ResolveEndpoint
    <2>2. CASE EnsureEndpointRoute
      BY <2>2 DEF EnsureEndpointRoute, AddEndpointRoute
    <2>3. CASE RecordRoute
      BY <2>3 DEF RecordRoute
    <2>4. CASE WriteConfig
      BY <2>4 DEF WriteConfig
    <2>5. CASE InstallTunnel
      BY <2>5 DEF InstallTunnel, WireGuardResolves
    <2>6. CASE WaitForTunnelActive
      BY <2>6 DEF WaitForTunnelActive
    <2>7. CASE VerifyPublicIp
      BY <2>7 DEF VerifyPublicIp
    <2>8. CASE VerifyInternet
      BY <2>8 DEF VerifyInternet
    <2>9. QED
      BY <1>4, <2>1, <2>2, <2>3, <2>4, <2>5, <2>6, <2>7, <2>8 DEF BringUp
  <1>5. CASE TearDown
    <2>1. CASE VerifyTunnelGone
      BY <2>1 DEF VerifyTunnelGone
    <2>2. CASE VerifyBaseline
      BY <2>2 DEF VerifyBaseline
    <2>3. CASE ForgetKey
      BY <2>3 DEF ForgetKey
    <2>4. QED
      BY <1>5, <2>1, <2>2, <2>3 DEF TearDown
  <1>6. CASE Environment
    <2>1. CASE Restart
      BY <2>1 DEF Restart, ProcessRestart, Torn
    <2>2. CASE Reboot
      BY <2>2 DEF Reboot, ProcessRestart, Torn
    <2>3. CASE TunnelUp
      BY <2>3 DEF TunnelUp, WireGuardResolves
    <2>4. CASE TunnelDown
      BY <2>4 DEF TunnelDown
    <2>5. CASE Evict
      BY <2>5 DEF Evict
    <2>6. CASE ForeignRoute
      BY <2>6 DEF ForeignRoute
    <2>7. QED
      BY <1>6, <2>1, <2>2, <2>3, <2>4, <2>5, <2>6 DEF Environment
  <1>7. CASE UNCHANGED vars
    BY <1>7 DEF vars
  <1>8. QED
    BY <1>1, <1>2, <1>3, <1>4, <1>5, <1>6, <1>7 DEF Next, Step

\* If the commands of cleanup work and the service is not killed, Off means that
\* no tunnel, configuration or route of PVN is left on the PC.
THEOREM OffIsClean == Spec => []OffMeansClean
  <1>1. Init => CleanUntil
    BY ConstantsAssumption DEF ConstantsAssumption, Init, CleanUntil, CleanInv, BringUpSteps, CleanupSteps,
       Installed, Clean
  <1>2. Inv /\ RecordUntil /\ CleanUntil /\ [Next]_vars => CleanUntil'
    <2> SUFFICES ASSUME Inv, RecordUntil, CleanUntil, [Next]_vars,
                        Without({"crash", "reboot", "uninstall", "deleteRoute", "writeMarker"})'
                 PROVE  CleanInv'
      BY DEF CleanUntil
    <2>1. /\ Without({"crash", "reboot", "uninstall", "deleteRoute", "writeMarker"})
          /\ \A f \in {"crash", "reboot", "uninstall", "deleteRoute", "writeMarker"} : ~Fault(f)
      BY NotHappened DEF Lasting
    <2>2. QED
      BY <2>1, StepCleanInv DEF CleanUntil, RecordUntil, Without
  <1>3. Inv /\ CleanUntil => OffMeansClean
    BY DEF CleanUntil, CleanInv, OffMeansClean, Inv, OpAtStep, Idle, Clean
  <1>4. QED
    BY <1>1, <1>2, <1>3, Invariance, RecordInvariance, PTL DEF Spec

-----------------------------------------------------------------------------
(* Routes of others stay.                                                  *)

MarkerInv ==
    /\ marker \in Endpoints /\ pc # "unmark" => route[marker] = "pvn"
    /\ pc = "mark" => route[ep] = "pvn"

MarkerUntil == Without({"crash", "reboot", "deleteMarker"}) => MarkerInv

LEMMA StepMarkerInv ==
    ASSUME Inv, MarkerInv, [Next]_vars,
           ~Fault("crash"), ~Fault("reboot"), ~Fault("deleteMarker")
    PROVE  MarkerInv'
  <1> USE ConstantsAssumption DEF ConstantsAssumption, Inv, OpAtStep, LocalsAtStep, TypeOK,
          WithKey, BringUpSteps, CleanupSteps, Installed, Goto, Return, Bail, Fail, GiveUp,
          locals, disk, os, status, MarkerInv
  <1>1. CASE User
    <2>1. CASE Connect
      BY <2>1 DEF Connect, Begin
    <2>2. CASE Disconnect
      BY <2>2 DEF Disconnect, Begin
    <2>3. CASE Reset
      BY <2>3 DEF Reset, Begin
    <2>4. QED
      BY <1>1, <2>1, <2>2, <2>3 DEF User
  <1>2. CASE Provision
    <2>1. CASE LoadPrivateKey
      BY <2>1 DEF LoadPrivateKey
    <2>2. CASE ReplacePrivateKey("store", "fetch")
      BY <2>2 DEF ReplacePrivateKey, FreshKeys
    <2>3. CASE FetchConfig("fetch", Goto("resetBackend") /\ UNCHANGED locals)
      BY <2>3 DEF FetchConfig
    <2>4. CASE ResetBackendDevice
      BY <2>4 DEF ResetBackendDevice
    <2>5. CASE ReplacePrivateKey("rekey", "refetch")
      BY <2>5 DEF ReplacePrivateKey, FreshKeys
    <2>6. CASE FetchConfig("refetch", Fail)
      BY <2>6 DEF FetchConfig
    <2>7. QED
      BY <1>2, <2>1, <2>2, <2>3, <2>4, <2>5, <2>6 DEF Provision
  <1>3. CASE Cleanup
    <2>1. CASE UninstallTunnel
      BY <2>1 DEF UninstallTunnel
    <2>2. CASE DeleteEndpointRoute
      BY <2>2 DEF DeleteEndpointRoute, RoutesWithout
    <2>3. CASE RemoveMarker
      BY <2>3 DEF RemoveMarker
    <2>4. CASE RemoveConfig
      BY <2>4 DEF RemoveConfig, AfterCleanup
    <2>5. QED
      BY <1>3, <2>1, <2>2, <2>3, <2>4 DEF Cleanup
  <1>4. CASE BringUp
    <2>1. CASE ResolveEndpoint
      BY <2>1 DEF ResolveEndpoint
    <2>2. CASE EnsureEndpointRoute
      BY <2>2 DEF EnsureEndpointRoute, AddEndpointRoute
    <2>3. CASE RecordRoute
      BY <2>3 DEF RecordRoute
    <2>4. CASE WriteConfig
      BY <2>4 DEF WriteConfig
    <2>5. CASE InstallTunnel
      BY <2>5 DEF InstallTunnel, WireGuardResolves
    <2>6. CASE WaitForTunnelActive
      BY <2>6 DEF WaitForTunnelActive
    <2>7. CASE VerifyPublicIp
      BY <2>7 DEF VerifyPublicIp
    <2>8. CASE VerifyInternet
      BY <2>8 DEF VerifyInternet
    <2>9. QED
      BY <1>4, <2>1, <2>2, <2>3, <2>4, <2>5, <2>6, <2>7, <2>8 DEF BringUp
  <1>5. CASE TearDown
    <2>1. CASE VerifyTunnelGone
      BY <2>1 DEF VerifyTunnelGone
    <2>2. CASE VerifyBaseline
      BY <2>2 DEF VerifyBaseline
    <2>3. CASE ForgetKey
      BY <2>3 DEF ForgetKey
    <2>4. QED
      BY <1>5, <2>1, <2>2, <2>3 DEF TearDown
  <1>6. CASE Environment
    <2>1. CASE Restart
      BY <2>1 DEF Restart, ProcessRestart, Torn
    <2>2. CASE Reboot
      BY <2>2 DEF Reboot, ProcessRestart, Torn
    <2>3. CASE TunnelUp
      BY <2>3 DEF TunnelUp, WireGuardResolves
    <2>4. CASE TunnelDown
      BY <2>4 DEF TunnelDown
    <2>5. CASE Evict
      BY <2>5 DEF Evict
    <2>6. CASE ForeignRoute
      BY <2>6 DEF ForeignRoute
    <2>7. QED
      BY <1>6, <2>1, <2>2, <2>3, <2>4, <2>5, <2>6 DEF Environment
  <1>7. CASE UNCHANGED vars
    BY <1>7 DEF vars
  <1>8. QED
    BY <1>1, <1>2, <1>3, <1>4, <1>5, <1>6, <1>7 DEF Next, Step

LEMMA StepForeign ==
    ASSUME Inv, MarkerInv, Next, NEW e \in Endpoints, route[e] = "foreign"
    PROVE  route'[e] = "foreign"
  <1> USE ConstantsAssumption DEF ConstantsAssumption, Inv, OpAtStep, LocalsAtStep, TypeOK,
          WithKey, BringUpSteps, CleanupSteps, Installed, Goto, Return, Bail, Fail, GiveUp,
          locals, disk, os, status, MarkerInv
  <1>1. CASE User
    BY <1>1 DEF User, Connect, Begin, Disconnect, Reset
  <1>2. CASE Provision
    BY <1>2 DEF Provision, LoadPrivateKey, ReplacePrivateKey, FreshKeys,
       FetchConfig, ResetBackendDevice
  <1>3. CASE Cleanup
    <2>1. CASE UninstallTunnel
      BY <2>1 DEF UninstallTunnel
    <2>2. CASE DeleteEndpointRoute
      BY <2>2 DEF DeleteEndpointRoute, RoutesWithout
    <2>3. CASE RemoveMarker
      BY <2>3 DEF RemoveMarker
    <2>4. CASE RemoveConfig
      BY <2>4 DEF RemoveConfig, AfterCleanup
    <2>5. QED
      BY <1>3, <2>1, <2>2, <2>3, <2>4 DEF Cleanup
  <1>4. CASE BringUp
    <2>1. CASE ResolveEndpoint
      BY <2>1 DEF ResolveEndpoint
    <2>2. CASE EnsureEndpointRoute
      BY <2>2 DEF EnsureEndpointRoute, AddEndpointRoute
    <2>3. CASE RecordRoute
      BY <2>3 DEF RecordRoute
    <2>4. CASE WriteConfig
      BY <2>4 DEF WriteConfig
    <2>5. CASE InstallTunnel
      BY <2>5 DEF InstallTunnel, WireGuardResolves
    <2>6. CASE WaitForTunnelActive
      BY <2>6 DEF WaitForTunnelActive
    <2>7. CASE VerifyPublicIp
      BY <2>7 DEF VerifyPublicIp
    <2>8. CASE VerifyInternet
      BY <2>8 DEF VerifyInternet
    <2>9. QED
      BY <1>4, <2>1, <2>2, <2>3, <2>4, <2>5, <2>6, <2>7, <2>8 DEF BringUp
  <1>5. CASE TearDown
    BY <1>5 DEF TearDown, VerifyTunnelGone, VerifyBaseline, ForgetKey
  <1>6. CASE Environment
    <2>1. CASE Restart
      BY <2>1 DEF Restart, ProcessRestart, Torn
    <2>2. CASE Reboot
      BY <2>2 DEF Reboot, ProcessRestart, Torn
    <2>3. CASE TunnelUp
      BY <2>3 DEF TunnelUp, WireGuardResolves
    <2>4. CASE TunnelDown
      BY <2>4 DEF TunnelDown
    <2>5. CASE Evict
      BY <2>5 DEF Evict
    <2>6. CASE ForeignRoute
      BY <2>6 DEF ForeignRoute
    <2>7. QED
      BY <1>6, <2>1, <2>2, <2>3, <2>4, <2>5, <2>6 DEF Environment
  <1>7. QED
    BY <1>1, <1>2, <1>3, <1>4, <1>5, <1>6 DEF Next, Step

\* If the service is not killed between a route and its marker, and the marker
\* can be deleted, then cleanup deletes no route that PVN did not create.
THEOREM ForeignRoutesStay == Spec => ForeignRoutesKept
  <1> DEFINE Kept == Without({"crash", "reboot", "deleteMarker"}) => KeepsForeignRoutes
  <1>1. Init => MarkerUntil
    BY ConstantsAssumption DEF ConstantsAssumption, Init, MarkerUntil, MarkerInv
  <1>2. Inv /\ MarkerUntil /\ [Next]_vars => MarkerUntil'
    <2> SUFFICES ASSUME Inv, MarkerUntil, [Next]_vars,
                        Without({"crash", "reboot", "deleteMarker"})'
                 PROVE  MarkerInv'
      BY DEF MarkerUntil
    <2>1. /\ Without({"crash", "reboot", "deleteMarker"})
          /\ \A f \in {"crash", "reboot", "deleteMarker"} : ~Fault(f)
      BY NotHappened DEF Lasting
    <2>2. QED
      BY <2>1, StepMarkerInv DEF MarkerUntil
  <1>3. Inv /\ MarkerUntil /\ [Next]_vars => [Kept]_vars
    BY StepForeign DEF MarkerUntil, KeepsForeignRoutes
  <1>4. QED
    BY <1>1, <1>2, <1>3, Invariance, PTL DEF Spec, ForeignRoutesKept

=============================================================================
