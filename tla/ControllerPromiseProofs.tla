------------------------ MODULE ControllerPromiseProofs ------------------------
(***************************************************************************)
(* TunnelController implements ControllerPromise, for any sets of keys and *)
(* endpoint addresses and any number of failures.                          *)
(***************************************************************************)
EXTENDS TunnelControllerProofs

\* Most steps of an operation change neither what it is nor what the status
\* says, and tunnel at most.
LEMMA StutterOrWork ==
    ASSUME state' = state, op' = op, op # "none",
           tunnel' = tunnel \/ tunnel' = None
    PROVE  [Promise!Next]_(Promise!vars)
  BY DEF Promise!Next, Promise!Work, Promise!vars

\* An operation that does not end well ends in "error", or as it was.
LEMMA PromiseFail ==
    ASSUME Fail, op \in {"connect", "giveUp", "disconnect"}, tunnel' = tunnel
    PROVE  Promise!Next
  BY DEF Fail, Return, Promise!Next, Promise!Fail

LEMMA PromiseBail ==
    ASSUME Bail, op \in {"connect", "disconnect", "reset"}, tunnel' = tunnel
    PROVE  Promise!Next
  BY DEF Bail, Return, Promise!Next, Promise!Fail

LEMMA StepPromise ==
    ASSUME Inv, [Next]_vars
    PROVE  [Promise!Next]_(Promise!vars)
  <1> USE DEF Goto, GiveUp, locals, disk, os, status
  <1> DEFINE InOp == /\ op \in Ops /\ (op = "none" <=> pc = "idle")
                     /\ (pc \in {"load", "store"} \cup WithKey => op = "connect")
                     /\ (pc \in {"verifyTunnel", "verifyBaseline"} => op = "disconnect")
                     /\ (pc = "forget" => op = "reset")
                     /\ (pc \in Installed => tunnel # None)
  <1>1. InOp
    BY ConstantsAssumption DEF Inv, TypeOK, OpAtStep, LocalsAtStep, ConstantsAssumption, WithKey,
       Installed, BringUpSteps
  <1> USE <1>1
  <1>2. CASE User
    BY <1>2 DEF User, Connect, Begin, Disconnect, Reset, Promise!Next, Promise!Start,
       Promise!Begun, Promise!Operations
  <1>3. CASE Provision
    <2>1. op = "connect" /\ tunnel' = tunnel
      BY <1>3 DEF Provision, LoadPrivateKey, ReplacePrivateKey, FetchConfig, ResetBackendDevice,
         WithKey
    <2>2. Bail \/ Fail \/ (state' = state /\ op' = op)
      BY <1>3 DEF Provision, LoadPrivateKey, ReplacePrivateKey, FetchConfig, ResetBackendDevice
    <2>3. QED
      BY <2>1, <2>2, StutterOrWork, PromiseFail, PromiseBail
  <1>4. CASE UninstallTunnel \/ DeleteEndpointRoute \/ RemoveMarker
    BY <1>4, StutterOrWork DEF UninstallTunnel, DeleteEndpointRoute, RoutesWithout, RemoveMarker, Ops
  <1>5. CASE RemoveConfig
    BY <1>5, StutterOrWork, PromiseFail, PromiseBail DEF RemoveConfig, AfterCleanup, Ops
  <1>6. CASE BringUp
    <2>1. CASE ResolveEndpoint \/ EnsureEndpointRoute \/ RecordRoute \/ WriteConfig
      BY <2>1, StutterOrWork, PromiseFail, PromiseBail DEF ResolveEndpoint, EnsureEndpointRoute, AddEndpointRoute, RecordRoute,
         WriteConfig, WithKey, BringUpSteps
    <2>2. CASE InstallTunnel
      <3>1. op = "connect" /\ ((Bail /\ tunnel' = tunnel) \/ (state' = state /\ op' = op))
        BY <2>2 DEF InstallTunnel, WireGuardResolves, WithKey, BringUpSteps
      <3>2. ASSUME state' = state, op' = op
            PROVE  [Promise!Next]_(Promise!vars)
        BY <3>1, <3>2 DEF Promise!Next, Promise!Work
      <3>3. QED
        BY <3>1, <3>2, PromiseFail, PromiseBail
    <2>3. CASE WaitForTunnelActive \/ VerifyPublicIp
      BY <2>3 DEF WaitForTunnelActive, VerifyPublicIp, WithKey, BringUpSteps, Promise!vars
    <2>4. CASE VerifyInternet
      <3>1. op = "connect" /\ tunnel # None /\ tunnel' = tunnel
        BY <2>4 DEF VerifyInternet, Installed, WithKey, BringUpSteps
      <3>2. QED
        BY <2>4, <3>1 DEF VerifyInternet, Return, Promise!Next, Promise!Succeed, Promise!vars
    <2>5. QED
      BY <1>6, <2>1, <2>2, <2>3, <2>4 DEF BringUp
  <1>7. CASE TearDown
    <2>1. CASE VerifyTunnelGone
      BY <2>1, StutterOrWork, PromiseFail, PromiseBail DEF VerifyTunnelGone
    <2>2. CASE VerifyBaseline
      <3>1. op = "disconnect" /\ tunnel' = tunnel
        BY <2>2 DEF VerifyBaseline
      <3>2. CASE Bail \/ Fail
        BY <3>1, <3>2, PromiseFail, PromiseBail
      <3>3. CASE Return("off", lastError)
        BY <3>1, <3>3 DEF Return, Promise!Next, Promise!Succeed
      <3>4. QED
        BY <2>2, <3>2, <3>3 DEF VerifyBaseline
    <2>3. CASE ForgetKey
      <3>1. op = "reset" /\ tunnel' = tunnel
        BY <2>3 DEF ForgetKey
      <3>2. CASE Bail
        BY <3>1, <3>2 DEF Bail, Return, Promise!Next, Promise!Fail
      <3>3. CASE Return("off", lastError)
        BY <3>1, <3>3 DEF Return, Promise!Next, Promise!Succeed
      <3>4. QED
        BY <2>3, <3>2, <3>3 DEF ForgetKey
    <2>4. QED
      BY <1>7, <2>1, <2>2, <2>3 DEF TearDown
  <1>8. CASE Environment
    <2>1. CASE Restart \/ Reboot
      BY <2>1 DEF Restart, Reboot, ProcessRestart, Return, Promise!Next, Promise!Interrupt
    <2>2. CASE TunnelUp \/ TunnelDown \/ Evict \/ ForeignRoute
      BY <2>2 DEF TunnelUp, WireGuardResolves, TunnelDown, Evict, ForeignRoute, Promise!vars
    <2>3. QED
      BY <1>8, <2>1, <2>2 DEF Environment
  <1>9. CASE UNCHANGED vars
    BY <1>9 DEF vars, Promise!vars
  <1>10. QED
    BY <1>2, <1>3, <1>4, <1>5, <1>6, <1>7, <1>8, <1>9 DEF Next, Step, Cleanup

\* The controller with all its commands, files and failures does nothing that
\* ControllerPromise does not allow: what is built on the promise holds for it.
THEOREM PromiseIsKept == Spec => ImplementsPromise
  <1>1. Init => Promise!Init
    BY DEF Init, Promise!Init
  <1>2. Inv /\ [Next]_vars => [Promise!Next]_(Promise!vars)
    BY StepPromise
  <1>3. QED
    BY <1>1, <1>2, Invariance, PTL DEF Spec, ImplementsPromise, Promise!Spec

================================================================================
