-------------------------- MODULE HelperTokenProofs --------------------------
(***************************************************************************)
(* Theorems about HelperToken, for any tokens, any number of overlapping   *)
(* runs of the install script and any number of failures.                  *)
(***************************************************************************)
EXTENDS HelperToken, TLAPS

USE DEF Ended, Running, serviceVars, windowVars, setupVars, NoFault, Fault, Extra,
        Goto, ResourcesPresent, Stopped, Launch, StopService, WaitTimesOut, Calls, Fresh

-----------------------------------------------------------------------------
(* Types.                                                                  *)

LEMMA TypeInit == Init => TypeOK
  BY TokenAssumption DEF TokenAssumption, Init, TypeOK

LEMMA TypeNext ==
  ASSUME TypeOK, [Next]_vars
  PROVE  TypeOK'
<1>0. faults \in Nat /\ extras \in Nat /\ MaxFaults \in Nat /\ MaxExtras \in Nat
  BY TokenAssumption DEF TokenAssumption, TypeOK
<1>1. CASE Service
  BY <1>0, <1>1, TokenAssumption DEF TokenAssumption, Service, EnsureToken, WriteToken, Shutdown, TypeOK
<1>2. CASE ServiceFails \/ StartByHand \/ Reboot
  BY <1>0, <1>2, TokenAssumption DEF TokenAssumption, ServiceFails, StartByHand, Reboot, TypeOK
<1>3. ASSUME NEW s \in Scripts, Script(s) \/ Throw(s) \/ StartSetup(s) PROVE TypeOK'
  <2>1. CASE StopForUpgrade(s) \/ StoppedForUpgrade(s)
    BY <1>0, <2>1 DEF StopForUpgrade, StoppedForUpgrade, TypeOK
  <2>2. CASE ResetToken(s) \/ TestToken(s) \/ SetContent(s)
    BY <1>0, <2>2 DEF ResetToken, TestToken, SetContent, TypeOK
  <2>3. CASE Examine(s) \/ AwaitStop(s)
    BY <1>0, <2>3 DEF Examine, AwaitStop, TypeOK
  <2>4. CASE Register(s) \/ StartService(s) \/ VerifyStatus(s)
    BY <1>0, <2>4 DEF Register, StartService, VerifyStatus, TypeOK
  <2>5. CASE Throw(s) \/ StartSetup(s)
    BY <1>0, <2>5 DEF Throw, StartSetup, TypeOK
  <2> QED BY <1>3, <2>1, <2>2, <2>3, <2>4, <2>5 DEF Script
<1>4. CASE StartUninstall \/ Uninstall
  BY <1>0, <1>4 DEF StartUninstall, Uninstall, TypeOK
<1>5. CASE StartRepair \/ Repair \/ WindowCloses
  <2>1. CASE StartRepair \/ ReadToken \/ AuthCheck \/ WindowCloses
    BY <1>0, <2>1 DEF StartRepair, ReadToken, AuthCheck, WindowCloses, TypeOK
  <2>2. CASE RunElevated
    BY <1>0, <2>2, TokenAssumption DEF TokenAssumption, RunElevated, TypeOK
  <2>3. CASE RepairEnded \/ WaitForStatus
    BY <1>0, <2>3 DEF RepairEnded, WaitForStatus, TypeOK
  <2> QED BY <1>5, <2>1, <2>2, <2>3 DEF Repair
<1>6. CASE UNCHANGED vars
  BY <1>6 DEF vars, TypeOK
<1> QED BY <1>1, <1>2, <1>3, <1>4, <1>5, <1>6 DEF Next

\* Type correctness of token, service, scripts and window.
THEOREM TokenTypesCorrect == Spec => []TypeOK
<1>1. Init => TypeOK
  BY TypeInit
<1>2. TypeOK /\ [Next]_vars => TypeOK'
  BY TypeNext
<1> QED BY <1>1, <1>2, PTL DEF Spec

-----------------------------------------------------------------------------
(* Agreement of file and service.                                          *)

\* The steps of a script before it knows that the old service is gone, and its failure.
Early == {"quiesce", "quiesced", "reset", "test", "create", "write", "examine",
          "await", "failed"}

\* Only a script that is at one of them excuses a service with another token:
\* from "configure" on every service that serves has been started since.
AgreementInv ==
    /\ registered = "no" => service = "stopped"
    /\ service = "serving" /\ held # file => \E s \in Scripts : script[s] \in Early

LEMMA AgreementInit == Init => AgreementInv
  BY DEF Init, AgreementInv

\* A step in which no script that is early ceases to be, and in which file and
\* service part only if they had parted or a script is early.
LEMMA StillExcused ==
  ASSUME TypeOK, AgreementInv,
         registered' = "no" => service' = "stopped",
         \/ \A s \in Scripts : script[s] \in Early => script'[s] \in Early
         \/ service' # "serving",
         \/ service' = service /\ held' = held /\ file' = file
         \/ service' # "serving"
         \/ held' = file'
         \/ \E s \in Scripts : script'[s] \in Early
  PROVE  AgreementInv'
  BY DEF AgreementInv

LEMMA AgreementNext ==
  ASSUME TypeOK, AgreementInv, [Next]_vars
  PROVE  AgreementInv'
<1> USE DEF Early
<1>1. CASE Service
  BY <1>1, StillExcused DEF Service, EnsureToken, WriteToken, Shutdown, AgreementInv
<1>2. CASE ServiceFails \/ StartByHand \/ Reboot
  BY <1>2, StillExcused DEF ServiceFails, StartByHand, Reboot, AgreementInv
<1>3. ASSUME NEW s \in Scripts, Script(s) \/ Throw(s) \/ StartSetup(s) PROVE AgreementInv'
  <2>0. script \in [Scripts -> Ended \cup Running]
    BY DEF TypeOK
  <2>1. CASE StopForUpgrade(s) \/ StoppedForUpgrade(s)
    BY <2>0, <2>1, StillExcused DEF StopForUpgrade, StoppedForUpgrade, AgreementInv
  <2>2. CASE ResetToken(s) \/ TestToken(s) \/ SetContent(s)
    BY <2>0, <2>2, StillExcused DEF ResetToken, TestToken, SetContent, AgreementInv
  <2>3. CASE Examine(s) \/ AwaitStop(s)
    BY <2>0, <2>3, StillExcused DEF Examine, AwaitStop, AgreementInv
  <2>4. CASE Register(s) \/ StartService(s) \/ VerifyStatus(s)
    BY <2>0, <2>4, StillExcused DEF Register, StartService, VerifyStatus, AgreementInv
  <2>5. CASE Throw(s) \/ StartSetup(s)
    BY <2>0, <2>5, StillExcused DEF Throw, StartSetup, AgreementInv
  <2> QED BY <1>3, <2>1, <2>2, <2>3, <2>4, <2>5 DEF Script
<1>4. CASE StartUninstall \/ Uninstall
  BY <1>4, StillExcused DEF StartUninstall, Uninstall, AgreementInv
<1>5. CASE StartRepair \/ Repair \/ WindowCloses
  <2>1. CASE RunElevated
    BY <2>1, StillExcused DEF RunElevated, AgreementInv, TypeOK
  <2>2. CASE StartRepair \/ ReadToken \/ AuthCheck \/ RepairEnded \/ WaitForStatus \/ WindowCloses
    BY <2>2, StillExcused
       DEF StartRepair, ReadToken, AuthCheck, RepairEnded, WaitForStatus, WindowCloses, AgreementInv
  <2> QED BY <1>5, <2>1, <2>2 DEF Repair
<1>6. CASE UNCHANGED vars
  BY <1>6, StillExcused DEF vars, AgreementInv
<1> QED BY <1>1, <1>2, <1>3, <1>4, <1>5, <1>6 DEF Next

\* When every install script ended well, the running service holds the file's token.
THEOREM TokensAgree == Spec => []TokenAgrees
<1>1. Init => TypeOK /\ AgreementInv
  BY TypeInit, AgreementInit
<1>2. TypeOK /\ AgreementInv /\ [Next]_vars => (TypeOK /\ AgreementInv)'
  BY TypeNext, AgreementNext
<1>3. AgreementInv => TokenAgrees
  BY DEF AgreementInv, TokenAgrees, Early
<1> QED BY <1>1, <1>2, <1>3, PTL DEF Spec

==============================================================================
