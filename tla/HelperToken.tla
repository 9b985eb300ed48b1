----------------------------- MODULE HelperToken -----------------------------
(***************************************************************************)
(* The helper's bearer token: the file under ProgramData that the window   *)
(* reads for every request, the copy that the running service holds, and   *)
(* the installer, the uninstaller and Repair Helper, which replace the     *)
(* file and restart the service while both are in use.                     *)
(*                                                                         *)
(* Not part of src/ and modelled from how it is used: the service manager  *)
(* of Windows (registered, Launch, Reboot) and the user (Start...).        *)
(***************************************************************************)
EXTENDS Integers

CONSTANTS
    Tokens,     \* token values; one that is nowhere in use counts as new
    Missing,    \* there is no token file
    Blank,      \* the file is empty: created and not yet written, or torn
    None,       \* no token
    Scripts,    \* runs of install-helper-service.ps1 that may overlap
    Remedies,   \* what the user does as long as the helper refuses: repair, install
    MaxExtras,  \* how often the user does something else, or does it while something runs
    MaxFaults   \* how many failures can happen in one behavior

ASSUME TokenAssumption ==
    /\ Missing # Blank /\ {Missing, Blank, None} \cap Tokens = {}
    /\ None \notin Scripts
    /\ Remedies \subseteq {"repair", "install"}
    /\ MaxExtras \in Nat /\ MaxFaults \in Nat

VARIABLES
    file,       \* %ProgramData%\PVN v2\helper-token
    registered, \* the registration of PVNv2Helper: no, yes, deleting
    service,    \* what the service process is at
    held,       \* the token that it checks requests against
    control,    \* the control message that it has not looked at
    script,     \* next step of each run of the install script, or its outcome
    program,    \* the program files, or the next step of the uninstaller
    window,     \* next step of service_repair_helper
    sent,       \* the token in its Authorization header
    elevated,   \* the script that it waits for
    extras, faults

vars == <<file, registered, service, held, control, script, program,
          window, sent, elevated, extras, faults>>

Ended   == {"none", "ok", "failed"}
Running == {"quiesce", "quiesced", "reset", "test", "create", "write", "examine",
            "await", "configure", "new", "start", "verify"}

TypeOK ==
    /\ file \in Tokens \cup {Missing, Blank}
    /\ registered \in {"no", "yes", "deleting"}
    /\ service \in {"stopped", "starting", "missing", "created", "serving"}
    /\ held \in Tokens \cup {None} /\ (service = "serving" <=> held # None)
    /\ control \in {"none", "stop"}
    /\ script \in [Scripts -> Ended \cup Running]
    /\ program \in {"absent", "present", "await", "delete", "deleteAgain"}
    /\ window \in {"idle", "read", "ask", "elevate", "elevated", "wait", "readAgain", "askAgain"}
    /\ sent \in Tokens \cup {None}
    /\ elevated \in Scripts \cup {None} /\ (window = "elevated" => elevated # None)
    /\ extras \in 0..MaxExtras /\ faults \in 0..MaxFaults

Init ==
    /\ file = Missing /\ registered = "no"
    /\ service = "stopped" /\ held = None /\ control = "none"
    /\ script = [s \in Scripts |-> "none"] /\ program = "absent"
    /\ window = "idle" /\ sent = None /\ elevated = None
    /\ extras = 0 /\ faults = 0

-----------------------------------------------------------------------------
Fault   == faults < MaxFaults /\ faults' = faults + 1
NoFault == faults' = faults
Extra   == extras < MaxExtras /\ extras' = extras + 1

windowVars  == <<window, sent, elevated>>
serviceVars == <<registered, service, held, control>>
setupVars   == <<program, extras>>

\* The window is served: GO, STOP and reset carry the token that is checked for.
Authorized == service = "serving" /\ held = file

Fresh == Tokens \ {file, held, sent}

Goto(s, step) == script' = [script EXCEPT ![s] = step]

-----------------------------------------------------------------------------
(* The service process.                                                    *)

\* The process is gone; a registration that waits for that goes with it.
Stopped ==
    /\ service' = "stopped" /\ held' = None /\ control' = "none"
    /\ registered' = IF registered = "deleting" THEN "no" ELSE registered

Launch == service' = "starting" /\ control' = "none" /\ UNCHANGED <<registered, held>>

\* (mutant: a blank file is taken for a token)
EnsureAnyToken ==
    /\ service = "starting"
    /\ IF file = Missing THEN service' = "missing" /\ held' = held
                         ELSE service' = "serving" /\ held' = file
    /\ UNCHANGED <<file, registered, control, script, setupVars, windowVars, faults>>

\* ensure_service_token, up to the write; the service is Running since before it.
EnsureToken ==
    /\ service = "starting"
    /\ \/ /\ file \in Tokens
          /\ service' = "serving" /\ held' = file /\ UNCHANGED <<registered, control>>
       \/ file = Blank /\ Stopped
       \/ file = Missing /\ service' = "missing" /\ UNCHANGED <<registered, held, control>>
    /\ UNCHANGED <<file, script, setupVars, windowVars, faults>>

\* fs::write of a new token: the file is created, then filled.
WriteToken ==
    /\ \/ /\ service = "missing" /\ service' = "created"
          /\ file' = Blank /\ UNCHANGED held
       \/ /\ service = "created" /\ service' = "serving"
          /\ \E t \in Fresh : file' = t /\ held' = t
    /\ UNCHANGED <<registered, control, script, setupVars, windowVars, faults>>

\* The loop of serve_http finds the message of the control handler.
Shutdown ==
    /\ service = "serving" /\ control = "stop" /\ Stopped
    /\ UNCHANGED <<file, script, setupVars, windowVars, faults>>

\* The token cannot be read or written, the port is taken, accept fails.
ServiceFails ==
    /\ service # "stopped" /\ Stopped /\ Fault
    /\ UNCHANGED <<file, script, setupVars, windowVars>>

StartByHand ==
    /\ registered = "yes" /\ service = "stopped" /\ Launch
    /\ Extra /\ UNCHANGED <<file, script, program, windowVars, faults>>

-----------------------------------------------------------------------------
(* install-helper-service.ps1; setup runs it after it has stopped the      *)
(* service, and the window with -ResetToken.                               *)

\* Stop-Service, whose errors are ignored.
StopService ==
    /\ \/ control' = "stop" /\ NoFault
       \/ control' = control /\ Fault
    /\ UNCHANGED <<registered, service, held>>

\* WaitForStatus("Stopped") gives up: the service did not get the message, or is slow.
WaitTimesOut == service # "stopped" /\ IF control = "stop" THEN Fault ELSE NoFault

StopForUpgrade(s) ==
    /\ script[s] = "quiesce"
    /\ \/ service = "stopped" /\ Goto(s, "test") /\ NoFault /\ UNCHANGED serviceVars
       \/ service # "stopped" /\ Goto(s, "quiesced") /\ StopService
    /\ UNCHANGED <<file, setupVars, windowVars>>

\* The exit code of this command is printed and not looked at.
StoppedForUpgrade(s) ==
    /\ script[s] = "quiesced" /\ Goto(s, "test")
    /\ (service = "stopped" /\ NoFault) \/ WaitTimesOut
    /\ UNCHANGED <<file, serviceVars, setupVars, windowVars>>

\* (mutant: repair forgets -ResetToken)
KeepToken(s) ==
    /\ script[s] = "reset" /\ Goto(s, "test")
    /\ UNCHANGED <<file, serviceVars, setupVars, windowVars, faults>>

ResetToken(s) ==
    /\ script[s] = "reset" /\ Goto(s, "test") /\ file' = Missing
    /\ UNCHANGED <<serviceVars, setupVars, windowVars, faults>>

TestToken(s) ==
    /\ script[s] = "test" /\ Goto(s, IF file = Missing THEN "create" ELSE "examine")
    /\ UNCHANGED <<file, serviceVars, setupVars, windowVars, faults>>

SetContent(s) ==
    /\ \/ script[s] = "create" /\ file' = Blank /\ Goto(s, "write")
       \/ script[s] = "write" /\ file' \in Fresh /\ Goto(s, "examine")
    /\ UNCHANGED <<serviceVars, setupVars, windowVars, faults>>

\* (mutant: a service that runs is left alone)
ExamineOnly(s) ==
    /\ script[s] = "examine" /\ Goto(s, IF registered = "no" THEN "new" ELSE "configure")
    /\ UNCHANGED <<file, serviceVars, setupVars, windowVars, faults>>

\* Get-Service, and Stop-Service if there is one that runs.
Examine(s) ==
    /\ script[s] = "examine"
    /\ \/ registered = "no" /\ Goto(s, "new") /\ NoFault /\ UNCHANGED serviceVars
       \/ /\ registered # "no" /\ service = "stopped"
          /\ Goto(s, "configure") /\ NoFault /\ UNCHANGED serviceVars
       \/ registered # "no" /\ service # "stopped" /\ Goto(s, "await") /\ StopService
    /\ UNCHANGED <<file, setupVars, windowVars>>

AwaitStop(s) ==
    /\ script[s] = "await"
    /\ \/ service = "stopped" /\ Goto(s, "configure") /\ NoFault
       \/ WaitTimesOut /\ Goto(s, "failed")
    /\ UNCHANGED <<file, serviceVars, setupVars, windowVars>>

\* sc.exe config or New-Service, which fails if the other would be due.
Register(s) ==
    /\ \/ script[s] = "configure" /\ Goto(s, IF registered = "yes" THEN "start" ELSE "failed")
          /\ UNCHANGED registered
       \/ script[s] = "new" /\ registered = "no" /\ Goto(s, "start") /\ registered' = "yes"
       \/ script[s] = "new" /\ registered # "no" /\ Goto(s, "failed") /\ UNCHANGED registered
    /\ UNCHANGED <<file, service, held, control, setupVars, windowVars, faults>>

StartService(s) ==
    /\ script[s] = "start"
    /\ \/ registered # "yes" /\ Goto(s, "failed") /\ UNCHANGED serviceVars
       \/ registered = "yes" /\ service # "stopped" /\ Goto(s, "verify") /\ UNCHANGED serviceVars
       \/ registered = "yes" /\ service = "stopped" /\ Goto(s, "verify") /\ Launch
    /\ UNCHANGED <<file, setupVars, windowVars, faults>>

\* The service reaches Running and answers GET /status, or never will.
VerifyStatus(s) ==
    /\ script[s] = "verify"
    /\ \/ service = "serving" /\ Goto(s, "ok")
       \/ service = "stopped" /\ Goto(s, "failed")
    /\ UNCHANGED <<file, serviceVars, setupVars, windowVars, faults>>

\* $ErrorActionPreference is Stop: a step that fails ends the script.
Throw(s) ==
    /\ script[s] \in Running /\ Goto(s, "failed") /\ Fault
    /\ UNCHANGED <<file, serviceVars, setupVars, windowVars>>

Script(s) ==
    \/ StopForUpgrade(s) \/ StoppedForUpgrade(s) \/ ResetToken(s) \/ TestToken(s)
    \/ SetContent(s) \/ Examine(s) \/ AwaitStop(s) \/ Register(s) \/ StartService(s)
    \/ VerifyStatus(s)

-----------------------------------------------------------------------------
(* Setup and uninstaller.                                                  *)

Quiet == window = "idle" /\ program \in {"absent", "present"} /\ \A s \in Scripts : script[s] \in Ended

\* What the user does against a helper that refuses, one thing at a time, and other calls.
Calls(remedy) ==
    \/ remedy \in Remedies /\ Quiet /\ ~Authorized /\ extras' = extras
    \/ Extra

\* Setup; program files are copied before the hook that runs the script.
StartSetup(s) ==
    /\ program \in {"absent", "present"} /\ program' = "present"
    /\ script[s] \in Ended /\ Goto(s, "quiesce") /\ Calls("install")
    /\ UNCHANGED <<file, serviceVars, windowVars, faults>>

StartUninstall ==
    /\ program = "present" /\ Extra
    /\ \/ /\ registered = "no" /\ program' = "deleteAgain"
          /\ UNCHANGED <<serviceVars, faults>>
       \/ /\ registered # "no" /\ service = "stopped" /\ program' = "delete"
          /\ UNCHANGED <<serviceVars, faults>>
       \/ /\ registered # "no" /\ service # "stopped" /\ program' = "await"
          /\ StopService
    /\ UNCHANGED <<file, script, windowVars>>

\* sc.exe delete, by the script and by the hook once more, whatever the script did:
\* the second one also meets what a setup beside it has registered in between.  The
\* token file stays.
Uninstall ==
    /\ \/ /\ program = "await" /\ program' = "delete"
          /\ (service = "stopped" /\ NoFault) \/ WaitTimesOut
          /\ UNCHANGED registered
       \/ /\ \/ program = "delete" /\ program' = "deleteAgain"
             \/ program = "deleteAgain" /\ program' = "absent"
          /\ NoFault
          /\ registered' = IF service = "stopped" THEN "no" ELSE "deleting"
    /\ UNCHANGED <<file, service, held, control, script, extras, windowVars>>

-----------------------------------------------------------------------------
(* Repair Helper: service_repair_helper in the desktop process.            *)

StartRepair ==
    /\ program # "absent" /\ window = "idle" /\ window' = "read" /\ Calls("repair")
    /\ UNCHANGED <<file, serviceVars, script, program, sent, elevated, faults>>

\* read_service_token
ReadToken ==
    /\ \/ /\ window \in {"read", "readAgain"} /\ file \in Tokens /\ sent' = file
          /\ window' = IF window = "read" THEN "ask" ELSE "askAgain"
       \/ /\ window \in {"read", "readAgain"} /\ file \notin Tokens /\ sent' = None
          /\ window' = IF window = "read" THEN "elevate" ELSE "idle"
    /\ UNCHANGED <<file, serviceVars, script, setupVars, elevated, faults>>

\* service_auth_preflight: whoever is served has nothing to repair.
AuthCheck ==
    /\ \/ /\ window \in {"ask", "askAgain"} /\ service = "serving" /\ held = sent
          /\ window' = "idle" /\ NoFault
       \/ /\ window \in {"ask", "askAgain"}
          /\ IF service = "serving" /\ held = sent THEN Fault ELSE NoFault
          /\ window' = IF window = "ask" THEN "elevate" ELSE "idle"
    /\ sent' = None
    /\ UNCHANGED <<file, serviceVars, script, setupVars, elevated>>

\* The files that the elevated script needs; the uninstaller deletes them last.
ResourcesPresent == program # "absent"

\* run_elevated_helper_repair, which waits for the script; the user may decline.
RunElevated ==
    /\ window = "elevate"
    /\ \/ /\ ResourcesPresent
          /\ \E s \in Scripts : script[s] \in Ended /\ Goto(s, "reset") /\ elevated' = s
          /\ window' = "elevated" /\ NoFault
       \/ window' = "idle" /\ NoFault /\ ~ResourcesPresent /\ UNCHANGED <<script, elevated>>
       \/ window' = "idle" /\ Fault /\ UNCHANGED <<script, elevated>>
    /\ UNCHANGED <<file, serviceVars, setupVars, sent>>

RepairEnded ==
    /\ window = "elevated"
    /\ \/ script[elevated] = "ok" /\ window' = "wait"
       \/ script[elevated] = "failed" /\ window' = "idle"
    /\ elevated' = None
    /\ UNCHANGED <<file, serviceVars, script, setupVars, sent, faults>>

\* wait_for_status_200
WaitForStatus ==
    /\ window = "wait"
    /\ \/ service = "serving" /\ window' = "readAgain" /\ NoFault
       \/ service = "stopped" /\ window' = "idle" /\ NoFault
       \/ window' = "idle" /\ Fault
    /\ UNCHANGED <<file, serviceVars, script, setupVars, sent, elevated>>

Repair == ReadToken \/ AuthCheck \/ RunElevated \/ RepairEnded \/ WaitForStatus

-----------------------------------------------------------------------------
\* The window is closed; a script that it has started goes on.
WindowCloses ==
    /\ window # "idle" /\ window' = "idle" /\ sent' = None /\ elevated' = None /\ Fault
    /\ UNCHANGED <<file, serviceVars, script, setupVars>>

\* Everything stops where it is; a registered service starts again by itself.
Reboot ==
    /\ Fault
    /\ script' = [s \in Scripts |-> IF script[s] \in Running THEN "failed" ELSE script[s]]
    /\ program' = IF program = "absent" THEN program ELSE "present"
    /\ window' = "idle" /\ sent' = None /\ elevated' = None
    /\ held' = None /\ control' = "none"
    /\ registered' = IF registered = "yes" THEN "yes" ELSE "no"
    /\ service' = IF registered = "yes" THEN "starting" ELSE "stopped"
    /\ UNCHANGED <<file, extras>>

Service == EnsureToken \/ WriteToken \/ Shutdown

Next ==
    \/ Service \/ ServiceFails \/ StartByHand
    \/ \E s \in Scripts : Script(s) \/ Throw(s) \/ StartSetup(s)
    \/ StartUninstall \/ Uninstall
    \/ StartRepair \/ Repair \/ WindowCloses
    \/ Reboot

Spec == Init /\ [][Next]_vars

\* Processes run, scripts end, and the user tries the remedy again and again.
FairSpec ==
    /\ Spec
    /\ WF_vars(Service) /\ WF_vars(Uninstall) /\ WF_vars(Repair)
    /\ \A s \in Scripts : WF_vars(Script(s))
    /\ "repair" \in Remedies => SF_vars(StartRepair)
    /\ "install" \in Remedies => SF_vars(\E s \in Scripts : StartSetup(s))

-----------------------------------------------------------------------------
(* Properties.                                                             *)

\* Whenever the last run of every install script ended well, the service holds
\* the token of the file: what a script does to the file while the old service
\* runs, or the service to the file while a script runs, is put right before
\* the script reports success.
TokenAgrees ==
    service = "serving" /\ (\A s \in Scripts : script[s] \in {"none", "ok"}) => held = file

\* A helper that refuses the window, for whatever reason - the file is missing,
\* torn or newer than the service, the service is stopped or not registered -
\* is brought back for good by the remedy.
HelperComesBack == <>[](program # "absent" => Authorized)

\* What the helper says when it finds a blank file, "reinstall PVN or repair
\* helper service": both replace it.  Setup does not, without -ResetToken.
BlankTokenIsReplaced == file = Blank ~> file # Blank

==============================================================================
