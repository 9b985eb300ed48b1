--------------------------- MODULE ControllerPromise ---------------------------
(***************************************************************************)
(* What the TunnelController promises to the threads that call it, without *)
(* the commands, files and routes it takes: one operation at a time, the   *)
(* states it can end in, and On for an installed tunnel only.              *)
(* TunnelController implements it; HelperService is built on it.           *)
(***************************************************************************)
CONSTANT
    Unmarked    \* operations with an error that is not turned into state Error

VARIABLES
    state,      \* ServiceStatus.state
    op,         \* operation in progress
    installed   \* the tunnel service pvn-v2 is installed

vars == <<state, op, installed>>

States == {"off", "connecting", "on", "disconnecting", "error"}
Operations == {"connect", "disconnect", "reset"}

\* An operation says first what it is at; reset does not.
Begun(o) ==
    CASE o = "connect" -> "connecting"
      [] o = "disconnect" -> "disconnecting"
      [] o = "reset" -> state

Init == state = "off" /\ op = "none" /\ installed = FALSE

Start(o) ==
    /\ op = "none"
    /\ op' = o /\ state' = Begun(o) /\ UNCHANGED installed

\* cleanup uninstalls, or fails to; only connect installs.
Work ==
    /\ op # "none"
    /\ installed' \in IF op = "connect" THEN BOOLEAN ELSE {installed, FALSE}
    /\ UNCHANGED <<state, op>>

\* The operation returns Ok.
Succeed ==
    /\ op # "none" /\ (op = "connect" => installed)
    /\ op' = "none" /\ state' = (IF op = "connect" THEN "on" ELSE "off")
    /\ UNCHANGED installed

\* The operation returns Err: through fail(), or by `?` past it.
Fail ==
    /\ op # "none" /\ op' = "none"
    /\ \/ op # "reset" /\ state' = "error"
       \/ op \in Unmarked \cup {"reset"} /\ state' = state
    /\ UNCHANGED installed

\* The process ends, with or without an operation in progress; new() starts with Off.
Interrupt == op' = "none" /\ state' = "off" /\ UNCHANGED installed

Next == (\E o \in Operations : Start(o)) \/ Work \/ Succeed \/ Fail \/ Interrupt

Spec == Init /\ [][Next]_vars

================================================================================
