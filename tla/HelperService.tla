----------------------------- MODULE HelperService -----------------------------
(***************************************************************************)
(* The window, the desktop process that carries out its commands, and the  *)
(* helper service with one thread per connection and one mutex.            *)
(*                                                                         *)
(*   window --calls--> desktop --HTTP--> handler thread --mutex--> control *)
(*   window <-answers- desktop <-------- handler thread                    *)
(*                                                                         *)
(* The commands of the desktop process are not async, so that Tauri runs   *)
(* them on its main thread, one after the other.  A request that takes     *)
(* more than 120 s is given up by the desktop process and by nobody else:  *)
(* its handler goes on, or still waits for the mutex.  That mutex favours  *)
(* no waiter.  The controller behind it is ControllerPromise.              *)
(***************************************************************************)
EXTENDS Naturals, Sequences, FiniteSets

CONSTANTS
    Threads,    \* connections that the helper can have at a time
    None,       \* no connection
    Unmarked,   \* see ControllerPromise
    Advanced,   \* buttons that the user clicks under Advanced
    MaxCalls,   \* bound on commands called and not yet answered to the window
    MaxFaults   \* bound on requests lost, given up, and stops of the service

ASSUME HelperAssumption ==
    /\ None \notin Threads
    /\ Unmarked \subseteq {"connect", "disconnect"}
    /\ Advanced \subseteq {"reset", "diagnostics"}
    /\ MaxCalls \in Nat /\ MaxFaults \in Nat

VARIABLES
    state, op, installed,   \* the controller
    serving,                \* the service runs
    thread, job,            \* handler threads: where they are, what they were asked
    calls, asked,           \* desktop: commands to run, the connection of the first
    answers,                \* results on their way to the window
    shown, busy, error,     \* window: status.state, busy, error text or not
    faults, happened,       \* number of failures; a timeout, a click under Advanced
    wish                    \* last of GO and STOP clicked, or that STOP confirmed

controller == <<state, op, installed>>
helper  == <<controller, serving, thread, job>>
desktop == <<calls, asked, answers>>
window  == <<shown, busy, error>>
vars    == <<helper, desktop, window, faults, happened, wish>>

Controller == INSTANCE ControllerPromise

Power    == {"connect", "disconnect"}
\* refreshStatus by the timer, and by the catch block of a failed GO or STOP
Queries  == {"status", "refresh", "diagnostics"}
Commands == Power \cup Queries \cup {"reset"}
Happenings == {"timeout", "advanced"}
Answers  == [cmd : Commands, ok : BOOLEAN, state : Controller!States]

TypeOK ==
    /\ state \in Controller!States /\ installed \in BOOLEAN
    /\ op \in Controller!Operations \cup {"none"}
    /\ serving \in BOOLEAN
    /\ thread \in [Threads -> {"free", "lock", "run"}]
    /\ job \in [Threads -> Commands]
    /\ calls \in Seq(Commands) /\ answers \in Seq(Answers)
    /\ asked \in Threads \cup {None}
    /\ shown \in Controller!States /\ busy \in BOOLEAN /\ error \in BOOLEAN
    /\ faults \in 0..MaxFaults /\ happened \subseteq Happenings
    /\ wish \in Power \cup {"none", "stopped"}

Fault(f) ==
    /\ faults < MaxFaults /\ faults' = faults + 1
    /\ happened' = happened \cup ({f} \cap Happenings)
NoFault == UNCHANGED <<faults, happened>>

Init ==
    /\ Controller!Init
    /\ serving = TRUE
    /\ thread = [t \in Threads |-> "free"] /\ job = [t \in Threads |-> "status"]
    /\ calls = <<>> /\ asked = None /\ answers = <<>>
    /\ shown = "off" /\ busy = FALSE /\ error = FALSE
    /\ faults = 0 /\ happened = {}
    /\ wish = "none"

-----------------------------------------------------------------------------
(* The window.                                                             *)

isWorking == busy \/ shown \in {"connecting", "disconnecting"}

\* invoke(): there is room for one more command.
Invoke(c) ==
    /\ Len(calls) + Len(answers) < MaxCalls
    /\ calls' = Append(calls, c) /\ UNCHANGED <<asked, answers>>

\* (mutant: no more polling once an error is shown)
PollUntilError ==
    /\ ~error /\ Invoke("status")
    /\ NoFault /\ UNCHANGED <<helper, window, wish>>

\* The timer, every 2.5 s, whatever else is going on.
Poll ==
    /\ Invoke("status")
    /\ NoFault /\ UNCHANGED <<helper, window, wish>>

\* The one big button.
Click(c) ==
    /\ ~isWorking /\ c = (IF shown = "on" THEN "disconnect" ELSE "connect")
    /\ Invoke(c)
    /\ busy' = TRUE /\ error' = FALSE /\ shown' = shown
    /\ wish' = c
    /\ NoFault /\ UNCHANGED helper

\* The buttons under Advanced, which are never disabled.
ClickAdvanced(c) ==
    /\ Invoke(c)
    /\ busy' = TRUE /\ error' = FALSE /\ shown' = shown
    /\ happened' = happened \cup {"advanced"} /\ faults' = faults
    /\ UNCHANGED <<helper, wish>>

\* (mutant: catch leaves it at the error text)
NeverRefreshes(a) == FALSE

\* The catch block of connect and of disconnect, not that of reset.
Refreshes(a) == ~a.ok /\ a.cmd \in Power

\* (mutant: refreshStatus sets busy to false, too)
BusyTillAnyAnswer(a) == Refreshes(a)

\* (mutant: no finally, a refresh that fails ends the handler)
BusyTillSuccess(a) == Refreshes(a) \/ a.cmd = "status" \/ (a.cmd = "refresh" /\ ~a.ok)

\* The handler of GO, STOP and Advanced has not reached its finally.
StaysBusy(a) == Refreshes(a) \/ a.cmd = "status"

\* A command resolves or rejects.
HandleAnswer ==
    /\ answers # <<>>
    /\ LET a == Head(answers)
       IN /\ answers' = Tail(answers)
          /\ calls' = IF Refreshes(a) THEN Append(calls, "refresh") ELSE calls
          /\ busy' = (busy /\ StaysBusy(a))
          /\ shown' = IF a.ok /\ a.cmd # "diagnostics" THEN a.state ELSE shown
          /\ error' = (error \/ ~a.ok)
          /\ wish' = IF a.ok /\ a.cmd = "disconnect" /\ wish = "disconnect"
                        THEN "stopped" ELSE wish
    /\ NoFault /\ UNCHANGED <<helper, asked>>

-----------------------------------------------------------------------------
(* The desktop process.                                                    *)

\* The command at hand gets its result.
Resolve(ok, s) ==
    /\ answers' = Append(answers, [cmd |-> Head(calls), ok |-> ok, state |-> s])
    /\ calls' = Tail(calls) /\ asked' = None

\* (mutant: an error comes with a state of its own)
RejectAsUnreachable == Resolve(FALSE, "unreachable")

\* An error has no status.  service_diagnostics is Ok whatever happened to its requests.
Reject == Resolve(Head(calls) = "diagnostics", "off")

\* service_request: read the token for a POST, connect to the helper, send.
Send ==
    /\ calls # <<>> /\ asked = None
    /\ \/ \E t \in Threads :
             /\ serving /\ thread[t] = "free"
             /\ thread' = [thread EXCEPT ![t] = "lock"]
             /\ job' = [job EXCEPT ![t] = Head(calls)]
             /\ asked' = t /\ UNCHANGED <<calls, answers>>
          /\ NoFault
       \/ /\ IF serving THEN Head(calls) \notin Queries /\ Fault("token") ELSE NoFault
          /\ Reject /\ UNCHANGED <<thread, job>>
    /\ UNCHANGED <<controller, serving, window, wish>>

\* The answer takes longer than the timeout of the HTTP client.
Timeout ==
    /\ asked # None /\ Fault("timeout") /\ Reject
    /\ UNCHANGED <<helper, window, wish>>

-----------------------------------------------------------------------------
(* The helper service.                                                     *)

\* The thread ends; whoever still waits for its answer gets it.
Answer(t, ok, s) ==
    /\ thread' = [thread EXCEPT ![t] = "free"] /\ job' = [job EXCEPT ![t] = "status"]
    /\ serving' = serving
    /\ IF asked # t THEN UNCHANGED desktop
       ELSE IF ok /\ job[t] # "diagnostics" THEN Resolve(TRUE, s) ELSE Reject

\* (mutant: the refusal is written, but the handler does not return)
RefuseAndGoOn(t) ==
    /\ thread[t] = "lock" /\ asked = t /\ Fault("refused") /\ Reject
    /\ UNCHANGED <<helper, window, wish>>

\* The request cannot be read, has the wrong token or no valid body.
Refuse(t) ==
    /\ thread[t] = "lock" /\ Fault("refused") /\ Answer(t, FALSE, state)
    /\ UNCHANGED <<controller, window, wish>>

\* GET: under the mutex, and without effect.
ReadStatus(t) ==
    /\ thread[t] = "lock" /\ job[t] \in Queries
    /\ op = "none" /\ Answer(t, TRUE, state)
    /\ NoFault /\ UNCHANGED <<controller, window, wish>>

\* POST: the thread takes the mutex and keeps it to the end of the operation.
StartOperation(t) ==
    /\ thread[t] = "lock" /\ job[t] \in Controller!Operations
    /\ Controller!Start(job[t]) /\ thread' = [thread EXCEPT ![t] = "run"]
    /\ NoFault /\ UNCHANGED <<serving, job, desktop, window, wish>>

RunOperation(t) ==
    /\ thread[t] = "run" /\ Controller!Work
    /\ NoFault /\ UNCHANGED <<serving, thread, job, desktop, window, wish>>

FinishOperation(t) ==
    /\ thread[t] = "run"
    /\ \/ Controller!Succeed /\ Answer(t, TRUE, state')
       \/ Controller!Fail /\ Answer(t, FALSE, state)
    /\ NoFault /\ UNCHANGED <<window, wish>>

\* The service manager stops the service, or it dies: all connections break.
StopService ==
    /\ serving /\ serving' = FALSE /\ Fault("restart")
    /\ Controller!Interrupt
    /\ thread' = [t \in Threads |-> "free"] /\ job' = [t \in Threads |-> "status"]
    /\ IF asked = None THEN UNCHANGED desktop ELSE Reject
    /\ UNCHANGED <<window, wish>>

StartService ==
    /\ ~serving /\ serving' = TRUE
    /\ NoFault /\ UNCHANGED <<controller, thread, job, desktop, window, wish>>

-----------------------------------------------------------------------------
User    == (\E c \in Power : Click(c)) \/ (\E c \in Advanced : ClickAdvanced(c))
Window  == User \/ Poll \/ HandleAnswer
Desktop == Send \/ Timeout
Thread(t) ==
    \/ Refuse(t) \/ ReadStatus(t)
    \/ StartOperation(t) \/ RunOperation(t) \/ FinishOperation(t)

Next ==
    \/ Window \/ Desktop \/ StopService \/ StartService
    \/ \E t \in Threads : Thread(t)

Spec == Init /\ [][Next]_vars

\* The timer ticks, the main threads of window and desktop process run, the
\* calls of an operation return, a free mutex is taken by a waiting thread, and
\* the service, which is registered to start automatically, comes back.
FairSpec ==
    /\ Spec
    /\ WF_vars(Poll) /\ WF_vars(HandleAnswer) /\ WF_vars(Send) /\ WF_vars(StartService)
    /\ \A t \in Threads :
          WF_vars(ReadStatus(t)) /\ WF_vars(StartOperation(t)) /\ WF_vars(FinishOperation(t))

-----------------------------------------------------------------------------
(* Properties.                                                             *)

\* Threads that were asked to do c, and have not done it.
Pending(c) == {t \in Threads : thread[t] # "free" /\ job[t] = c}
Waiting(c) == {i \in 1..Len(calls) : calls[i] = c /\ ~(i = 1 /\ asked # None)}
Outstanding(c) == Cardinality(Pending(c)) + Cardinality(Waiting(c))

\* GO and STOP never pile up: with neither a timeout nor a button of Advanced
\* in between, the next one can be clicked only when the last one is over.
OnePowerCall ==
    happened \cap {"timeout", "advanced"} = {} =>
        Outstanding("connect") + Outstanding("disconnect") <= 1

\* Once STOP is confirmed and nobody has clicked GO since, the tunnel stays down:
\* a connect that is still left anywhere between button and mutex has another
\* STOP behind it.  (A connect that was given up after 120 s has none.)
StopIsFinal ==
    wish = "stopped" /\ "timeout" \notin happened =>
        /\ Pending("connect") # {} => Waiting("disconnect") # {}
        /\ \A i \in Waiting("connect") : \E j \in Waiting("disconnect") : j > i

Quiet ==
    /\ calls = <<>> /\ answers = <<>>
    /\ \A t \in Threads : thread[t] = "free"

\* With nothing under way the window shows the state of the helper, whatever
\* was clicked and however the operations ended, without a wait for the timer.
ShowsHelperState == faults = 0 /\ Quiet => shown = state

\* What makes the button dead for a while is on its way: a command of the user, or
\* the refresh after one, is still to run or to be answered, and every way that it
\* can end takes busy back or puts the next one in its place.
BusyHasReason ==
    busy => \/ \E i \in 1..Len(calls) : calls[i] # "status"
            \/ \E i \in 1..Len(answers) : answers[i].cmd # "status"

UserRests == <>[][~User]_vars

\* Once the user lets go of the buttons, the window comes to show the state of
\* the helper for good, whichever answers were lost or given up and however
\* often the service was restarted.
WindowCatchesUp == UserRests => <>[](shown = state)

\* An operation of the helper that ended early and left its state behind.
Stuck == op = "none" /\ state \in {"connecting", "disconnecting"}

\* The button comes back for good, unless the helper itself is stuck: busy is
\* taken back on every path, with the refresh of a failed command lost as well.
ButtonComesBack == UserRests => <>[](~isWorking \/ Stuck)

\* "Try again" is what the window says to an error: then there is a button to
\* try it with, at once or after the next status.
TryAgainPossible == error ~> ~isWorking

================================================================================
