-------------------------- MODULE HelperServiceProofs --------------------------
(***************************************************************************)
(* Theorems about HelperService, for any number of connections, commands   *)
(* under way and failures.                                                 *)
(***************************************************************************)
EXTENDS HelperService, SequenceTheorems, FiniteSetTheorems, TLAPS

\* The desktop process waits for a connection on behalf of its first command.
AskedForFirst == asked # None => calls # <<>>

Typed == TypeOK /\ AskedForFirst

-----------------------------------------------------------------------------
(* Types.                                                                  *)

DesktopTyped ==
    /\ calls \in Seq(Commands) /\ answers \in Seq(Answers)
    /\ asked \in Threads \cup {None} /\ AskedForFirst

LEMMA ResolveTyped ==
  ASSUME Typed, calls # <<>>, NEW ok \in BOOLEAN, NEW s \in Controller!States, Resolve(ok, s)
  PROVE  DesktopTyped' /\ asked' = None
<1>1. Head(calls) \in Commands /\ Tail(calls) \in Seq(Commands)
  BY HeadTailProperties DEF Typed, TypeOK
<1>2. [cmd |-> Head(calls), ok |-> ok, state |-> s] \in Answers
  BY <1>1 DEF Answers
<1>3. answers' \in Seq(Answers)
  BY <1>2, AppendProperties DEF Resolve, Typed, TypeOK
<1> QED BY <1>1, <1>3 DEF Resolve, DesktopTyped, AskedForFirst

LEMMA RejectTyped ==
  ASSUME Typed, calls # <<>>, Reject
  PROVE  DesktopTyped' /\ asked' = None
<1>1. (Head(calls) = "diagnostics") \in BOOLEAN /\ "off" \in Controller!States
  BY DEF Controller!States
<1> QED BY <1>1, ResolveTyped DEF Reject

LEMMA InvokeTyped ==
  ASSUME Typed, NEW c \in Commands, Invoke(c)
  PROVE  DesktopTyped'
BY AppendProperties DEF Typed, TypeOK, Invoke, DesktopTyped, AskedForFirst


ControllerTyped ==
    /\ state \in Controller!States /\ installed \in BOOLEAN
    /\ op \in Controller!Operations \cup {"none"}

LEMMA ControllerSteps ==
  ASSUME Typed,
         \/ \E o \in Controller!Operations : Controller!Start(o)
         \/ Controller!Work \/ Controller!Succeed \/ Controller!Fail \/ Controller!Interrupt
         \/ UNCHANGED controller
  PROVE  ControllerTyped'
<1> USE DEF Typed, TypeOK, ControllerTyped, Controller!States, Controller!Operations
<1>1. ASSUME NEW o \in Controller!Operations, Controller!Start(o) PROVE ControllerTyped'
  BY <1>1 DEF Controller!Start, Controller!Begun
<1>2. CASE Controller!Work
  BY <1>2 DEF Controller!Work
<1>3. CASE Controller!Succeed
  BY <1>3 DEF Controller!Succeed
<1>4. CASE Controller!Fail \/ Controller!Interrupt
  BY <1>4 DEF Controller!Fail, Controller!Interrupt
<1>5. CASE UNCHANGED controller
  BY <1>5 DEF controller
<1> QED BY <1>1, <1>2, <1>3, <1>4, <1>5

WindowTyped ==
    /\ shown \in Controller!States /\ busy \in BOOLEAN /\ error \in BOOLEAN
    /\ wish \in Power \cup {"none", "stopped"}
    /\ faults \in 0..MaxFaults /\ happened \subseteq Happenings

ThreadsTyped ==
    /\ serving \in BOOLEAN
    /\ thread \in [Threads -> {"free", "lock", "run"}] /\ job \in [Threads -> Commands]

LEMMA FaultTyped ==
  ASSUME Typed, NoFault \/ \E f \in {"timeout", "token", "refused", "restart"} : Fault(f)
  PROVE  faults' \in 0..MaxFaults /\ happened' \subseteq Happenings
<1>1. faults \in 0..MaxFaults /\ happened \subseteq Happenings
  BY DEF Typed, TypeOK
<1>2. CASE NoFault
  BY <1>1, <1>2 DEF NoFault
<1>3. ASSUME NEW f \in {"timeout", "token", "refused", "restart"}, Fault(f)
      PROVE  faults' \in 0..MaxFaults /\ happened' \subseteq Happenings
  <2>1. faults < MaxFaults /\ faults' = faults + 1
    BY <1>3 DEF Fault
  <2>2. faults' \in 0..MaxFaults
    BY <1>1, <2>1, HelperAssumption DEF HelperAssumption
  <2>3. happened' = happened \cup ({f} \cap Happenings)
    BY <1>3 DEF Fault
  <2> QED BY <1>1, <2>2, <2>3
<1> QED BY <1>2, <1>3

LEMMA Parts == Typed <=> ControllerTyped /\ ThreadsTyped /\ DesktopTyped /\ WindowTyped
BY DEF Typed, TypeOK, ControllerTyped, ThreadsTyped, DesktopTyped, WindowTyped

LEMMA PartsNext ==
  ASSUME ControllerTyped', ThreadsTyped', DesktopTyped', WindowTyped'
  PROVE  Typed'
BY DEF Typed, TypeOK, ControllerTyped, ThreadsTyped, DesktopTyped, WindowTyped

\* What a step leaves alone keeps its type.
LEMMA ThreadsKept ==
  ASSUME Typed, UNCHANGED <<serving, thread, job>>
  PROVE  ThreadsTyped'
BY DEF Typed, TypeOK, ThreadsTyped

LEMMA HelperKept ==
  ASSUME Typed, UNCHANGED helper
  PROVE  ControllerTyped' /\ ThreadsTyped'
<1>1. UNCHANGED controller /\ UNCHANGED <<serving, thread, job>>
  BY DEF helper
<1> QED BY <1>1, ControllerSteps, ThreadsKept

LEMMA DesktopKept ==
  ASSUME Typed, UNCHANGED desktop
  PROVE  DesktopTyped'
<1>1. calls' = calls /\ asked' = asked /\ answers' = answers
  BY DEF desktop
<1> QED BY <1>1 DEF Typed, TypeOK, DesktopTyped, AskedForFirst

LEMMA WindowKept ==
  ASSUME Typed, UNCHANGED <<window, wish>>,
         NoFault \/ \E f \in {"timeout", "token", "refused", "restart"} : Fault(f)
  PROVE  WindowTyped'
<1>1. faults' \in 0..MaxFaults /\ happened' \subseteq Happenings
  BY FaultTyped
<1>2. shown' = shown /\ busy' = busy /\ error' = error /\ wish' = wish
  BY DEF window
<1> QED BY <1>1, <1>2 DEF Typed, TypeOK, WindowTyped

\* A thread that ends.
LEMMA AnswerTyped ==
  ASSUME Typed, NEW t \in Threads, NEW ok \in BOOLEAN, NEW s \in Controller!States, Answer(t, ok, s)
  PROVE  DesktopTyped' /\ ThreadsTyped'
<1>1. ThreadsTyped'
  BY DEF Answer, Typed, TypeOK, ThreadsTyped, Commands, Queries
<1>2. CASE asked # t /\ UNCHANGED desktop
  BY <1>1, <1>2, DesktopKept
<1>3. CASE asked = t
  <2>1. calls # <<>>
    BY <1>3, HelperAssumption DEF HelperAssumption, Typed, AskedForFirst
  <2>2. Resolve(TRUE, s) \/ Reject
    BY <1>3 DEF Answer
  <2> QED BY <1>1, <2>1, <2>2, ResolveTyped, RejectTyped
<1> QED BY <1>1, <1>2, <1>3 DEF Answer

LEMMA TypedInit == Init => Typed
<1> SUFFICES ASSUME Init PROVE Typed
  OBVIOUS
<1>1. ControllerTyped
  BY DEF Init, Controller!Init, ControllerTyped, Controller!States
<1>2. DesktopTyped
  BY EmptySeq DEF Init, DesktopTyped, AskedForFirst
<1>3. ThreadsTyped
  BY DEF Init, ThreadsTyped, Commands, Queries
<1>4. WindowTyped
  <2>1. faults \in 0..MaxFaults
    BY HelperAssumption DEF HelperAssumption, Init
  <2> QED BY <2>1 DEF Init, WindowTyped, Controller!States, Power, Happenings
<1> QED BY <1>1, <1>2, <1>3, <1>4, Parts

LEMMA PollTyped ==
  ASSUME Typed, Poll
  PROVE  Typed'
<1>1. DesktopTyped'
  BY InvokeTyped DEF Poll, Commands, Queries
<1>2. ControllerTyped' /\ ThreadsTyped'
  BY HelperKept DEF Poll
<1>3. WindowTyped'
  BY WindowKept DEF Poll
<1> QED BY <1>1, <1>2, <1>3, PartsNext

LEMMA ClickTyped ==
  ASSUME Typed, NEW c \in Power, Click(c)
  PROVE  Typed'
<1>1. DesktopTyped'
  BY InvokeTyped DEF Click, Commands
<1>2. ControllerTyped' /\ ThreadsTyped'
  BY HelperKept DEF Click
<1>3. faults' \in 0..MaxFaults /\ happened' \subseteq Happenings
  BY FaultTyped DEF Click
<1>4. WindowTyped'
  BY <1>3 DEF Click, WindowTyped, Typed, TypeOK
<1> QED BY <1>1, <1>2, <1>4, PartsNext

LEMMA ClickAdvancedTyped ==
  ASSUME Typed, NEW c \in Advanced, ClickAdvanced(c)
  PROVE  Typed'
<1>1. DesktopTyped'
  <2>1. c \in Commands
    BY HelperAssumption DEF HelperAssumption, Commands, Queries
  <2> QED BY <2>1, InvokeTyped DEF ClickAdvanced
<1>2. ControllerTyped' /\ ThreadsTyped'
  BY HelperKept DEF ClickAdvanced
<1>3. happened' \subseteq Happenings
  BY DEF ClickAdvanced, Typed, TypeOK, Happenings
<1>4. WindowTyped'
  BY <1>3 DEF ClickAdvanced, WindowTyped, Typed, TypeOK
<1> QED BY <1>1, <1>2, <1>4, PartsNext

LEMMA HandleAnswerTyped ==
  ASSUME Typed, HandleAnswer
  PROVE  Typed'
<1>0. DesktopTyped /\ WindowTyped
  BY Parts
<1>1. Head(answers) \in Answers /\ Tail(answers) \in Seq(Answers)
  BY <1>0, HeadTailProperties DEF HandleAnswer, DesktopTyped
<1>2. Head(answers).state \in Controller!States
  BY <1>1 DEF Answers
<1>3. calls' = Append(calls, "refresh") \/ calls' = calls
  BY DEF HandleAnswer
<1>4. calls' \in Seq(Commands) /\ (calls # <<>> => calls' # <<>>)
  BY <1>0, <1>3, AppendProperties DEF DesktopTyped, Commands, Queries
<1>5. answers' = Tail(answers) /\ asked' = asked
  BY DEF HandleAnswer
<1>6. DesktopTyped'
  BY <1>0, <1>1, <1>4, <1>5 DEF DesktopTyped, AskedForFirst
<1>7. busy' \in BOOLEAN /\ error' \in BOOLEAN
  BY DEF HandleAnswer
<1>8. shown' \in Controller!States
  BY <1>0, <1>2 DEF HandleAnswer, WindowTyped
<1>9. wish' \in Power \cup {"none", "stopped"}
  BY <1>0 DEF HandleAnswer, WindowTyped
<1>10. faults' \in 0..MaxFaults /\ happened' \subseteq Happenings
  BY FaultTyped DEF HandleAnswer
<1>11. WindowTyped'
  BY <1>7, <1>8, <1>9, <1>10 DEF WindowTyped
<1>12. ControllerTyped' /\ ThreadsTyped'
  BY HelperKept DEF HandleAnswer
<1> QED BY <1>6, <1>11, <1>12, PartsNext

LEMMA SendTyped ==
  ASSUME Typed, Send
  PROVE  Typed'
<1>1. /\ UNCHANGED controller /\ serving' = serving /\ UNCHANGED <<window, wish>>
      /\ calls # <<>>
      /\ NoFault \/ Fault("token")
  BY DEF Send
<1>2. ControllerTyped' /\ WindowTyped'
  BY <1>1, ControllerSteps, WindowKept
<1>3. CASE Reject /\ UNCHANGED <<thread, job>>
  <2>1. DesktopTyped'
    BY <1>1, <1>3, RejectTyped
  <2>2. ThreadsTyped'
    BY <1>1, <1>3, ThreadsKept
  <2> QED BY <1>2, <2>1, <2>2, PartsNext
<1>4. ASSUME NEW t \in Threads, thread' = [thread EXCEPT ![t] = "lock"],
             job' = [job EXCEPT ![t] = Head(calls)], asked' = t, UNCHANGED <<calls, answers>>
      PROVE  Typed'
  <2>1. Head(calls) \in Commands
    BY <1>1, HeadTailProperties DEF Typed, TypeOK
  <2>2. ThreadsTyped'
    BY <1>1, <1>4, <2>1 DEF Typed, TypeOK, ThreadsTyped
  <2>3. DesktopTyped'
    BY <1>1, <1>4 DEF Typed, TypeOK, DesktopTyped, AskedForFirst
  <2> QED BY <1>2, <2>2, <2>3, PartsNext
<1> QED BY <1>3, <1>4 DEF Send

LEMMA TimeoutTyped ==
  ASSUME Typed, Timeout
  PROVE  Typed'
<1>1. DesktopTyped'
  BY RejectTyped DEF Timeout, Typed, AskedForFirst
<1>2. ControllerTyped' /\ ThreadsTyped' /\ WindowTyped'
  BY HelperKept, WindowKept DEF Timeout
<1> QED BY <1>1, <1>2, PartsNext

LEMMA ThreadTyped ==
  ASSUME Typed, NEW t \in Threads, Thread(t)
  PROVE  Typed'
<1>0. state \in Controller!States
  BY DEF Typed, TypeOK
<1>1. CASE Refuse(t)
  <2>1. DesktopTyped' /\ ThreadsTyped'
    BY <1>0, <1>1, AnswerTyped DEF Refuse
  <2>2. ControllerTyped' /\ WindowTyped'
    BY <1>1, ControllerSteps, WindowKept DEF Refuse
  <2> QED BY <2>1, <2>2, PartsNext
<1>2. CASE ReadStatus(t)
  <2>1. DesktopTyped' /\ ThreadsTyped'
    BY <1>0, <1>2, AnswerTyped DEF ReadStatus
  <2>2. ControllerTyped' /\ WindowTyped'
    BY <1>2, ControllerSteps, WindowKept DEF ReadStatus
  <2> QED BY <2>1, <2>2, PartsNext
<1>3. CASE StartOperation(t)
  <2>1. ControllerTyped' /\ WindowTyped'
    BY <1>3, ControllerSteps, WindowKept DEF StartOperation
  <2>2. ThreadsTyped'
    BY <1>3 DEF StartOperation, Typed, TypeOK, ThreadsTyped
  <2>3. UNCHANGED desktop
    BY <1>3 DEF StartOperation
  <2> QED BY <2>1, <2>2, <2>3, DesktopKept, PartsNext
<1>4. CASE RunOperation(t)
  <2>1. ControllerTyped' /\ WindowTyped'
    BY <1>4, ControllerSteps, WindowKept DEF RunOperation
  <2>2. ThreadsTyped'
    BY <1>4, ThreadsKept DEF RunOperation
  <2>3. UNCHANGED desktop
    BY <1>4 DEF RunOperation
  <2> QED BY <2>1, <2>2, <2>3, DesktopKept, PartsNext
<1>5. CASE FinishOperation(t)
  <2>1. ControllerTyped' /\ WindowTyped'
    BY <1>5, ControllerSteps, WindowKept DEF FinishOperation
  <2>2. state' \in Controller!States
    BY <2>1 DEF ControllerTyped
  <2>3. Answer(t, TRUE, state') \/ Answer(t, FALSE, state)
    BY <1>5 DEF FinishOperation
  <2>4. DesktopTyped' /\ ThreadsTyped'
    BY <1>0, <2>2, <2>3, AnswerTyped
  <2> QED BY <2>1, <2>4, PartsNext
<1> QED BY <1>1, <1>2, <1>3, <1>4, <1>5 DEF Thread

LEMMA ServiceTyped ==
  ASSUME Typed, StopService \/ StartService
  PROVE  Typed'
<1>1. CASE StopService
  <2>1. ControllerTyped' /\ WindowTyped'
    BY <1>1, ControllerSteps, WindowKept DEF StopService
  <2>2. ThreadsTyped'
    BY <1>1 DEF StopService, ThreadsTyped, Commands, Queries
  <2>3. CASE asked # None
    BY <1>1, <2>3, RejectTyped, <2>1, <2>2, PartsNext DEF StopService, Typed, AskedForFirst
  <2>4. CASE asked = None
    BY <1>1, <2>4, DesktopKept, <2>1, <2>2, PartsNext DEF StopService
  <2> QED BY <2>3, <2>4
<1>2. CASE StartService
  <2>1. ControllerTyped' /\ WindowTyped'
    BY <1>2, ControllerSteps, WindowKept DEF StartService
  <2>2. ThreadsTyped'
    BY <1>2 DEF StartService, Typed, TypeOK, ThreadsTyped
  <2>3. UNCHANGED desktop
    BY <1>2 DEF StartService
  <2> QED BY <2>1, <2>2, <2>3, DesktopKept, PartsNext
<1> QED BY <1>1, <1>2

LEMMA TypedNext == Typed /\ [Next]_vars => Typed'
<1> SUFFICES ASSUME Typed, [Next]_vars PROVE Typed'
  OBVIOUS
<1>1. CASE Window
  BY <1>1, PollTyped, ClickTyped, ClickAdvancedTyped, HandleAnswerTyped DEF Window, User
<1>2. CASE Desktop
  BY <1>2, SendTyped, TimeoutTyped DEF Desktop
<1>3. CASE StopService \/ StartService
  BY <1>3, ServiceTyped
<1>4. CASE \E t \in Threads : Thread(t)
  BY <1>4, ThreadTyped
<1>5. CASE UNCHANGED vars
  <2>1. UNCHANGED helper /\ UNCHANGED desktop /\ UNCHANGED <<window, wish>> /\ NoFault
    BY <1>5 DEF vars, NoFault
  <2> QED BY <2>1, HelperKept, DesktopKept, WindowKept, PartsNext
<1> QED BY <1>1, <1>2, <1>3, <1>4, <1>5 DEF Next

\* TypeOK, in every state of every run.
THEOREM HelperTypesCorrect == Spec => []TypeOK
<1>1. Typed => TypeOK
  BY DEF Typed
<1> QED BY TypedInit, TypedNext, <1>1, PTL DEF Spec

-----------------------------------------------------------------------------
(* Never two of GO and STOP under way.                                     *)

\* What the button waits for.
Serious == Power \cup {"refresh"}

\* Results on their way to the window, then the commands still to be run: a
\* command that resolves or rejects keeps its place in this line.
Line == [i \in 1..(Len(answers) + Len(calls)) |->
            IF i <= Len(answers) THEN answers[i].cmd ELSE calls[i - Len(answers)]]

AskedByFirst == \A t \in Threads : thread[t] # "free" => asked = t /\ job[t] = Head(calls)
OneInLine    == \A i, j \in DOMAIN Line : Line[i] \in Serious /\ Line[j] \in Serious => i = j
NoneWhenIdle == ~busy => \A i \in DOMAIN Line : Line[i] \notin Serious
NoAdvanced   == \A i \in DOMAIN Line : Line[i] \in Serious \cup {"status"}

Patient  == happened \cap {"timeout", "advanced"} = {}
InOrder  == OneInLine /\ NoneWhenIdle /\ NoAdvanced
OrderInv == Typed /\ (Patient => AskedByFirst /\ InOrder)

LEMMA ResolveLine ==
  ASSUME Typed, calls # <<>>, NEW ok \in BOOLEAN, NEW s \in Controller!States, Resolve(ok, s)
  PROVE  Line' = Line
<1> DEFINE a == [cmd |-> Head(calls), ok |-> ok, state |-> s]
<1>1. calls \in Seq(Commands) /\ answers \in Seq(Answers) /\ Len(calls) \in Nat /\ Len(answers) \in Nat
  BY LenProperties DEF Typed, TypeOK
<1>2. a \in Answers
  BY <1>1, HeadTailProperties DEF Answers
<1>3. /\ Len(answers') = Len(answers) + 1
      /\ \A i \in 1..Len(answers) : answers'[i] = answers[i]
      /\ answers'[Len(answers) + 1] = a
  BY <1>1, <1>2, AppendProperties DEF Resolve
<1>4. /\ Len(calls') = Len(calls) - 1 /\ Head(calls) = calls[1] /\ Len(calls) >= 1
      /\ \A i \in 1..Len(calls') : calls'[i] = calls[i + 1]
  BY <1>1, HeadTailProperties, LenProperties DEF Resolve
<1>5. Len(answers') + Len(calls') = Len(answers) + Len(calls)
  BY <1>1, <1>3, <1>4
<1>6. ASSUME NEW i \in 1..(Len(answers) + Len(calls))
      PROVE  (IF i <= Len(answers') THEN answers'[i].cmd ELSE calls'[i - Len(answers')]) =
             (IF i <= Len(answers) THEN answers[i].cmd ELSE calls[i - Len(answers)])
  <2>1. CASE i <= Len(answers)
    BY <1>1, <1>3, <2>1
  <2>2. CASE i = Len(answers) + 1
    BY <1>1, <1>3, <1>4, <2>2
  <2>3. CASE i > Len(answers) + 1
    <3>1. i - Len(answers') \in 1..Len(calls') /\ ~(i <= Len(answers')) /\ ~(i <= Len(answers))
      BY <1>1, <1>3, <1>4, <2>3
    <3>2. calls'[i - Len(answers')] = calls[i - Len(answers') + 1]
      BY <1>4, <3>1
    <3>3. i - Len(answers') + 1 = i - Len(answers)
      BY <1>1, <1>3
    <3> QED BY <3>1, <3>2, <3>3
  <2> QED BY <1>1, <2>1, <2>2, <2>3
<1> QED BY <1>5, <1>6 DEF Line

LEMMA RejectLine ==
  ASSUME Typed, calls # <<>>, Reject
  PROVE  Line' = Line
<1>1. (Head(calls) = "diagnostics") \in BOOLEAN /\ "off" \in Controller!States
  BY DEF Controller!States
<1> QED BY <1>1, ResolveLine DEF Reject

LEMMA InvokeLine ==
  ASSUME Typed, NEW c \in Commands, calls' = Append(calls, c), answers' = answers
  PROVE  \A i \in DOMAIN Line' :
            \/ i \in DOMAIN Line /\ Line'[i] = Line[i]
            \/ i = Len(answers) + Len(calls) + 1 /\ Line'[i] = c
<1>1. calls \in Seq(Commands) /\ Len(calls) \in Nat /\ Len(answers) \in Nat
  BY LenProperties DEF Typed, TypeOK
<1>2. /\ Len(calls') = Len(calls) + 1
      /\ \A i \in 1..Len(calls) : calls'[i] = calls[i]
      /\ calls'[Len(calls) + 1] = c
  BY <1>1, AppendProperties
<1> DEFINE n == Len(answers) + Len(calls)
<1>3. DOMAIN Line = 1..n /\ DOMAIN Line' = 1..(n + 1)
  BY <1>1, <1>2 DEF Line
<1>4. ASSUME NEW i \in 1..n PROVE Line'[i] = Line[i]
  <2>1. i \in 1..(Len(answers') + Len(calls'))
    BY <1>1, <1>2
  <2>2. CASE i <= Len(answers)
    BY <1>4, <2>1, <2>2 DEF Line
  <2>3. CASE i > Len(answers)
    <3>1. i - Len(answers) \in 1..Len(calls)
      BY <1>1, <2>3
    <3>2. calls'[i - Len(answers)] = calls[i - Len(answers)]
      BY <1>2, <3>1
    <3> QED BY <1>1, <1>4, <2>1, <2>3, <3>2 DEF Line
  <2> QED BY <1>1, <2>2, <2>3
<1>5. Line'[n + 1] = c
  <2>1. n + 1 \in 1..(Len(answers') + Len(calls')) /\ ~(n + 1 <= Len(answers))
    BY <1>1, <1>2
  <2>2. n + 1 - Len(answers) = Len(calls) + 1
    BY <1>1
  <2> QED BY <1>2, <2>1, <2>2 DEF Line
<1>6. \A i \in 1..(n + 1) : i \in 1..n \/ i = n + 1
  BY <1>1
<1> QED BY <1>3, <1>4, <1>5, <1>6

\* The first result is taken out of the line, and a refresh may be put behind it.
LEMMA HandleLine ==
  ASSUME Typed, HandleAnswer
  PROVE  /\ 1 \in DOMAIN Line /\ Line[1] = Head(answers).cmd
         /\ \A i \in DOMAIN Line' :
               \/ i + 1 \in DOMAIN Line /\ i + 1 # 1 /\ Line'[i] = Line[i + 1]
               \/ /\ Refreshes(Head(answers)) /\ Line'[i] = "refresh"
                  /\ i = Len(answers) + Len(calls)
<1>1. /\ answers \in Seq(Answers) /\ calls \in Seq(Commands)
      /\ Len(calls) \in Nat /\ Len(answers) \in Nat
  BY LenProperties DEF Typed, TypeOK
<1>2. /\ Len(answers') = Len(answers) - 1 /\ Head(answers) = answers[1] /\ Len(answers) >= 1
      /\ \A i \in 1..Len(answers') : answers'[i] = answers[i + 1]
  BY <1>1, HeadTailProperties, LenProperties DEF HandleAnswer
<1>3. 1 \in DOMAIN Line /\ Line[1] = Head(answers).cmd
  BY <1>1, <1>2 DEF Line
<1>4. \/ calls' = calls
      \/ Refreshes(Head(answers)) /\ calls' = Append(calls, "refresh")
  BY DEF HandleAnswer
<1>5. /\ \A i \in 1..Len(calls) : calls'[i] = calls[i]
      /\ \/ Len(calls') = Len(calls)
         \/ /\ Len(calls') = Len(calls) + 1 /\ Refreshes(Head(answers))
            /\ calls'[Len(calls) + 1] = "refresh"
  BY <1>1, <1>4, AppendProperties DEF Commands, Queries
<1>6. ASSUME NEW i \in DOMAIN Line', i < Len(answers) + Len(calls)
      PROVE  i + 1 \in DOMAIN Line /\ i + 1 # 1 /\ Line'[i] = Line[i + 1]
  <2>1. i \in 1..(Len(answers') + Len(calls'))
    BY <1>6 DEF Line
  <2>2. i + 1 \in 1..(Len(answers) + Len(calls)) /\ i + 1 # 1
    BY <1>1, <1>6, <2>1
  <2>3. CASE i <= Len(answers')
    <3>1. answers'[i] = answers[i + 1] /\ i + 1 <= Len(answers)
      BY <1>1, <1>2, <2>1, <2>3
    <3> QED BY <2>1, <2>2, <2>3, <3>1 DEF Line
  <2>4. CASE ~(i <= Len(answers'))
    <3>1. /\ ~(i + 1 <= Len(answers)) /\ i - Len(answers') = i + 1 - Len(answers)
          /\ i - Len(answers') \in 1..Len(calls)
      BY <1>1, <1>2, <1>6, <2>1, <2>4
    <3>2. calls'[i - Len(answers')] = calls[i + 1 - Len(answers)]
      BY <1>5, <3>1
    <3> QED BY <2>1, <2>2, <2>4, <3>1, <3>2 DEF Line
  <2> QED BY <2>2, <2>3, <2>4 DEF Line
<1>7. ASSUME NEW i \in DOMAIN Line', ~(i < Len(answers) + Len(calls))
      PROVE  Refreshes(Head(answers)) /\ Line'[i] = "refresh" /\ i = Len(answers) + Len(calls)
  <2>1. i \in 1..(Len(answers') + Len(calls'))
    BY <1>7 DEF Line
  <2>2. Len(calls') # Len(calls)
    BY <1>1, <1>2, <1>7, <2>1
  <2>3. /\ Len(calls') = Len(calls) + 1
        /\ Refreshes(Head(answers)) /\ calls'[Len(calls) + 1] = "refresh"
    BY <1>5, <2>2
  <2>4. i = Len(answers) + Len(calls)
    <3>1. Len(answers') + Len(calls') = Len(answers) + Len(calls)
      BY <1>1, <1>2, <2>3
    <3>2. i \in 1..(Len(answers) + Len(calls))
      BY <2>1, <3>1
    <3> QED BY <1>1, <1>7, <3>2
  <2>5. ~(i <= Len(answers')) /\ i - Len(answers') = Len(calls) + 1
    BY <1>1, <1>2, <2>1, <2>4
  <2> QED BY <2>1, <2>3, <2>4, <2>5 DEF Line
<1>8. \A i \in DOMAIN Line' : i < Len(answers) + Len(calls) \/ ~(i < Len(answers) + Len(calls))
  OBVIOUS
<1> QED BY <1>3, <1>6, <1>7, <1>8

LEMMA SameLine ==
  ASSUME Line' = Line, busy' = busy, InOrder
  PROVE  InOrder'
BY DEF InOrder, OneInLine, NoneWhenIdle, NoAdvanced

LEMMA DesktopKeepsLine ==
  ASSUME UNCHANGED desktop
  PROVE  Line' = Line
BY DEF desktop, Line

\* The window calls c: serious only if nothing serious was under way.
LEMMA InvokeInOrder ==
  ASSUME Typed, InOrder, NEW c \in Commands, Invoke(c),
         \/ c = "status" /\ busy' = busy
         \/ c \in Power /\ ~busy /\ busy' = TRUE
  PROVE  InOrder'
<1>1. \A i \in DOMAIN Line' :
         \/ i \in DOMAIN Line /\ Line'[i] = Line[i]
         \/ i = Len(answers) + Len(calls) + 1 /\ Line'[i] = c
  BY InvokeLine DEF Invoke
<1>2. CASE c = "status" /\ busy' = busy
  BY <1>1, <1>2 DEF InOrder, OneInLine, NoneWhenIdle, NoAdvanced, Serious, Power
<1>3. CASE c \in Power /\ ~busy /\ busy' = TRUE
  BY <1>1, <1>3 DEF InOrder, OneInLine, NoneWhenIdle, NoAdvanced, Serious, Power
<1> QED BY <1>2, <1>3

LEMMA HandleInOrder ==
  ASSUME Typed, InOrder, HandleAnswer
  PROVE  InOrder'
<1> DEFINE a == Head(answers)
           n == Len(answers) + Len(calls)
<1>1. /\ 1 \in DOMAIN Line /\ Line[1] = a.cmd
      /\ \A i \in DOMAIN Line' :
            \/ i + 1 \in DOMAIN Line /\ i + 1 # 1 /\ Line'[i] = Line[i + 1]
            \/ Refreshes(a) /\ Line'[i] = "refresh" /\ i = n
  BY HandleLine
<1>2. busy' = (busy /\ StaysBusy(a))
  BY DEF HandleAnswer
<1>3. DOMAIN Line' \subseteq Int
  BY LenProperties DEF Line
<1>4. Refreshes(a) => a.cmd \in Serious
  BY DEF Refreshes, Serious
<1>5. a.cmd \in Serious => \A i \in DOMAIN Line : i # 1 => Line[i] \notin Serious
  BY <1>1 DEF InOrder, OneInLine
<1>6. NoAdvanced'
  BY <1>1 DEF InOrder, NoAdvanced, Serious
<1>7. OneInLine'
  <2> SUFFICES ASSUME NEW i \in DOMAIN Line', NEW j \in DOMAIN Line',
                      Line'[i] \in Serious, Line'[j] \in Serious
               PROVE  i = j
    BY DEF OneInLine
  <2>1. CASE Refreshes(a)
    BY <1>1, <1>4, <1>5, <2>1
  <2>2. CASE ~Refreshes(a)
    <3>1. i + 1 = j + 1
      BY <1>1, <2>2 DEF InOrder, OneInLine
    <3> QED BY <1>3, <3>1
  <2> QED BY <2>1, <2>2
<1>8. NoneWhenIdle'
  <2> SUFFICES ASSUME ~busy', NEW i \in DOMAIN Line', Line'[i] \in Serious PROVE FALSE
    BY DEF NoneWhenIdle
  <2>1. CASE ~busy
    <3>1. ~Refreshes(a)
      BY <1>1, <1>4, <2>1 DEF InOrder, NoneWhenIdle
    <3> QED BY <1>1, <2>1, <3>1 DEF InOrder, NoneWhenIdle
  <2>2. CASE busy /\ ~StaysBusy(a)
    <3>1. a.cmd \in Serious /\ ~Refreshes(a)
      BY <1>1, <2>2 DEF StaysBusy, InOrder, NoAdvanced
    <3> QED BY <1>1, <1>5, <3>1
  <2> QED BY <1>2, <2>1, <2>2
<1> QED BY <1>6, <1>7, <1>8 DEF InOrder

\* No connection is open.
AllFree == \A t \in Threads : thread[t] = "free"

\* A thread at work is the one that is asked.
LEMMA AnswerInOrder ==
  ASSUME Typed, AskedByFirst, InOrder, NEW t \in Threads, thread[t] # "free", busy' = busy,
         NEW ok \in BOOLEAN, NEW s \in Controller!States, Answer(t, ok, s)
  PROVE  AskedByFirst' /\ InOrder'
<1>1. asked = t /\ calls # <<>>
  BY HelperAssumption DEF HelperAssumption, AskedByFirst, Typed, AskedForFirst
<1>2. Resolve(TRUE, s) \/ Reject
  BY <1>1 DEF Answer
<1>3. Line' = Line
  BY <1>1, <1>2, ResolveLine, RejectLine
<1>4. AllFree'
  BY <1>1 DEF Answer, AllFree, AskedByFirst, Typed, TypeOK
<1> QED BY <1>3, <1>4, SameLine DEF AllFree, AskedByFirst

LEMMA InvokeAsked ==
  ASSUME Typed, AskedByFirst, UNCHANGED <<thread, job, asked>>,
         NEW c \in Commands, calls' = Append(calls, c) \/ calls' = calls
  PROVE  AskedByFirst'
<1>1. ASSUME calls # <<>> PROVE Head(calls') = Head(calls)
  <2>1. calls \in Seq(Commands)
    BY DEF Typed, TypeOK
  <2>2. Append(calls, c) \in Seq(Commands) /\ Append(calls, c) # <<>>
    BY <2>1, AppendProperties
  <2>3. Len(calls) \in Nat /\ Len(calls) >= 1 /\ Head(calls) = calls[1]
    BY <1>1, <2>1, HeadTailProperties, LenProperties, EmptySeq
  <2>4. Append(calls, c)[1] = calls[1]
    BY <2>1, <2>3, AppendProperties
  <2>5. Head(Append(calls, c)) = Append(calls, c)[1]
    BY <2>2, HeadTailProperties
  <2> QED BY <2>3, <2>4, <2>5
<1>2. \A t \in Threads : thread[t] # "free" => calls # <<>>
  BY HelperAssumption DEF HelperAssumption, AskedByFirst, Typed, AskedForFirst
<1> QED BY <1>1, <1>2 DEF AskedByFirst

LEMMA WindowInOrder ==
  ASSUME Typed, AskedByFirst, InOrder, Window, Patient'
  PROVE  AskedByFirst' /\ InOrder'
<1>1. CASE Poll
  <2>1. busy' = busy /\ UNCHANGED <<thread, job, asked>> /\ "status" \in Commands
    BY <1>1 DEF Poll, window, helper, Invoke, Commands, Queries
  <2>2. InOrder'
    BY <1>1, <2>1, InvokeInOrder DEF Poll
  <2> QED BY <1>1, <2>1, <2>2, InvokeAsked DEF Poll, Invoke
<1>2. ASSUME NEW c \in Power, Click(c) PROVE AskedByFirst' /\ InOrder'
  <2>1. ~busy /\ busy' = TRUE /\ UNCHANGED <<thread, job, asked>> /\ c \in Commands
    BY <1>2 DEF Click, isWorking, helper, Invoke, Commands
  <2>2. InOrder'
    BY <1>2, <2>1, InvokeInOrder DEF Click
  <2> QED BY <1>2, <2>1, <2>2, InvokeAsked DEF Click, Invoke
<1>3. ASSUME NEW c \in Advanced, ClickAdvanced(c) PROVE FALSE
  BY <1>3 DEF ClickAdvanced, Patient
<1>4. CASE HandleAnswer
  <2>1. UNCHANGED <<thread, job, asked>> /\ "refresh" \in Commands
    BY <1>4 DEF HandleAnswer, helper, Commands, Queries
  <2>2. calls' = Append(calls, "refresh") \/ calls' = calls
    BY <1>4 DEF HandleAnswer
  <2> QED BY <1>4, <2>1, <2>2, InvokeAsked, HandleInOrder
<1> QED BY <1>1, <1>2, <1>3, <1>4 DEF Window, User

LEMMA DesktopInOrder ==
  ASSUME Typed, AskedByFirst, InOrder, Desktop, Patient'
  PROVE  AskedByFirst' /\ InOrder'
<1>1. CASE Timeout
  BY <1>1 DEF Timeout, Fault, Patient, Happenings
<1>2. CASE Send
  <2>1. busy' = busy /\ calls # <<>> /\ asked = None
    BY <1>2 DEF Send, window
  <2>2. AllFree
    BY <2>1, HelperAssumption DEF HelperAssumption, AllFree, AskedByFirst
  <2>3. CASE Reject /\ UNCHANGED <<thread, job>>
    BY <2>1, <2>2, <2>3, RejectLine, SameLine DEF AllFree, AskedByFirst
  <2>4. ASSUME NEW t \in Threads, thread' = [thread EXCEPT ![t] = "lock"],
               job' = [job EXCEPT ![t] = Head(calls)], asked' = t, UNCHANGED <<calls, answers>>
        PROVE  AskedByFirst' /\ InOrder'
    <3>1. AskedByFirst'
      BY <2>2, <2>4 DEF AllFree, AskedByFirst, Typed, TypeOK
    <3>2. Line' = Line
      BY <2>4 DEF Line
    <3> QED BY <2>1, <3>1, <3>2, SameLine
  <2> QED BY <1>2, <2>3, <2>4 DEF Send
<1> QED BY <1>1, <1>2 DEF Desktop

LEMMA ThreadInOrder ==
  ASSUME Typed, AskedByFirst, InOrder, NEW t \in Threads, Thread(t)
  PROVE  AskedByFirst' /\ InOrder'
<1>0. state \in Controller!States
  BY DEF Typed, TypeOK
<1>1. CASE Refuse(t) \/ ReadStatus(t)
  <2>1. thread[t] # "free" /\ busy' = busy /\ \E ok \in BOOLEAN : Answer(t, ok, state)
    BY <1>1 DEF Refuse, ReadStatus, window
  <2> QED BY <1>0, <2>1, AnswerInOrder
<1>2. CASE StartOperation(t)
  <2>1. UNCHANGED desktop /\ busy' = busy /\ job' = job
    BY <1>2 DEF StartOperation, window
  <2>2. asked' = asked /\ calls' = calls
    BY <2>1 DEF desktop
  <2>3. thread[t] # "free" /\ thread' = [thread EXCEPT ![t] = "run"]
    BY <1>2 DEF StartOperation
  <2>4. AskedByFirst'
    BY <2>1, <2>2, <2>3 DEF AskedByFirst, Typed, TypeOK
  <2> QED BY <2>1, <2>4, DesktopKeepsLine, SameLine
<1>3. CASE RunOperation(t)
  <2>1. UNCHANGED desktop /\ busy' = busy /\ job' = job /\ thread' = thread
    BY <1>3 DEF RunOperation, window
  <2>2. AskedByFirst'
    BY <2>1 DEF AskedByFirst, desktop
  <2> QED BY <2>1, <2>2, DesktopKeepsLine, SameLine
<1>4. CASE FinishOperation(t)
  <2>1. state' \in Controller!States
    BY <1>4, ControllerSteps DEF FinishOperation, ControllerTyped
  <2>2. thread[t] # "free" /\ busy' = busy
    BY <1>4 DEF FinishOperation, window
  <2>3. Answer(t, TRUE, state') \/ Answer(t, FALSE, state)
    BY <1>4 DEF FinishOperation
  <2> QED BY <1>0, <2>1, <2>2, <2>3, AnswerInOrder
<1> QED BY <1>1, <1>2, <1>3, <1>4 DEF Thread

LEMMA ServiceInOrder ==
  ASSUME Typed, AskedByFirst, InOrder, StopService \/ StartService
  PROVE  AskedByFirst' /\ InOrder'
<1>1. CASE StopService
  <2>1. AllFree' /\ busy' = busy
    BY <1>1 DEF StopService, AllFree, window
  <2>2. Line' = Line
    BY <1>1, RejectLine, DesktopKeepsLine DEF StopService, Typed, AskedForFirst
  <2> QED BY <2>1, <2>2, SameLine DEF AllFree, AskedByFirst
<1>2. CASE StartService
  <2>1. UNCHANGED desktop /\ busy' = busy /\ job' = job /\ thread' = thread
    BY <1>2 DEF StartService, window
  <2>2. AskedByFirst'
    BY <2>1 DEF AskedByFirst, desktop
  <2> QED BY <2>1, <2>2, DesktopKeepsLine, SameLine
<1> QED BY <1>1, <1>2

\* A click under Advanced or a timeout is never forgotten.
LEMMA HappenedStays ==
  ASSUME Typed, Next
  PROVE  happened \subseteq happened'
BY DEF Next, Window, User, Click, ClickAdvanced, Poll, HandleAnswer, Desktop, Send, Timeout,
         StopService, StartService, Thread, Refuse, ReadStatus, StartOperation, RunOperation,
         FinishOperation, Fault, NoFault

LEMMA PatientBefore ==
  ASSUME Typed, Next, Patient'
  PROVE  Patient
BY HappenedStays DEF Patient

LEMMA OrderInvInit == Init => OrderInv
<1> SUFFICES ASSUME Init PROVE OrderInv
  OBVIOUS
<1>1. Typed
  BY TypedInit
<1>2. AskedByFirst
  BY DEF Init, AskedByFirst
<1>3. DOMAIN Line = {}
  BY EmptySeq DEF Init, Line
<1>4. InOrder
  BY <1>3 DEF InOrder, OneInLine, NoneWhenIdle, NoAdvanced
<1> QED BY <1>1, <1>2, <1>4 DEF OrderInv

LEMMA OrderInvNext == OrderInv /\ [Next]_vars => OrderInv'
<1> SUFFICES ASSUME OrderInv, [Next]_vars PROVE OrderInv'
  OBVIOUS
<1>1. Typed /\ Typed'
  BY TypedNext DEF OrderInv
<1>2. CASE UNCHANGED vars
  <2>1. UNCHANGED desktop /\ busy' = busy /\ thread' = thread /\ job' = job /\ happened' = happened
    BY <1>2 DEF vars, helper, window
  <2>2. asked' = asked /\ calls' = calls
    BY <2>1 DEF desktop
  <2>3. Patient' => AskedByFirst /\ InOrder
    BY <2>1 DEF Patient, OrderInv
  <2>4. AskedByFirst => AskedByFirst'
    BY <2>1, <2>2 DEF AskedByFirst
  <2> QED BY <1>1, <2>1, <2>3, <2>4, DesktopKeepsLine, SameLine DEF OrderInv
<1>3. CASE Next
  <2> SUFFICES ASSUME Patient' PROVE AskedByFirst' /\ InOrder'
    BY <1>1 DEF OrderInv
  <2>1. AskedByFirst /\ InOrder
    BY <1>1, <1>3, PatientBefore DEF OrderInv
  <2> QED BY <1>1, <1>3, <2>1, WindowInOrder, DesktopInOrder, ThreadInOrder, ServiceInOrder
     DEF Next
<1> QED BY <1>2, <1>3

LEMMA AtMostOne ==
  ASSUME NEW S, NEW e, S \subseteq {e}
  PROVE  /\ Cardinality(S) \in {0, 1}
         /\ S = {} => Cardinality(S) = 0
<1>1. CASE S = {}
  BY <1>1, FS_EmptySet
<1>2. CASE S = {e}
  BY <1>2, FS_Singleton
<1> QED BY <1>1, <1>2

\* The line in terms of the commands still to be run.
LEMMA CallsInLine ==
  ASSUME Typed, OneInLine
  PROVE  \A i, j \in 1..Len(calls) : calls[i] \in Power /\ calls[j] \in Power => i = j
<1>1. Len(calls) \in Nat /\ Len(answers) \in Nat
  BY LenProperties DEF Typed, TypeOK
<1>2. ASSUME NEW i \in 1..Len(calls)
      PROVE  Len(answers) + i \in DOMAIN Line /\ Line[Len(answers) + i] = calls[i]
  <2>1. /\ Len(answers) + i \in 1..(Len(answers) + Len(calls))
        /\ ~(Len(answers) + i <= Len(answers)) /\ Len(answers) + i - Len(answers) = i
    BY <1>1
  <2> QED BY <2>1 DEF Line
<1>3. ASSUME NEW i \in 1..Len(calls), NEW j \in 1..Len(calls),
             calls[i] \in Power, calls[j] \in Power
      PROVE  i = j
  <2>1. Len(answers) + i = Len(answers) + j
    BY <1>2, <1>3 DEF OneInLine, Serious
  <2> QED BY <1>1, <2>1
<1> QED BY <1>3

LEMMA OrderIsOnePowerCall ==
  ASSUME Typed, AskedByFirst, OneInLine
  PROVE  Outstanding("connect") + Outstanding("disconnect") <= 1
<1>1. \A i, j \in 1..Len(calls) : calls[i] \in Power /\ calls[j] \in Power => i = j
  BY CallsInLine
<1>2. \A t \in Threads : thread[t] # "free" =>
         asked = t /\ asked # None /\ job[t] = calls[1] /\ 1 \in 1..Len(calls)
  <2> SUFFICES ASSUME NEW t \in Threads, thread[t] # "free"
               PROVE  asked = t /\ asked # None /\ job[t] = calls[1] /\ 1 \in 1..Len(calls)
    OBVIOUS
  <2>1. asked = t /\ asked # None /\ calls # <<>> /\ job[t] = Head(calls)
    BY HelperAssumption DEF HelperAssumption, AskedByFirst, Typed, AskedForFirst
  <2>2. Head(calls) = calls[1] /\ 1 \in 1..Len(calls)
    BY <2>1, HeadTailProperties, LenProperties DEF Typed, TypeOK
  <2> QED BY <2>1, <2>2
<1>3. ASSUME NEW c \in Power
      PROVE  /\ Cardinality(Pending(c)) \in {0, 1}
             /\ Pending(c) = {} => Cardinality(Pending(c)) = 0
  <2>1. Pending(c) \subseteq {asked}
    BY <1>2 DEF Pending
  <2> QED BY <2>1, AtMostOne
<1>4. ASSUME NEW c \in Power
      PROVE  /\ Cardinality(Waiting(c)) \in {0, 1}
             /\ Waiting(c) = {} => Cardinality(Waiting(c)) = 0
  <2>1. \E e : Waiting(c) \subseteq {e}
    BY <1>1 DEF Waiting
  <2> QED BY <2>1, AtMostOne
<1>5. ASSUME NEW c \in Power, NEW d \in Power, Pending(c) # {}
      PROVE  Waiting(d) = {} /\ (Pending(d) # {} => c = d)
  <2>1. PICK t \in Threads : thread[t] # "free" /\ job[t] = c
    BY <1>5 DEF Pending
  <2>2. asked # None /\ calls[1] = c /\ 1 \in 1..Len(calls)
    BY <1>2, <2>1
  <2>3. Waiting(d) = {}
    BY <1>1, <2>2 DEF Waiting
  <2> QED BY <1>2, <2>2, <2>3 DEF Pending
<1>6. ASSUME NEW c \in Power, NEW d \in Power, Waiting(c) # {}, Waiting(d) # {}
      PROVE  c = d
  BY <1>1, <1>6 DEF Waiting
<1>7. "connect" \in Power /\ "disconnect" \in Power /\ "connect" # "disconnect"
  BY DEF Power
<1>8. \/ Waiting("connect") = {} /\ Waiting("disconnect") = {}
         /\ (Pending("connect") = {} \/ Pending("disconnect") = {})
      \/ Pending("connect") = {} /\ Pending("disconnect") = {}
         /\ (Waiting("connect") = {} \/ Waiting("disconnect") = {})
  BY <1>5, <1>6, <1>7
<1> QED BY <1>3, <1>4, <1>7, <1>8 DEF Outstanding

\* OnePowerCall: for any number of connections, of commands under way and of
\* failures other than a timeout, the button lets through no GO or STOP while the
\* last one is still to be carried out.
THEOREM OnePowerCallHolds == Spec => []OnePowerCall
<1>1. OrderInv => OnePowerCall
  BY OrderIsOnePowerCall DEF OrderInv, Patient, InOrder, OnePowerCall
<1> QED BY OrderInvInit, OrderInvNext, <1>1, PTL DEF Spec

-----------------------------------------------------------------------------
(* A STOP that is confirmed is final.                                      *)

NoTimeout == "timeout" \notin happened

\* After a click on STOP every connect has a STOP behind it.
StopBehind ==
    wish \in {"disconnect", "stopped"} =>
        \A i \in 1..Len(calls) : calls[i] = "connect" =>
            \E j \in 1..Len(calls) : j > i /\ calls[j] = "disconnect"

FinalInv == Typed /\ StopBehind /\ (NoTimeout => AskedByFirst)

\* Only the timeout leaves a thread behind that nobody waits for.
LEMMA AskedNext ==
  ASSUME Typed, AskedByFirst, Next, NoTimeout'
  PROVE  AskedByFirst'
<1>0. state \in Controller!States
  BY DEF Typed, TypeOK
<1>1. CASE Window
  <2>1. PICK c \in Commands : calls' = Append(calls, c) \/ calls' = calls
    BY <1>1, HelperAssumption DEF HelperAssumption, Window, User, Poll, Click, ClickAdvanced,
       HandleAnswer, Invoke, Commands, Queries
  <2>2. UNCHANGED <<thread, job, asked>>
    BY <1>1 DEF Window, User, Poll, Click, ClickAdvanced, HandleAnswer, Invoke, helper
  <2> QED BY <2>1, <2>2, InvokeAsked
<1>2. CASE Send
  <2>1. AllFree
    BY <1>2, HelperAssumption DEF HelperAssumption, Send, AllFree, AskedByFirst
  <2> QED BY <1>2, <2>1 DEF Send, AllFree, AskedByFirst, Typed, TypeOK
<1>3. CASE Timeout
  BY <1>3 DEF Timeout, Fault, NoTimeout, Happenings
<1>4. ASSUME NEW t \in Threads, Thread(t) PROVE AskedByFirst'
  <2>1. CASE Refuse(t) \/ ReadStatus(t) \/ FinishOperation(t)
    <3>1. thread[t] # "free" /\ thread' = [thread EXCEPT ![t] = "free"]
      BY <2>1 DEF Refuse, ReadStatus, FinishOperation, Answer
    <3>2. AllFree'
      BY <3>1 DEF AllFree, AskedByFirst, Typed, TypeOK
    <3> QED BY <3>2 DEF AllFree, AskedByFirst
  <2>2. CASE StartOperation(t) \/ RunOperation(t)
    <3>1. asked' = asked /\ calls' = calls /\ job' = job
      BY <2>2 DEF StartOperation, RunOperation, desktop
    <3>2. thread[t] # "free" /\ (thread' = [thread EXCEPT ![t] = "run"] \/ thread' = thread)
      BY <2>2 DEF StartOperation, RunOperation
    <3> QED BY <3>1, <3>2 DEF AskedByFirst, Typed, TypeOK
  <2> QED BY <1>4, <2>1, <2>2 DEF Thread
<1>5. CASE StopService
  BY <1>5 DEF StopService, AskedByFirst
<1>6. CASE StartService
  BY <1>6 DEF StartService, desktop, AskedByFirst
<1> QED BY <1>1, <1>2, <1>3, <1>4, <1>5, <1>6 DEF Next, Desktop

WishKept == wish' = wish \/ (wish' = "stopped" /\ wish = "disconnect")

\* What a step can do to the commands still to be run.
LEMMA CallsNext ==
  ASSUME Typed, [Next]_vars
  PROVE  \/ calls' = calls /\ WishKept
         \/ calls # <<>> /\ calls' = Tail(calls) /\ wish' = wish
         \/ \E c \in Commands \ Power : calls' = Append(calls, c)
                /\ WishKept
         \/ \E c \in Power : calls' = Append(calls, c) /\ wish' = c
<1>1. CASE Window
  <2>1. CASE Poll
    BY <2>1 DEF Poll, Invoke, Commands, Queries, Power, WishKept
  <2>2. ASSUME NEW c \in Power, Click(c) PROVE calls' = Append(calls, c) /\ wish' = c
    BY <2>2 DEF Click, Invoke
  <2>3. ASSUME NEW c \in Advanced, ClickAdvanced(c)
        PROVE  c \in Commands \ Power /\ calls' = Append(calls, c) /\ WishKept
    BY <2>3, HelperAssumption DEF HelperAssumption, ClickAdvanced, Invoke, Commands, Queries, Power, WishKept
  <2>4. CASE HandleAnswer
    <3>1. WishKept
      BY <2>4 DEF HandleAnswer, WishKept
    <3>2. calls' = Append(calls, "refresh") \/ calls' = calls
      BY <2>4 DEF HandleAnswer
    <3> QED BY <3>1, <3>2 DEF Commands, Queries, Power
  <2> QED BY <1>1, <2>1, <2>2, <2>3, <2>4 DEF Window, User
<1>2. CASE Desktop
  BY <1>2, HelperAssumption
     DEF HelperAssumption, Typed, AskedForFirst, Desktop, Send, Timeout, Reject, Resolve, WishKept
<1>3. ASSUME NEW t \in Threads, Thread(t)
      PROVE  wish' = wish /\ (calls' = calls \/ (calls # <<>> /\ calls' = Tail(calls)))
  BY <1>3, HelperAssumption
     DEF HelperAssumption, Typed, AskedForFirst, Thread, Refuse, ReadStatus, StartOperation,
         RunOperation, FinishOperation, Answer, Reject, Resolve, desktop
<1>4. CASE StopService
  BY <1>4 DEF StopService, Typed, AskedForFirst, Reject, Resolve, desktop, WishKept
<1>5. CASE StartService
  BY <1>5 DEF StartService, desktop, WishKept
<1>6. CASE UNCHANGED vars
  BY <1>6 DEF vars, desktop, WishKept
<1> QED BY <1>1, <1>2, <1>3, <1>4, <1>5, <1>6 DEF Next, WishKept

LEMMA AppendBehind ==
  ASSUME Typed, NEW c \in Commands, calls' = Append(calls, c),
         wish' \in {"disconnect", "stopped"} => c = "disconnect" \/ (c # "connect" /\ StopBehind
             /\ wish \in {"disconnect", "stopped"})
  PROVE  StopBehind'
<1>1. calls \in Seq(Commands) /\ Len(calls) \in Nat
  BY LenProperties DEF Typed, TypeOK
<1>2. /\ Len(calls') = Len(calls) + 1
      /\ \A i \in 1..Len(calls) : calls'[i] = calls[i]
      /\ calls'[Len(calls) + 1] = c
  BY <1>1, AppendProperties
<1> SUFFICES ASSUME wish' \in {"disconnect", "stopped"},
                    NEW i \in 1..Len(calls'), calls'[i] = "connect"
             PROVE  \E j \in 1..Len(calls') : j > i /\ calls'[j] = "disconnect"
  BY DEF StopBehind
<1>3. c # "connect"
  OBVIOUS
<1>4. i \in 1..Len(calls) /\ calls[i] = "connect"
  BY <1>1, <1>2, <1>3
<1>5. CASE c = "disconnect"
  <2>1. Len(calls) + 1 \in 1..Len(calls') /\ Len(calls) + 1 > i
    BY <1>1, <1>2, <1>4
  <2> QED BY <1>2, <1>5, <2>1
<1>6. CASE c # "disconnect"
  <2>1. PICK j \in 1..Len(calls) : j > i /\ calls[j] = "disconnect"
    BY <1>4, <1>6 DEF StopBehind
  <2>2. j \in 1..Len(calls') /\ calls'[j] = "disconnect"
    BY <1>1, <1>2, <2>1
  <2> QED BY <2>1, <2>2
<1> QED BY <1>5, <1>6

LEMMA TailBehind ==
  ASSUME Typed, StopBehind, calls # <<>>, calls' = Tail(calls), wish' = wish
  PROVE  StopBehind'
<1>1. calls \in Seq(Commands) /\ Len(calls) \in Nat
  BY LenProperties DEF Typed, TypeOK
<1>2. /\ Len(calls') = Len(calls) - 1 /\ Len(calls) >= 1
      /\ \A i \in 1..Len(calls') : calls'[i] = calls[i + 1]
  BY <1>1, HeadTailProperties, LenProperties
<1> SUFFICES ASSUME wish \in {"disconnect", "stopped"},
                    NEW i \in 1..Len(calls'), calls'[i] = "connect"
             PROVE  \E j \in 1..Len(calls') : j > i /\ calls'[j] = "disconnect"
  BY DEF StopBehind
<1>3. i + 1 \in 1..Len(calls) /\ calls[i + 1] = "connect"
  BY <1>1, <1>2
<1>4. PICK j \in 1..Len(calls) : j > i + 1 /\ calls[j] = "disconnect"
  BY <1>3 DEF StopBehind
<1>5. j - 1 \in 1..Len(calls') /\ j - 1 > i /\ (j - 1) + 1 = j
  BY <1>1, <1>2, <1>4
<1>6. calls'[j - 1] = "disconnect"
  BY <1>2, <1>4, <1>5
<1> QED BY <1>5, <1>6

LEMMA StopBehindNext ==
  ASSUME Typed, StopBehind, [Next]_vars
  PROVE  StopBehind'
<1>1. CASE calls' = calls /\ WishKept
  BY <1>1 DEF StopBehind, WishKept
<1>2. CASE calls # <<>> /\ calls' = Tail(calls) /\ wish' = wish
  BY <1>2, TailBehind
<1>3. ASSUME NEW c \in Commands \ Power, calls' = Append(calls, c),
             WishKept
      PROVE  StopBehind'
  BY <1>3, AppendBehind DEF Power, WishKept
<1>4. ASSUME NEW c \in Power, calls' = Append(calls, c), wish' = c
      PROVE  StopBehind'
  BY <1>4, AppendBehind DEF Power, Commands
<1> QED BY <1>1, <1>2, <1>3, <1>4, CallsNext

LEMMA FinalInvInit == Init => FinalInv
BY TypedInit, EmptySeq DEF Init, FinalInv, StopBehind, AskedByFirst

LEMMA FinalInvNext == FinalInv /\ [Next]_vars => FinalInv'
<1> SUFFICES ASSUME FinalInv, [Next]_vars PROVE FinalInv'
  OBVIOUS
<1>1. Typed' /\ StopBehind'
  BY TypedNext, StopBehindNext DEF FinalInv
<1>2. ASSUME NoTimeout' PROVE AskedByFirst'
  <2>1. CASE UNCHANGED vars
    <3>1. thread' = thread /\ job' = job /\ happened' = happened /\ UNCHANGED desktop
      BY <2>1 DEF vars, helper
    <3> QED BY <1>2, <3>1 DEF FinalInv, NoTimeout, AskedByFirst, desktop
  <2>2. CASE Next
    <3>1. happened \subseteq happened'
      BY <2>2, HappenedStays DEF FinalInv
    <3> QED BY <1>2, <2>2, <3>1, AskedNext DEF FinalInv, NoTimeout
  <2> QED BY <2>1, <2>2
<1> QED BY <1>1, <1>2 DEF FinalInv

\* StopIsFinal: for any number of connections, commands under way and failures
\* but a timeout, no connect is left behind a confirmed STOP without another STOP.
THEOREM StopsAreFinal == Spec => []StopIsFinal
<1>1. FinalInv => StopIsFinal
  <2> SUFFICES ASSUME FinalInv, wish = "stopped", NoTimeout
               PROVE  /\ Pending("connect") # {} => Waiting("disconnect") # {}
                      /\ \A i \in Waiting("connect") : \E j \in Waiting("disconnect") : j > i
    BY DEF StopIsFinal, NoTimeout
  <2>1. ASSUME NEW i \in 1..Len(calls), calls[i] = "connect"
        PROVE  \E j \in Waiting("disconnect") : j > i
    <3>1. PICK j \in 1..Len(calls) : j > i /\ calls[j] = "disconnect"
      BY <2>1 DEF FinalInv, StopBehind
    <3>2. Len(calls) \in Nat
      BY LenProperties DEF FinalInv, Typed, TypeOK
    <3>3. j # 1
      BY <3>1, <3>2
    <3> QED BY <3>1, <3>3 DEF Waiting
  <2>2. ASSUME NEW t \in Threads, thread[t] # "free", job[t] = "connect"
        PROVE  1 \in 1..Len(calls) /\ calls[1] = "connect"
    <3>1. calls # <<>> /\ job[t] = Head(calls)
      BY <2>2, HelperAssumption
         DEF HelperAssumption, FinalInv, AskedByFirst, Typed, AskedForFirst
    <3> QED BY <2>2, <3>1, HeadTailProperties, LenProperties DEF FinalInv, Typed, TypeOK
  <2> QED BY <2>1, <2>2 DEF Pending, Waiting
<1> QED BY FinalInvInit, FinalInvNext, <1>1, PTL DEF Spec

-----------------------------------------------------------------------------
(* What the window shows when all is quiet.                                *)

\* The window takes the state of this result.
Informs(a) == a.ok /\ a.cmd # "diagnostics"

\* With the results as handled, a window that shows sh comes to show s.
WillShow(rs, sh, s) ==
    \/ \E i \in 1..Len(rs) :
          /\ Informs(rs[i]) /\ rs[i].state = s
          /\ \A j \in 1..Len(rs) : j > i => ~Informs(rs[j])
    \/ sh = s /\ \A i \in 1..Len(rs) : ~Informs(rs[i])

\* A refresh is under way, or will be called by a catch block.
RefreshDue(cs, rs) ==
    \/ \E i \in 1..Len(cs) : cs[i] = "refresh"
    \/ \E i \in 1..Len(rs) : Refreshes(rs[i])

\* The window is told of the state, or will be: at the end of an operation that
\* can change it, or by a refresh.
StateIsTold == op \in Power \/ RefreshDue(calls, answers) \/ WillShow(answers, shown, state)

OpIsRun ==
    /\ \A t \in Threads : thread[t] = "run" => job[t] = op
    /\ op # "none" => \E t \in Threads : thread[t] = "run"

Undisturbed == serving /\ AskedByFirst /\ OpIsRun /\ StateIsTold
ShowInv     == Typed /\ (faults = 0 => NoTimeout /\ Undisturbed)

LEMMA ShowAppend ==
  ASSUME NEW rs \in Seq(Answers), NEW a \in Answers, NEW sh, NEW s,
         \/ Informs(a) /\ a.state = s
         \/ ~Informs(a) /\ WillShow(rs, sh, s)
  PROVE  WillShow(Append(rs, a), sh, s)
<1> DEFINE bs == Append(rs, a)
<1>1. Len(rs) \in Nat /\ bs \in Seq(Answers) /\ Len(bs) = Len(rs) + 1
  BY AppendProperties, LenProperties
<1>2. bs[Len(rs) + 1] = a /\ \A i \in 1..Len(rs) : bs[i] = rs[i]
  BY AppendProperties
<1>3. 1..Len(bs) = 1..Len(rs) \cup {Len(rs) + 1} /\ \A i \in 1..Len(rs) : i < Len(rs) + 1
  BY <1>1
<1>4. \A j \in 1..Len(bs) : ~(j > Len(rs) + 1)
  BY <1>1
<1> HIDE DEF bs
<1>5. CASE Informs(a) /\ a.state = s
  BY <1>2, <1>3, <1>4, <1>5 DEF WillShow, bs
<1>6. CASE ~Informs(a) /\ \E i \in 1..Len(rs) :
             /\ Informs(rs[i]) /\ rs[i].state = s
             /\ \A j \in 1..Len(rs) : j > i => ~Informs(rs[j])
  <2>1. PICK i \in 1..Len(rs) : /\ Informs(rs[i]) /\ rs[i].state = s
                                /\ \A j \in 1..Len(rs) : j > i => ~Informs(rs[j])
    BY <1>6
  <2>2. i \in 1..Len(bs) /\ Informs(bs[i]) /\ bs[i].state = s
    BY <1>2, <1>3, <2>1
  <2>3. \A j \in 1..Len(bs) : j > i => ~Informs(bs[j])
    BY <1>2, <1>3, <1>6, <2>1
  <2> QED BY <2>2, <2>3 DEF WillShow, bs
<1>7. CASE ~Informs(a) /\ sh = s /\ \A i \in 1..Len(rs) : ~Informs(rs[i])
  <2>1. \A i \in 1..Len(bs) : ~Informs(bs[i])
    BY <1>2, <1>3, <1>7
  <2> QED BY <1>7, <2>1 DEF WillShow, bs
<1> QED BY <1>5, <1>6, <1>7 DEF WillShow

LEMMA ShowTail ==
  ASSUME NEW rs \in Seq(Answers), rs # <<>>, NEW sh, NEW s, WillShow(rs, sh, s)
  PROVE  WillShow(Tail(rs), IF Informs(Head(rs)) THEN Head(rs).state ELSE sh, s)
<1> DEFINE bs == Tail(rs)
           th == IF Informs(Head(rs)) THEN Head(rs).state ELSE sh
<1>1. /\ Len(rs) \in Nat /\ Len(rs) >= 1 /\ Len(bs) = Len(rs) - 1 /\ Head(rs) = rs[1]
      /\ \A i \in 1..Len(bs) : bs[i] = rs[i + 1]
  BY HeadTailProperties, LenProperties
<1> HIDE DEF bs
<1>2. ASSUME NEW i \in 1..Len(rs), Informs(rs[i]), rs[i].state = s,
             \A j \in 1..Len(rs) : j > i => ~Informs(rs[j])
      PROVE  WillShow(bs, th, s)
  <2>1. CASE i = 1
    <3>1. \A j \in 1..Len(bs) : j + 1 \in 1..Len(rs) /\ j + 1 > 1
      BY <1>1
    <3>2. \A j \in 1..Len(bs) : ~Informs(bs[j])
      BY <1>1, <1>2, <2>1, <3>1
    <3> QED BY <1>1, <1>2, <2>1, <3>2 DEF WillShow
  <2>2. CASE i # 1
    <3>1. i - 1 \in 1..Len(bs) /\ (i - 1) + 1 = i
      BY <1>1, <2>2
    <3>2. bs[i - 1] = rs[i]
      BY <1>1, <3>1
    <3>3. \A j \in 1..Len(bs) : j > i - 1 => j + 1 \in 1..Len(rs) /\ j + 1 > i
      BY <1>1
    <3>4. \A j \in 1..Len(bs) : j > i - 1 => ~Informs(bs[j])
      BY <1>1, <1>2, <3>3
    <3> QED BY <1>2, <3>1, <3>2, <3>4 DEF WillShow
  <2> QED BY <2>1, <2>2
<1>3. ASSUME sh = s, \A i \in 1..Len(rs) : ~Informs(rs[i]) PROVE WillShow(bs, th, s)
  <2>1. \A j \in 1..Len(bs) : j + 1 \in 1..Len(rs)
    BY <1>1
  <2>2. \A j \in 1..Len(bs) : ~Informs(bs[j])
    BY <1>1, <1>3, <2>1
  <2>3. th = s
    BY <1>1, <1>3
  <2> QED BY <2>2, <2>3 DEF WillShow
<1>4. \/ \E i \in 1..Len(rs) :
            /\ Informs(rs[i]) /\ rs[i].state = s
            /\ \A j \in 1..Len(rs) : j > i => ~Informs(rs[j])
      \/ sh = s /\ \A i \in 1..Len(rs) : ~Informs(rs[i])
  BY DEF WillShow
<1>5. WillShow(bs, th, s)
  BY <1>2, <1>3, <1>4
<1> QED BY <1>5 DEF bs

LEMMA DueAppendCall ==
  ASSUME NEW cs \in Seq(Commands), NEW c \in Commands, NEW rs, RefreshDue(cs, rs)
  PROVE  RefreshDue(Append(cs, c), rs)
<1>1. /\ Len(Append(cs, c)) = Len(cs) + 1 /\ Len(cs) \in Nat
      /\ \A i \in 1..Len(cs) : Append(cs, c)[i] = cs[i] /\ i \in 1..(Len(cs) + 1)
  BY AppendProperties, LenProperties
<1> QED BY <1>1 DEF RefreshDue

LEMMA DueResolve ==
  ASSUME NEW cs \in Seq(Commands), cs # <<>>, NEW rs \in Seq(Answers), NEW a \in Answers,
         Refreshes(a) \/ (RefreshDue(cs, rs) /\ Head(cs) # "refresh")
  PROVE  RefreshDue(Tail(cs), Append(rs, a))
<1>1. /\ Len(Append(rs, a)) = Len(rs) + 1 /\ Len(rs) \in Nat
      /\ Append(rs, a)[Len(rs) + 1] = a
      /\ \A i \in 1..Len(rs) : Append(rs, a)[i] = rs[i] /\ i \in 1..(Len(rs) + 1)
  BY AppendProperties, LenProperties
<1>2. Len(rs) + 1 \in 1..(Len(rs) + 1)
  BY <1>1
<1>3. /\ Len(Tail(cs)) = Len(cs) - 1 /\ Head(cs) = cs[1] /\ Len(cs) \in Nat
      /\ \A i \in 1..Len(Tail(cs)) : Tail(cs)[i] = cs[i + 1]
  BY HeadTailProperties, LenProperties
<1>4. CASE Refreshes(a) \/ \E i \in 1..Len(rs) : Refreshes(rs[i])
  BY <1>1, <1>2, <1>4 DEF RefreshDue
<1>5. ASSUME NEW i \in 1..Len(cs), cs[i] = "refresh", i # 1 PROVE RefreshDue(Tail(cs), Append(rs, a))
  <2>1. i - 1 \in 1..Len(Tail(cs)) /\ (i - 1) + 1 = i
    BY <1>3, <1>5
  <2>2. Tail(cs)[i - 1] = "refresh"
    BY <1>3, <1>5, <2>1
  <2> QED BY <2>1, <2>2 DEF RefreshDue
<1> QED BY <1>3, <1>4, <1>5 DEF RefreshDue

LEMMA DueHandle ==
  ASSUME NEW cs \in Seq(Commands), NEW rs \in Seq(Answers), rs # <<>>, RefreshDue(cs, rs)
  PROVE  RefreshDue(IF Refreshes(Head(rs)) THEN Append(cs, "refresh") ELSE cs, Tail(rs))
<1>0. "refresh" \in Commands
  BY DEF Commands, Queries
<1>1. /\ Len(Tail(rs)) = Len(rs) - 1 /\ Head(rs) = rs[1] /\ Len(rs) \in Nat
      /\ \A i \in 1..Len(Tail(rs)) : Tail(rs)[i] = rs[i + 1]
  BY HeadTailProperties, LenProperties
<1>2. CASE Refreshes(Head(rs))
  <2>1. /\ Len(Append(cs, "refresh")) = Len(cs) + 1 /\ Len(cs) \in Nat
        /\ Append(cs, "refresh")[Len(cs) + 1] = "refresh"
    BY <1>0, AppendProperties, LenProperties
  <2>2. Len(cs) + 1 \in 1..(Len(cs) + 1)
    BY <2>1
  <2> QED BY <1>2, <2>1, <2>2 DEF RefreshDue
<1>3. CASE ~Refreshes(Head(rs))
  <2>1. ASSUME NEW i \in 1..Len(rs), Refreshes(rs[i]) PROVE RefreshDue(cs, Tail(rs))
    <3>1. i - 1 \in 1..Len(Tail(rs)) /\ (i - 1) + 1 = i
      BY <1>1, <1>3, <2>1
    <3>2. Tail(rs)[i - 1] = rs[i]
      BY <1>1, <3>1
    <3> QED BY <2>1, <3>1, <3>2 DEF RefreshDue
  <2> QED BY <1>3, <2>1 DEF RefreshDue
<1> QED BY <1>2, <1>3

\* Steps that change nothing but the commands to be run.
LEMMA InvokeUndisturbed ==
  ASSUME Typed, Undisturbed, AskedByFirst', NEW c \in Commands, Invoke(c),
         UNCHANGED helper, UNCHANGED shown
  PROVE  Undisturbed'
<1>1. RefreshDue(calls, answers) => RefreshDue(calls', answers')
  BY DueAppendCall DEF Invoke, Typed, TypeOK
<1>2. StateIsTold'
  BY <1>1 DEF Undisturbed, StateIsTold, Invoke, helper, controller
<1> QED BY <1>2 DEF Undisturbed, OpIsRun, helper, controller

LEMMA HandleUndisturbed ==
  ASSUME Typed, Undisturbed, AskedByFirst', HandleAnswer
  PROVE  Undisturbed'
<1>1. answers \in Seq(Answers) /\ calls \in Seq(Commands)
  BY DEF Typed, TypeOK
<1>2. RefreshDue(calls, answers) => RefreshDue(calls', answers')
  BY <1>1, DueHandle DEF HandleAnswer
<1>3. shown' = IF Informs(Head(answers)) THEN Head(answers).state ELSE shown
  BY DEF HandleAnswer, Informs
<1>4. WillShow(answers, shown, state) => WillShow(answers', shown', state)
  BY <1>1, <1>3, ShowTail DEF HandleAnswer
<1>5. UNCHANGED helper
  BY DEF HandleAnswer
<1>6. state' = state /\ op' = op
  BY <1>5 DEF helper, controller
<1>7. StateIsTold'
  BY <1>2, <1>4, <1>6 DEF Undisturbed, StateIsTold
<1> QED BY <1>5, <1>6, <1>7 DEF Undisturbed, OpIsRun, helper

LEMMA SendUndisturbed ==
  ASSUME Typed, Undisturbed, AskedByFirst', Send, NoFault
  PROVE  Undisturbed'
<1>1. PICK t \in Threads :
         /\ thread[t] = "free" /\ thread' = [thread EXCEPT ![t] = "lock"]
         /\ job' = [job EXCEPT ![t] = Head(calls)]
         /\ UNCHANGED <<calls, answers>>
  <2>1. ~Fault("token")
    BY DEF Fault, NoFault, Typed, TypeOK
  <2> QED BY <2>1 DEF Send, Undisturbed
<1>2. UNCHANGED controller /\ serving' = serving /\ UNCHANGED window
  BY DEF Send
<1>3. state' = state /\ op' = op /\ shown' = shown
  BY <1>2 DEF controller, window
<1>4. StateIsTold'
  BY <1>1, <1>3 DEF Undisturbed, StateIsTold
<1>5. \A u \in Threads : thread[u] = "free"
  BY HelperAssumption DEF HelperAssumption, Send, Undisturbed, AskedByFirst
<1>6. op = "none"
  BY <1>5 DEF Undisturbed, OpIsRun
<1>7. OpIsRun'
  BY <1>1, <1>3, <1>5, <1>6 DEF OpIsRun, Typed, TypeOK
<1> QED BY <1>2, <1>4, <1>7 DEF Undisturbed

\* The thread that ends is the one that is asked, and no other is at work.
LEMMA AnswerUndisturbed ==
  ASSUME Typed, Undisturbed, AskedByFirst', NEW t \in Threads, thread[t] # "free",
         NEW ok \in BOOLEAN, NEW s \in Controller!States, Answer(t, ok, s),
         op' = "none", shown' = shown,
         ok => state' = s,
         ~ok => job[t] \in Power \/ (job[t] = "reset" /\ op \notin Power /\ state' = state),
         job[t] \in Queries => op = "none" /\ state' = state
  PROVE  Undisturbed'
<1>1. /\ answers \in Seq(Answers) /\ calls \in Seq(Commands)
      /\ asked = t /\ calls # <<>> /\ Head(calls) = job[t]
  BY HelperAssumption
     DEF HelperAssumption, Undisturbed, AskedByFirst, Typed, TypeOK, AskedForFirst
<1>2. AllFree'
  BY <1>1 DEF Answer, AllFree, Undisturbed, AskedByFirst, Typed, TypeOK
<1>3. OpIsRun' /\ serving'
  BY <1>2 DEF OpIsRun, AllFree, Answer, Undisturbed
<1>4. Head(calls) \in Commands /\ "off" \in Controller!States
  BY <1>1, HeadTailProperties DEF Controller!States
<1> DEFINE told    == [cmd |-> Head(calls), ok |-> TRUE, state |-> s]
           nothing == [cmd |-> Head(calls), ok |-> (Head(calls) = "diagnostics"), state |-> "off"]
<1>5. told \in Answers /\ nothing \in Answers
  BY <1>4 DEF Answers
<1>6. CASE ok /\ job[t] # "diagnostics"
  <2>1. answers' = Append(answers, told)
    BY <1>1, <1>6 DEF Answer, Resolve
  <2>2. Informs(told) /\ told.state = s
    BY <1>1, <1>6 DEF Informs
  <2>3. WillShow(answers', shown', state')
    BY <1>1, <1>5, <1>6, <2>1, <2>2, ShowAppend
  <2> QED BY <1>3, <2>3 DEF Undisturbed, StateIsTold
<1>7. CASE ~ok /\ job[t] \in Power
  <2>1. answers' = Append(answers, nothing) /\ calls' = Tail(calls)
    BY <1>1, <1>7 DEF Answer, Resolve, Reject
  <2>2. Refreshes(nothing)
    BY <1>1, <1>7 DEF Refreshes, Power
  <2>3. RefreshDue(calls', answers')
    BY <1>1, <1>5, <2>1, <2>2, DueResolve
  <2> QED BY <1>3, <2>3 DEF Undisturbed, StateIsTold
<1>8. CASE job[t] = "diagnostics" \/ (~ok /\ job[t] = "reset")
  <2>1. answers' = Append(answers, nothing) /\ calls' = Tail(calls)
    BY <1>1, <1>8 DEF Answer, Resolve, Reject
  <2>2. ~Informs(nothing) /\ Head(calls) # "refresh"
    BY <1>1, <1>8 DEF Informs
  <2>3. op \notin Power /\ state' = state
    BY <1>8 DEF Queries, Power
  <2>4. RefreshDue(calls, answers) => RefreshDue(calls', answers')
    BY <1>1, <1>5, <2>1, <2>2, DueResolve
  <2>5. WillShow(answers, shown, state) => WillShow(answers', shown', state')
    BY <1>1, <1>5, <2>1, <2>2, <2>3, ShowAppend
  <2> QED BY <1>3, <2>3, <2>4, <2>5 DEF Undisturbed, StateIsTold
<1> QED BY <1>6, <1>7, <1>8

LEMMA ThreadUndisturbed ==
  ASSUME Typed, Undisturbed, AskedByFirst', NEW t \in Threads, Thread(t), NoFault
  PROVE  Undisturbed'
<1>0. state \in Controller!States
  BY DEF Typed, TypeOK
<1>1. CASE Refuse(t)
  BY <1>1 DEF Refuse, Fault, NoFault, Typed, TypeOK
<1>2. CASE ReadStatus(t)
  <2>1. shown' = shown /\ state' = state /\ op = "none" /\ op' = "none"
    BY <1>2 DEF ReadStatus, window, controller
  <2> QED BY <1>0, <1>2, <2>1, AnswerUndisturbed DEF ReadStatus
<1>3. CASE StartOperation(t)
  <2>1. /\ thread[t] = "lock" /\ thread' = [thread EXCEPT ![t] = "run"]
        /\ job' = job /\ serving' = serving /\ UNCHANGED desktop /\ shown' = shown
    BY <1>3 DEF StartOperation, window
  <2>2. /\ op = "none" /\ op' = job[t] /\ job[t] \in Power \cup {"reset"}
        /\ (job[t] \notin Power => state' = state)
    BY <1>3 DEF StartOperation, Controller!Start, Controller!Begun, Controller!Operations, Power
  <2>3. \A u \in Threads : u # t => thread[u] = "free"
    BY <2>1 DEF Undisturbed, AskedByFirst
  <2>4. OpIsRun'
    BY <2>1, <2>2, <2>3 DEF OpIsRun, Typed, TypeOK
  <2>5. StateIsTold'
    BY <2>1, <2>2 DEF Undisturbed, StateIsTold, desktop, Power
  <2> QED BY <2>1, <2>4, <2>5 DEF Undisturbed
<1>4. CASE RunOperation(t)
  <2>1. UNCHANGED <<serving, thread, job, desktop, shown, state, op>>
    BY <1>4 DEF RunOperation, Controller!Work, window
  <2>2. OpIsRun' /\ StateIsTold'
    BY <2>1 DEF Undisturbed, OpIsRun, StateIsTold, desktop
  <2> QED BY <2>1, <2>2 DEF Undisturbed
<1>5. CASE FinishOperation(t)
  <2>1. thread[t] = "run" /\ job[t] = op /\ shown' = shown
    BY <1>5 DEF FinishOperation, Undisturbed, OpIsRun, window
  <2>2. op \in Controller!Operations /\ op' = "none"
    BY <1>5 DEF FinishOperation, Controller!Succeed, Controller!Fail, Typed, TypeOK
  <2>3. job[t] \notin Queries /\ (job[t] \in Power \/ job[t] = "reset")
    BY <2>1, <2>2 DEF Controller!Operations, Queries, Power
  <2>4. CASE Controller!Succeed /\ Answer(t, TRUE, state')
    <3>1. state' \in Controller!States
      BY <2>4, ControllerSteps DEF ControllerTyped
    <3> QED BY <2>1, <2>2, <2>3, <2>4, <3>1, AnswerUndisturbed
  <2>5. CASE Controller!Fail /\ Answer(t, FALSE, state)
    <3>1. job[t] = "reset" => op \notin Power /\ state' = state
      BY <2>1, <2>5 DEF Controller!Fail, Power
    <3> QED BY <1>0, <2>1, <2>2, <2>3, <2>5, <3>1, AnswerUndisturbed
  <2> QED BY <1>5, <2>4, <2>5 DEF FinishOperation
<1> QED BY <1>1, <1>2, <1>3, <1>4, <1>5 DEF Thread

LEMMA ShowInvInit == Init => ShowInv
<1> SUFFICES ASSUME Init PROVE ShowInv
  OBVIOUS
<1>1. shown = state /\ answers = <<>> /\ op = "none"
  BY DEF Init, Controller!Init
<1>2. StateIsTold
  BY <1>1, EmptySeq DEF StateIsTold, WillShow
<1>3. AskedByFirst /\ OpIsRun /\ serving
  BY <1>1 DEF Init, AskedByFirst, OpIsRun
<1>4. NoTimeout
  BY DEF Init, NoTimeout
<1> QED BY <1>2, <1>3, <1>4, TypedInit DEF ShowInv, Undisturbed

LEMMA ShowInvNext == ShowInv /\ [Next]_vars => ShowInv'
<1> SUFFICES ASSUME ShowInv, [Next]_vars PROVE ShowInv'
  OBVIOUS
<1>1. Typed /\ Typed'
  BY TypedNext DEF ShowInv
<1> SUFFICES ASSUME faults' = 0 PROVE NoTimeout' /\ Undisturbed'
  BY <1>1 DEF ShowInv
<1>2. CASE UNCHANGED vars
  <2>1. UNCHANGED <<serving, thread, job, calls, asked, answers, shown, state, op>>
    BY <1>2 DEF vars, helper, controller, desktop, window
  <2>2. faults' = faults /\ happened' = happened
    BY <1>2 DEF vars
  <2>3. NoTimeout /\ Undisturbed /\ NoTimeout'
    BY <2>2 DEF ShowInv, NoTimeout
  <2> QED BY <2>1, <2>3 DEF Undisturbed, AskedByFirst, OpIsRun, StateIsTold
<1>3. CASE Next
  <2>1. faults' = faults \/ faults' = faults + 1
    BY <1>3 DEF Next, Window, User, Click, ClickAdvanced, Poll, HandleAnswer, Desktop, Send, Timeout,
         StopService, StartService, Thread, Refuse, ReadStatus, StartOperation, RunOperation,
         FinishOperation, Fault, NoFault
  <2>2. faults = 0 /\ faults' = faults /\ faults \in Nat
    BY <1>1, <2>1, HelperAssumption DEF HelperAssumption, Typed, TypeOK
  <2>3. NoTimeout /\ Undisturbed
    BY <2>2 DEF ShowInv
  <2>4. \A f : ~Fault(f)
    BY <2>2 DEF Fault
  <2>5. happened' \subseteq happened \cup {"advanced"}
    BY <1>3, <2>4 DEF Next, Window, User, Click, ClickAdvanced, Poll, HandleAnswer, Desktop, Send,
         Timeout, StopService, StartService, Thread, Refuse, ReadStatus, StartOperation,
         RunOperation, FinishOperation, NoFault
  <2>6. NoTimeout' /\ AskedByFirst'
    BY <1>1, <1>3, <2>3, <2>5, AskedNext DEF NoTimeout, Undisturbed
  <2>7. CASE Window
    <3>1. CASE Poll
      BY <1>1, <2>3, <2>6, <3>1, InvokeUndisturbed DEF Poll, window, Commands, Queries
    <3>2. ASSUME NEW c \in Power, Click(c) PROVE Undisturbed'
      BY <1>1, <2>3, <2>6, <3>2, InvokeUndisturbed DEF Click, Commands
    <3>3. ASSUME NEW c \in Advanced, ClickAdvanced(c) PROVE Undisturbed'
      <4>1. c \in Commands
        BY HelperAssumption DEF HelperAssumption, Commands, Queries
      <4> QED BY <1>1, <2>3, <2>6, <3>3, <4>1, InvokeUndisturbed DEF ClickAdvanced
    <3>4. CASE HandleAnswer
      BY <1>1, <2>3, <2>6, <3>4, HandleUndisturbed
    <3> QED BY <2>6, <2>7, <3>1, <3>2, <3>3, <3>4 DEF Window, User
  <2>8. CASE Desktop
    <3>1. ~Timeout
      BY <2>4 DEF Timeout
    <3>2. Send => NoFault
      BY <2>4 DEF Send
    <3> QED BY <1>1, <2>3, <2>6, <2>8, <3>1, <3>2, SendUndisturbed DEF Desktop
  <2>9. ASSUME NEW t \in Threads, Thread(t) PROVE Undisturbed'
    <3>1. NoFault
      BY <2>4, <2>9 DEF Thread, Refuse, ReadStatus, StartOperation, RunOperation, FinishOperation
    <3> QED BY <1>1, <2>3, <2>6, <2>9, <3>1, ThreadUndisturbed
  <2>10. ~StopService /\ ~StartService
    BY <2>3, <2>6, <2>4 DEF StopService, StartService, Undisturbed
  <2> QED BY <1>3, <2>6, <2>7, <2>8, <2>9, <2>10 DEF Next
<1> QED BY <1>2, <1>3

\* ShowsHelperState: for any number of connections and commands under way, a
\* window at rest, with no failure but those of the operations, shows the state of
\* the helper.
THEOREM WindowShowsState == Spec => []ShowsHelperState
<1>1. ShowInv => ShowsHelperState
  <2> SUFFICES ASSUME ShowInv, faults = 0, Quiet PROVE shown = state
    BY DEF ShowsHelperState
  <2>1. op = "none" /\ StateIsTold
    BY DEF ShowInv, Undisturbed, OpIsRun, Quiet
  <2>2. Len(calls) = 0 /\ Len(answers) = 0
    BY EmptySeq DEF Quiet
  <2> QED BY <2>1, <2>2 DEF StateIsTold, RefreshDue, WillShow, Power
<1> QED BY ShowInvInit, ShowInvNext, <1>1, PTL DEF Spec

-----------------------------------------------------------------------------
(* What keeps the button dead is on its way.                               *)

Reason    == busy => \E i \in DOMAIN Line : Line[i] # "status"
ReasonInv == Typed /\ Reason

\* A command that is called takes the place behind the line.
LEMMA InvokeBehind ==
  ASSUME Typed, NEW c \in Commands, Invoke(c)
  PROVE  \E n \in DOMAIN Line' :
            Line'[n] = c /\ \A i \in DOMAIN Line : i \in DOMAIN Line' /\ Line'[i] = Line[i]
<1> DEFINE n == Len(answers) + Len(calls) + 1
<1>1. /\ calls \in Seq(Commands) /\ Len(calls) \in Nat /\ Len(answers) \in Nat
      /\ calls' = Append(calls, c) /\ answers' = answers
  BY LenProperties DEF Typed, TypeOK, Invoke
<1>2. Len(calls') = Len(calls) + 1
  BY <1>1, AppendProperties
<1>3. DOMAIN Line = 1..(n - 1) /\ DOMAIN Line' = 1..n /\ n \in Nat \ {0}
  BY <1>1, <1>2 DEF Line
<1>4. \A i \in DOMAIN Line' : (i \in DOMAIN Line /\ Line'[i] = Line[i]) \/ (i = n /\ Line'[i] = c)
  BY <1>1, InvokeLine
<1> HIDE DEF n
<1>5. n \in DOMAIN Line' /\ n \notin DOMAIN Line
  BY <1>3
<1>6. \A i \in DOMAIN Line : i \in DOMAIN Line' /\ i # n
  BY <1>3
<1> QED BY <1>4, <1>5, <1>6

LEMMA HandleReason ==
  ASSUME ReasonInv, HandleAnswer
  PROVE  Reason'
<1> DEFINE a == Head(answers)
<1> SUFFICES ASSUME busy' PROVE \E i \in DOMAIN Line' : Line'[i] # "status"
  BY DEF Reason
<1>1. busy /\ StaysBusy(a)
  BY DEF HandleAnswer
<1>2. /\ answers \in Seq(Answers) /\ calls \in Seq(Commands)
      /\ Len(calls) \in Nat /\ Len(answers) \in Nat
  BY LenProperties DEF ReasonInv, Typed, TypeOK
<1>3. Len(answers') = Len(answers) - 1 /\ Len(answers) >= 1
  BY <1>2, HeadTailProperties, LenProperties DEF HandleAnswer
<1>4. Len(calls') = IF Refreshes(a) THEN Len(calls) + 1 ELSE Len(calls)
  BY <1>2, AppendProperties DEF HandleAnswer, Commands, Queries
<1>5. DOMAIN Line = 1..(Len(answers) + Len(calls)) /\ DOMAIN Line' = 1..(Len(answers') + Len(calls'))
  BY DEF Line
<1>6. /\ Line[1] = a.cmd
      /\ \A i \in DOMAIN Line' :
            \/ i + 1 \in DOMAIN Line /\ Line'[i] = Line[i + 1]
            \/ Refreshes(a) /\ Line'[i] = "refresh"
  BY HandleLine DEF ReasonInv
<1>7. CASE Refreshes(a)
  <2> DEFINE n == Len(answers) + Len(calls)
  <2>1. n \in DOMAIN Line' /\ n + 1 \notin DOMAIN Line
    BY <1>2, <1>3, <1>4, <1>5, <1>7
  <2>2. Line'[n] = "refresh"
    BY <1>6, <2>1
  <2> QED BY <2>1, <2>2
<1>8. CASE ~Refreshes(a)
  <2>1. PICK i \in DOMAIN Line : Line[i] # "status"
    BY <1>1 DEF ReasonInv, Reason
  <2>2. i # 1
    BY <1>1, <1>6, <1>8, <2>1 DEF StaysBusy
  <2>3. i - 1 \in DOMAIN Line' /\ (i - 1) + 1 = i
    BY <1>2, <1>3, <1>4, <1>5, <1>8, <2>2
  <2>4. Line'[i - 1] = Line[i]
    BY <1>6, <1>8, <2>3
  <2> QED BY <2>1, <2>3, <2>4
<1> QED BY <1>7, <1>8

\* A handler's thread that ends leaves the line as it is: the result is in the
\* place of the command.
LEMMA AnswerKeepsLine ==
  ASSUME Typed, NEW t \in Threads, NEW ok \in BOOLEAN, NEW s \in Controller!States,
         Answer(t, ok, s)
  PROVE  Line' = Line
<1>1. CASE asked # t
  BY <1>1, DesktopKeepsLine DEF Answer
<1>2. CASE asked = t
  <2>1. calls # <<>>
    BY <1>2, HelperAssumption DEF HelperAssumption, Typed, AskedForFirst
  <2> QED BY <1>2, <2>1, ResolveLine, RejectLine DEF Answer
<1> QED BY <1>1, <1>2

LEMMA ReasonNext == ReasonInv /\ [Next]_vars => ReasonInv'
<1> SUFFICES ASSUME ReasonInv, [Next]_vars PROVE ReasonInv'
  OBVIOUS
<1>0. Typed /\ Typed' /\ state \in Controller!States
  BY TypedNext DEF ReasonInv, Typed, TypeOK
<1>1. ASSUME Line' = Line, busy' = busy PROVE ReasonInv'
  BY <1>0, <1>1 DEF ReasonInv, Reason
<1>2. CASE Poll
  <2>1. PICK n \in DOMAIN Line' :
           \A i \in DOMAIN Line : i \in DOMAIN Line' /\ Line'[i] = Line[i]
    BY <1>0, <1>2, InvokeBehind DEF Poll, Commands, Queries
  <2>2. busy' = busy
    BY <1>2 DEF Poll, window
  <2> QED BY <1>0, <2>1, <2>2 DEF ReasonInv, Reason
<1>3. ASSUME NEW c \in Commands \ {"status"}, Invoke(c) PROVE ReasonInv'
  <2>1. \E n \in DOMAIN Line' : Line'[n] = c
    BY <1>0, <1>3, InvokeBehind
  <2> QED BY <1>0, <1>3, <2>1 DEF ReasonInv, Reason
<1>4. CASE User
  <2>1. Power \cup Advanced \subseteq Commands \ {"status"}
    BY HelperAssumption DEF HelperAssumption, Power, Commands, Queries
  <2> QED BY <1>3, <1>4, <2>1 DEF User, Click, ClickAdvanced
<1>5. CASE HandleAnswer
  BY <1>0, <1>5, HandleReason DEF ReasonInv
<1>6. CASE Desktop
  <2>1. busy' = busy
    BY <1>6 DEF Desktop, Send, Timeout, window
  <2>2. CASE Reject /\ calls # <<>>
    BY <1>0, <1>1, <2>1, <2>2, RejectLine
  <2>3. CASE UNCHANGED <<calls, answers>>
    BY <1>1, <2>1, <2>3 DEF Line
  <2> QED BY <1>0, <1>6, <2>2, <2>3 DEF Desktop, Send, Timeout, Typed, AskedForFirst
<1>7. ASSUME NEW t \in Threads, Thread(t) PROVE ReasonInv'
  <2>1. busy' = busy
    BY <1>7 DEF Thread, Refuse, ReadStatus, StartOperation, RunOperation, FinishOperation, window
  <2>2. state' \in Controller!States
    BY <1>0 DEF Typed, TypeOK
  <2>3. UNCHANGED desktop \/ \E ok \in BOOLEAN, s \in Controller!States : Answer(t, ok, s)
    BY <1>0, <1>7, <2>2 DEF Thread, Refuse, ReadStatus, StartOperation, RunOperation, FinishOperation
  <2> QED BY <1>0, <1>1, <2>1, <2>3, AnswerKeepsLine, DesktopKeepsLine
<1>8. CASE StopService \/ StartService
  <2>1. busy' = busy
    BY <1>8 DEF StopService, StartService, window
  <2>2. UNCHANGED desktop \/ (Reject /\ calls # <<>>)
    BY <1>0, <1>8 DEF StopService, StartService, Typed, AskedForFirst
  <2> QED BY <1>0, <1>1, <2>1, <2>2, DesktopKeepsLine, RejectLine
<1>9. CASE UNCHANGED vars
  <2>1. UNCHANGED desktop /\ busy' = busy
    BY <1>9 DEF vars, window
  <2> QED BY <1>1, <2>1, DesktopKeepsLine
<1> QED BY <1>2, <1>4, <1>5, <1>6, <1>7, <1>8, <1>9 DEF Next, Window

\* BusyHasReason: whatever is clicked, lost, given up or stopped, and in whatever
\* order, busy never outlives the commands that are there to take it back.
THEOREM BusyIsAnswered == Spec => []BusyHasReason
<1>1. Init => Reason
  BY DEF Init, Reason
<1>2. ReasonInv => BusyHasReason
  <2> SUFFICES ASSUME ReasonInv, busy,
                      \A i \in 1..Len(calls) : calls[i] = "status"
               PROVE  \E i \in 1..Len(answers) : answers[i].cmd # "status"
    BY DEF BusyHasReason
  <2>1. Len(calls) \in Nat /\ Len(answers) \in Nat
    BY LenProperties DEF ReasonInv, Typed, TypeOK
  <2>2. PICK i \in 1..(Len(answers) + Len(calls)) : Line[i] # "status"
    BY DEF ReasonInv, Reason, Line
  <2>3. i > Len(answers) => i - Len(answers) \in 1..Len(calls)
    BY <2>1
  <2>4. i \in 1..Len(answers)
    BY <2>1, <2>2, <2>3 DEF Line
  <2> QED BY <2>1, <2>2, <2>4 DEF Line
<1> QED BY TypedInit, ReasonNext, <1>1, <1>2, PTL DEF Spec, ReasonInv

================================================================================
