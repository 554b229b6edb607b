----------------------- MODULE ControllerRuntimeProofs -----------------------
(***************************************************************************)
(* The safety properties of ControllerRuntime, and that it implements      *)
(* ControllerCalls, for every number of opens, commands and faults.        *)
(***************************************************************************)
EXTENDS ControllerRuntime, SequenceTheorems, TLAPS

-----------------------------------------------------------------------------
(* The inductive invariant *)

\* A worker is owned from open until the call that finishes it returns, and
\* only a drop returns before the worker is over.  By then the session is.
OwnerInv ==
    /\ listening = runtime
    /\ runtime => worker # "none"
    /\ client \notin {"idle", "gone"} => runtime
    /\ client = "gone" => ~runtime
    /\ client = "idle" /\ ~runtime => worker \in {"none", "exited"}
    /\ worker \in {"none", "publish", "release", "exited"} => port = "closed"
    /\ client = "idle" /\ call = "close" => ~runtime
    /\ client \in {"enqueue", "notify", "response"} => call \in {"create", "command"}

\* A command is on its way only while its caller waits for the response.
ChannelInv ==
    /\ receiver = (worker \notin {"none", "exited"})
    /\ slot \/ inFlight => response = "waiting"
    /\ ~(slot /\ inFlight)
    /\ response # "none" => client \in {"notify", "response"}
    /\ response = "lost" => worker = "exited"

\* A shutdown is requested once, by the call that then waits for it.
LatchInv ==
    /\ latch # "running" /\ runtime => client \in {"wake", "completion", "joining"}
    /\ client = "wake" => latch # "running"
    /\ Orderly => latch # "running"

\* Past its loop the worker knows why; only a failing core answers "failed".
Past == {"guard", "settle", "teardown", "publish", "release", "exited"} \cup Phases
EndInv ==
    /\ worker \in Past => cause # "none"
    /\ worker = "answer" => cause = "core"
    /\ progress = "failed" => worker = "answer"
    /\ response = "failed" => worker \notin Loop
    /\ TerminalFinishIsTerminal

\* The completion is the worker's outcome, if anybody listens.
CompletionInv ==
    /\ completion # NoCompletion => worker \in {"release", "exited"}
    /\ listening /\ worker \in {"release", "exited"} =>
         completion = [cause |-> cause, failure |-> failure, undelivered |-> undelivered]

\* The phases run in one order, and a cleanup begins once.
Rank == [p \in Phases |-> CASE p = "neutral" -> 1 [] p = "drain" -> 2
                            [] p = "disconnect" -> 3 [] p = "close" -> 4]
CleanupInv ==
    /\ ~closing => phases = <<>>
    /\ worker \in Loop => ~closing
    /\ worker \in Phases => closing
    /\ worker \in Phases => \A i \in 1..Len(phases) : Rank[phases[i].phase] < Rank[worker]
    /\ \A i, j \in 1..Len(phases) : i < j => Rank[phases[i].phase] < Rank[phases[j].phase]

\* A panic that was caught is the cause, until the teardown panics.
PanicInv ==
    /\ payload => worker \in Past
    /\ payload /\ Orderly => worker \in {"publish", "release", "exited"}
    /\ FailureIsRecorded

\* An orderly cleanup without a first failure had none at all.
AllWell == \A i \in 1..Len(phases) : phases[i].ok
OutcomeInv ==
    /\ Orderly /\ failure = "none" /\ worker # "panicked" => AllWell
    /\ CloseTellsAll

IInv ==
    /\ TypeOK /\ OwnerInv /\ ChannelInv /\ LatchInv /\ EndInv /\ CompletionInv
    /\ CleanupInv /\ PanicInv /\ OutcomeInv
-----------------------------------------------------------------------------
(* Types *)

\* The short sequences the calls return, and the empty history.
LEMMA Letters ==
    /\ << >> \in Seq(ErrorNames) /\ <<"open">> \in Seq(ErrorNames)
    /\ << >> \in Seq([phase : Phases, ok : BOOLEAN])
    /\ \A e \in ErrorNames : <<e>> \in Seq(ErrorNames)
BY DEF ErrorNames

\* An error that is reported or not.
LEMMA IfType ==
    ASSUME NEW cond \in BOOLEAN, NEW e \in ErrorNames
    PROVE  If(cond, e) \in Seq(ErrorNames)
<1>1. <<e>> \in Seq(ErrorNames) /\ << >> \in Seq(ErrorNames)
  OBVIOUS
<1>2. CASE cond
  BY <1>1, <1>2 DEF If
<1>3. CASE ~cond
  BY <1>1, <1>3 DEF If
<1> QED
  BY <1>2, <1>3

\* What a call that finished its worker returns is an outcome.
LEMMA ErrorsType ==
    ASSUME TypeOK
    PROVE  Reported \in Outcomes
<1> DEFINE joined == If(payload, "join")
           cleaned == If(completion.failure # "none", "cleanup")
           told == If(completion.undelivered, "delivery")
<1>1. joined \in Seq(ErrorNames) /\ cleaned \in Seq(ErrorNames) /\ told \in Seq(ErrorNames)
  BY IfType DEF ErrorNames, TypeOK, ChannelTypeOK, WorkerTypeOK
<1>2. completion.cause \in ErrorNames
  BY DEF TypeOK, ChannelTypeOK, ErrorNames
<1>3. <<"disconnected">> \in Seq(ErrorNames) /\ <<"pair">> \in Seq(ErrorNames)
      /\ <<completion.cause>> \in Seq(ErrorNames)
  BY <1>2 DEF ErrorNames
<1> HIDE DEF joined, cleaned, told
<1>4. <<"disconnected">> \o joined \in Seq(ErrorNames)
      /\ (cleaned \o told) \o joined \in Seq(ErrorNames)
      /\ ((<<completion.cause>> \o told) \o cleaned) \o joined \in Seq(ErrorNames)
  BY <1>1, <1>3, ConcatProperties
<1>5. Errors(completion) \in Seq(ErrorNames)
  BY <1>4 DEF Errors, joined, cleaned, told
<1>6. <<"pair">> \o Errors(completion) \in Seq(ErrorNames)
  BY <1>3, <1>5, ConcatProperties
<1> QED
  BY <1>5, <1>6 DEF Reported, TypeOK, ProgramTypeOK, Outcomes

\* No error at all means an orderly end.
LEMMA ErrorsTell ==
    ASSUME TypeOK, Errors(completion) = << >>
    PROVE  completion.cause = "closed" /\ completion.failure = "none" /\ ~payload
<1> DEFINE joined == If(payload, "join")
           cleaned == If(completion.failure # "none", "cleanup")
           told == If(completion.undelivered, "delivery")
           cause1 == <<completion.cause>>
           lost == <<"disconnected">> \o joined
           orderly == (cleaned \o told) \o joined
           failed == ((cause1 \o told) \o cleaned) \o joined
<1>1. joined \in Seq(ErrorNames) /\ cleaned \in Seq(ErrorNames) /\ told \in Seq(ErrorNames)
  BY IfType DEF ErrorNames, TypeOK, ChannelTypeOK, WorkerTypeOK
<1>2. cause1 \in Seq(ErrorNames) /\ Len(cause1) = 1
  BY DEF TypeOK, ChannelTypeOK, ErrorNames
<1>3. <<"disconnected">> \in Seq(ErrorNames) /\ Len(<<"disconnected">>) = 1
  BY DEF ErrorNames
<1>4. payload => Len(joined) = 1
  BY DEF If
<1>5. completion.failure # "none" => Len(cleaned) = 1
  BY DEF If
<1>6. \/ Errors(completion) = lost
      \/ completion.cause = "closed" /\ Errors(completion) = orderly
      \/ Errors(completion) = failed
  BY DEF Errors
<1> HIDE DEF joined, cleaned, told, cause1
<1>7. \A s, t \in Seq(ErrorNames) :
        s \o t \in Seq(ErrorNames) /\ Len(s \o t) = Len(s) + Len(t)
  BY ConcatProperties
<1>8. Len(joined) \in Nat /\ Len(cleaned) \in Nat /\ Len(told) \in Nat
  BY <1>1, LenProperties
<1>9. Len(Errors(completion)) = 0
  OBVIOUS
<1>10. Len(lost) = 1 + Len(joined)
  BY <1>1, <1>3, <1>7
<1>11. Len(orderly) = Len(cleaned) + Len(told) + Len(joined)
  <2>1. cleaned \o told \in Seq(ErrorNames) /\ Len(cleaned \o told) = Len(cleaned) + Len(told)
    BY <1>1, <1>7
  <2> QED
    BY <1>1, <1>7, <2>1
<1>12. Len(failed) = 1 + Len(told) + Len(cleaned) + Len(joined)
  <2>1. cause1 \o told \in Seq(ErrorNames) /\ Len(cause1 \o told) = 1 + Len(told)
    BY <1>1, <1>2, <1>7
  <2>2. /\ (cause1 \o told) \o cleaned \in Seq(ErrorNames)
        /\ Len((cause1 \o told) \o cleaned) = 1 + Len(told) + Len(cleaned)
    BY <1>1, <1>7, <2>1
  <2> QED
    BY <1>1, <1>7, <2>2
<1> HIDE DEF lost, orderly, failed
<1>13. completion.cause = "closed" /\ Errors(completion) = orderly
  BY <1>6, <1>8, <1>9, <1>10, <1>12
<1> QED
  BY <1>4, <1>5, <1>8, <1>9, <1>11, <1>13

\* The types hold at first.
LEMMA TypeInit == Init => TypeOK
<1> SUFFICES ASSUME Init PROVE TypeOK
  OBVIOUS
<1> USE Letters DEF Init
<1>1. ProgramTypeOK
  BY DEF ProgramTypeOK, Requests, CallNames, Outcomes
<1>2. ChannelTypeOK
  BY DEF ChannelTypeOK, NoCompletion, Causes, Failures
<1>3. WorkerTypeOK
  BY BoundAssumption DEF WorkerTypeOK, Causes, Failures, Statuses
<1> QED
  BY <1>1, <1>2, <1>3 DEF TypeOK

\* What the steps make of a status is a status.
LEMMA StatusType ==
    ASSUME status \in Statuses
    PROVE  /\ Failing(status) \in Statuses /\ Failing(status).failure = TRUE
           /\ \A l \in {"Open", "Closing", "Closed"} :
                /\ [status EXCEPT !.lifecycle = l] \in Statuses
                /\ Failing([status EXCEPT !.lifecycle = l]) \in Statuses
                /\ Failing([status EXCEPT !.lifecycle = l]).failure = TRUE
                /\ [status EXCEPT !.lifecycle = l].failure = status.failure
BY DEF Failing, Statuses

\* A step that leaves a thread's or a channel's variables alone keeps their types.
LEMMA Frames ==
    /\ ProgramTypeOK /\ UNCHANGED program => ProgramTypeOK'
    /\ ChannelTypeOK /\ UNCHANGED <<commands, token, latch, finish>> => ChannelTypeOK'
BY DEF ProgramTypeOK, ChannelTypeOK, program, commands, finish

\* A fault leaves a natural number of them.
LEMMA FaultType ==
    ASSUME WorkerTypeOK, NEW n \in {0, 1}, Fault(n)
    PROVE  left' \in [opens : Nat, commands : Nat, faults : Nat]
BY DEF WorkerTypeOK, Fault

\* A call and its errors are an outcome.
LEMMA OutcomeType ==
    ASSUME NEW c \in CallNames, NEW e \in Seq(ErrorNames)
    PROVE  [call |-> c, errors |-> e] \in Outcomes
BY DEF Outcomes

\* So is what Return records.
LEMMA ReturnType ==
    ASSUME call' \in CallNames, NEW e \in Seq(ErrorNames), Return(e)
    PROVE  outcome' \in Outcomes
BY DEF Return, Outcomes

\* open and create_profile keep the types.
LEMMA OpeningTypes ==
    ASSUME TypeOK, NEW c \in {"open", "create"},
           OpenRefused(c) \/ SpawnFailed(c) \/ Opened(c)
    PROVE  TypeOK'
<1> USE Letters DEF TypeOK
<1>1. call' \in CallNames
  BY DEF CallNames, OpenRefused, SpawnFailed, Opened
<1>2. outcome' \in Outcomes
  <2>1. CASE OpenRefused(c) \/ SpawnFailed(c)
    <3>1. outcome' = [call |-> call', errors |-> <<"open">>]
      BY <2>1 DEF OpenRefused, SpawnFailed
    <3> QED
      BY <1>1, <3>1, OutcomeType
  <2>2. CASE Opened(c) /\ c = "create"
    BY <2>2 DEF Opened, ProgramTypeOK
  <2>3. CASE Opened(c) /\ c # "create"
    <3>1. Return(<< >>)
      BY <2>3 DEF Opened
    <3> QED
      BY <1>1, <3>1, ReturnType
  <2> QED
    BY <2>1, <2>2, <2>3
<1>3. ProgramTypeOK'
  BY <1>1, <1>2 DEF ProgramTypeOK, OpenRefused, SpawnFailed, Opened, Return
<1>4. ChannelTypeOK'
  <2>1. CASE OpenRefused(c) \/ SpawnFailed(c)
    BY <2>1 DEF ChannelTypeOK, OpenRefused, SpawnFailed, commands, finish
  <2>2. CASE Opened(c)
    BY <2>2 DEF ChannelTypeOK, Opened, NoCompletion, Causes, Failures
  <2> QED
    BY <2>1, <2>2
<1>5. status' \in Statuses
  BY StatusType DEF WorkerTypeOK, OpenRefused, SpawnFailed, Opened
<1>6. left' \in [opens : Nat, commands : Nat, faults : Nat]
  BY DEF WorkerTypeOK, OpenRefused, SpawnFailed, Opened, Spend
<1>7. WorkerTypeOK'
  <2>1. CASE OpenRefused(c) \/ SpawnFailed(c)
    BY <1>5, <1>6, <2>1
       DEF WorkerTypeOK, OpenRefused, SpawnFailed, core, cleanup, ending
  <2>2. CASE Opened(c)
    BY <1>5, <1>6, <2>2 DEF WorkerTypeOK, Opened, Causes, Failures, Loop
  <2> QED
    BY <2>1, <2>2
<1> QED
  BY <1>3, <1>4, <1>7

\* So do the blocking calls, ...
LEMMA CallingTypes ==
    ASSUME TypeOK, Calling PROVE TypeOK'
<1> USE DEF TypeOK
<1>1. call' \in CallNames
  BY DEF CallNames, Calling, BeginCommand, TryEnqueue, NotifyWorker, EnqueueRefused,
         Receive, ProgramTypeOK
<1>2. outcome' \in Outcomes
  <2>1. CASE BeginCommand \/ TryEnqueue \/ NotifyWorker
    BY <2>1 DEF BeginCommand, TryEnqueue, NotifyWorker, ProgramTypeOK
  <2>2. CASE EnqueueRefused
    <3>1. <<IF receiver THEN "full" ELSE "lost">> \in Seq(ErrorNames)
      BY Letters DEF ErrorNames
    <3> QED
      BY <1>1, <2>2, <3>1, ReturnType DEF EnqueueRefused, ProgramTypeOK
  <2>3. CASE Receive
    <3>1. (IF response = "ok" THEN << >> ELSE <<response>>) \in Seq(ErrorNames)
      BY <2>3, Letters DEF Receive, ChannelTypeOK, ErrorNames
    <3> QED
      BY <1>1, <2>3, <3>1, ReturnType DEF Receive, ProgramTypeOK
  <2> QED
    BY <2>1, <2>2, <2>3 DEF Calling
<1>3. ProgramTypeOK'
  BY <1>1, <1>2
     DEF Calling, BeginCommand, TryEnqueue, NotifyWorker, EnqueueRefused, Receive, Return,
         ProgramTypeOK, Requests
<1>4. ChannelTypeOK'
  BY DEF Calling, BeginCommand, TryEnqueue, NotifyWorker, EnqueueRefused, Receive,
         ChannelTypeOK, commands, finish
<1>5. WorkerTypeOK'
  <2>1. left' \in [opens : Nat, commands : Nat, faults : Nat]
    BY DEF Calling, BeginCommand, TryEnqueue, NotifyWorker, EnqueueRefused, Receive,
           Spend, WorkerTypeOK
  <2> QED
    BY <2>1
       DEF Calling, BeginCommand, TryEnqueue, NotifyWorker, EnqueueRefused, Receive,
           WorkerTypeOK, core, cleanup, ending
<1> QED
  BY <1>3, <1>4, <1>5

\* ... close and drop, ...
LEMMA FinishingTypes ==
    ASSUME TypeOK, Finishing PROVE TypeOK'
<1> USE DEF TypeOK, Finishing
<1>1. call' \in CallNames
  BY DEF CallNames, BeginFinish, CloseAgain, DropClosed, RequestShutdown, WakeWorker,
         ReceiveCompletion, CompletionTimedOut, Join, ProgramTypeOK
<1>2. outcome' \in Outcomes
  <2>1. CASE CloseAgain
    BY <1>1, <2>1, ReturnType, Letters DEF CloseAgain
  <2>2. CASE Join
    BY <2>2, ErrorsType DEF Join
  <2> QED
    BY <2>1, <2>2
       DEF BeginFinish, DropClosed, RequestShutdown, WakeWorker, ReceiveCompletion,
           CompletionTimedOut, ProgramTypeOK
<1>3. ProgramTypeOK'
  BY <1>1, <1>2
     DEF BeginFinish, CloseAgain, DropClosed, RequestShutdown, WakeWorker,
         ReceiveCompletion, CompletionTimedOut, Join, Return, ProgramTypeOK
<1>4. ChannelTypeOK'
  BY DEF BeginFinish, CloseAgain, DropClosed, RequestShutdown, WakeWorker,
         ReceiveCompletion, CompletionTimedOut, Join, ChannelTypeOK, ProgramTypeOK,
         commands, finish
<1>5. WorkerTypeOK'
  BY StatusType
     DEF BeginFinish, CloseAgain, DropClosed, RequestShutdown, WakeWorker,
         ReceiveCompletion, CompletionTimedOut, Join, WorkerTypeOK, core, cleanup, ending
<1> QED
  BY <1>3, <1>4, <1>5

\* An answer keeps the types of the command channel.
LEMMA RespondType ==
    ASSUME ChannelTypeOK, NEW x \in Results \cup {"none"}, Respond(x)
    PROVE  inFlight' \in BOOLEAN /\ response' \in Results \cup {"none", "waiting", "lost"}
BY DEF ChannelTypeOK, Respond

\* ... the steps of the loop, ...
LEMMA StepTypes ==
    ASSUME TypeOK, Step PROVE TypeOK'
<1> USE DEF TypeOK
<1>1. UNCHANGED program
  BY DEF Step, TakeCommand, TakeShutdown, Continue, CoreFails, StepPanics, Deliver,
         AnswerFailure
<1>2. ProgramTypeOK'
  BY <1>1 DEF program, ProgramTypeOK
<1>3. CASE TakeCommand \/ TakeShutdown \/ StepPanics
  <2>1. ChannelTypeOK'
    BY <1>3 DEF TakeCommand, TakeShutdown, StepPanics, ChannelTypeOK, commands, finish
  <2>2. WorkerTypeOK'
    BY <1>3
       DEF TakeCommand, TakeShutdown, StepPanics, WorkerTypeOK, cleanup, ending, Fault,
           Loop, Causes
  <2> QED
    BY <1>2, <2>1, <2>2
<1>4. ASSUME NEW x \in {"none", "ok", "err"}, Continue(x) PROVE TypeOK'
  <2>1. ChannelTypeOK'
    BY <1>4 DEF Continue, ChannelTypeOK, commands, finish
  <2>2. status' \in Statuses
    <3>1. CASE UNCHANGED status
      BY <3>1 DEF WorkerTypeOK
    <3>2. CASE status' = [lifecycle |-> "Session", failure |-> FALSE]
      BY <3>2 DEF Statuses
    <3>3. CASE status' = [status EXCEPT !.lifecycle = "Open"]
      BY <3>3, StatusType DEF WorkerTypeOK
    <3> QED
      BY <1>4, <3>1, <3>2, <3>3 DEF Continue, SessionStep
  <2>3. WorkerTypeOK'
    BY <1>4, <2>2 DEF Continue, WorkerTypeOK, cleanup, ending, Loop, Results
  <2> QED
    BY <1>2, <2>1, <2>3
<1>5. ASSUME NEW x \in {"none", "ok", "err", "failed"}, CoreFails(x) PROVE TypeOK'
  <2>1. ChannelTypeOK'
    BY <1>5 DEF CoreFails, ChannelTypeOK, commands, finish
  <2>2. WorkerTypeOK'
    BY <1>5, StatusType
       DEF CoreFails, WorkerTypeOK, cleanup, ending, Fault, Results, Causes
  <2> QED
    BY <1>2, <2>1, <2>2
<1>6. CASE Deliver \/ AnswerFailure
  <2>1. ChannelTypeOK'
    BY <1>6, RespondType DEF Deliver, AnswerFailure, ChannelTypeOK, WorkerTypeOK, finish
  <2>2. WorkerTypeOK'
    BY <1>6, StatusType
       DEF Deliver, AnswerFailure, WorkerTypeOK, ChannelTypeOK, cleanup, ending, Loop,
           Results, Causes, Missing
  <2> QED
    BY <1>2, <2>1, <2>2
<1> QED
  BY <1>3, <1>4, <1>5, <1>6 DEF Step

\* ... its wakeups, ...
LEMMA WakeTypes ==
    ASSUME TypeOK, WakeByToken \/ WakeByDeadline PROVE TypeOK'
<1> USE DEF TypeOK
<1>1. ProgramTypeOK'
  BY Frames DEF WakeByToken, WakeByDeadline
<1>2. ChannelTypeOK'
  BY DEF WakeByToken, WakeByDeadline, ChannelTypeOK, commands, finish
<1>3. WorkerTypeOK'
  BY DEF WakeByToken, WakeByDeadline, WorkerTypeOK, cleanup, ending, Loop
<1> QED
  BY <1>1, <1>2, <1>3

\* ... the phases of the cleanup ...
LEMMA PhaseTypes ==
    ASSUME TypeOK, NEW p \in Phases, NEW ok \in BOOLEAN, Phase(p, ok) \/ PhasePanics(p)
    PROVE  TypeOK'
<1> USE DEF TypeOK
<1>1. ProgramTypeOK' /\ ChannelTypeOK'
  BY Frames DEF Phase, PhasePanics
<1>2. \A b \in BOOLEAN :
        Append(phases, [phase |-> p, ok |-> b]) \in Seq([phase : Phases, ok : BOOLEAN])
  <2> TAKE b \in BOOLEAN
  <2>1. [phase |-> p, ok |-> b] \in [phase : Phases, ok : BOOLEAN]
    OBVIOUS
  <2> QED
    BY <2>1, AppendProperties DEF WorkerTypeOK
<1>3. phases' \in Seq([phase : Phases, ok : BOOLEAN])
  BY <1>2 DEF Phase, PhasePanics
<1>4. AfterPhase(p) \in Phases \cup {"settle"}
  BY DEF AfterPhase, Phases
<1>5. left' \in [opens : Nat, commands : Nat, faults : Nat]
  <2>1. Fault(0) \/ Fault(1)
    BY DEF Phase, PhasePanics
  <2> QED
    BY <2>1, FaultType
<1>6. status' \in Statuses
  BY StatusType DEF Phase, PhasePanics, WorkerTypeOK
<1>7. CASE Phase(p, ok)
  BY <1>1, <1>3, <1>4, <1>5, <1>6, <1>7 DEF Phase, WorkerTypeOK, Failures, ending
<1>8. CASE PhasePanics(p)
  BY <1>1, <1>3, <1>5, <1>6, <1>8 DEF PhasePanics, WorkerTypeOK, Failures, ending
<1> QED
  BY <1>7, <1>8

\* ... and the rest of the end.
LEMMA EndingTypes ==
    ASSUME TypeOK, Ending PROVE TypeOK'
<1> USE DEF TypeOK
<1>1. ASSUME NEW b \in BOOLEAN, BeginCleanup(b) PROVE TypeOK'
  <2>1. ProgramTypeOK' /\ ChannelTypeOK'
    BY <1>1, Frames DEF BeginCleanup
  <2>2. status' \in Statuses
    BY <1>1, StatusType DEF BeginCleanup, WorkerTypeOK
  <2> QED
    BY <1>1, <2>1, <2>2 DEF BeginCleanup, WorkerTypeOK, ending, Phases
<1>2. ASSUME NEW b \in BOOLEAN, Teardown(b) PROVE TypeOK'
  <2>1. ProgramTypeOK' /\ ChannelTypeOK'
    BY <1>2, Frames DEF Teardown
  <2>2. status' \in Statuses
    BY <1>2, StatusType DEF Teardown, WorkerTypeOK
  <2>3. left' \in [opens : Nat, commands : Nat, faults : Nat]
    BY <1>2, FaultType DEF Teardown
  <2> QED
    BY <1>2, <2>1, <2>2, <2>3 DEF Teardown, WorkerTypeOK, cleanup
<1>3. ASSUME NEW p \in Phases, PhasePanics(p) \/ \E b \in BOOLEAN : Phase(p, b)
      PROVE  TypeOK'
  BY <1>3, PhaseTypes
<1>4. CASE CatchPanic
  <2>1. ProgramTypeOK' /\ ChannelTypeOK'
    BY <1>4, Frames DEF CatchPanic
  <2>2. status' \in Statuses
    BY <1>4, StatusType DEF CatchPanic, WorkerTypeOK
  <2> QED
    BY <1>4, <2>1, <2>2 DEF CatchPanic, WorkerTypeOK, cleanup, Causes
<1>5. CASE Settle
  <2>1. ProgramTypeOK'
    BY <1>5, Frames DEF Settle
  <2>2. ChannelTypeOK'
    BY <1>5, RespondType DEF Settle, ChannelTypeOK, finish, Results
  <2>3. status' \in Statuses
    BY <1>5, StatusType DEF Settle, WorkerTypeOK
  <2> QED
    BY <1>5, <2>1, <2>2, <2>3 DEF Settle, WorkerTypeOK, cleanup, ending
<1>6. CASE Publish \/ Release
  <2>1. ProgramTypeOK'
    BY <1>6, Frames DEF Publish, Release
  <2>2. ChannelTypeOK'
    <3>1. CASE Publish
      <4>1. completion' \in [cause : Causes, failure : Failures, undelivered : BOOLEAN]
        BY <3>1 DEF Publish, ChannelTypeOK, WorkerTypeOK
      <4> QED
        BY <3>1, <4>1 DEF Publish, ChannelTypeOK, commands
    <3>2. CASE Release
      BY <3>2 DEF Release, ChannelTypeOK, finish
    <3> QED
      BY <1>6, <3>1, <3>2
  <2>3. WorkerTypeOK'
    BY <1>6 DEF Publish, Release, WorkerTypeOK, cleanup, ending
  <2> QED
    BY <2>1, <2>2, <2>3
<1> QED
  BY <1>1, <1>2, <1>3, <1>4, <1>5, <1>6 DEF Ending

\* Every step keeps the types.
LEMMA TypeSteps ==
    ASSUME TypeOK, [Next]_vars PROVE TypeOK'
<1>1. CASE Ended \/ UNCHANGED vars
  BY <1>1
     DEF Ended, vars, TypeOK, ProgramTypeOK, ChannelTypeOK, WorkerTypeOK, program,
         commands, finish, core, cleanup, ending
<1> QED
  BY <1>1, OpeningTypes, CallingTypes, FinishingTypes, StepTypes, WakeTypes, EndingTypes
     DEF Next, Opening
-----------------------------------------------------------------------------
(* Every step keeps the invariant *)

\* A phase goes to the end of the list, and the next phase has a higher rank.
LEMMA PhaseOrder ==
    ASSUME TypeOK, CleanupInv, NEW p \in Phases,
           PhasePanics(p) \/ \E b \in BOOLEAN : Phase(p, b)
    PROVE  CleanupInv'
<1>1. PICK b \in BOOLEAN : phases' = Append(phases, [phase |-> p, ok |-> b])
  BY DEF Phase, PhasePanics
<1>2. phases \in Seq([phase : Phases, ok : BOOLEAN])
  BY DEF TypeOK, WorkerTypeOK
<1>3. /\ Len(phases') = Len(phases) + 1
      /\ \A i \in 1..Len(phases) : phases'[i] = phases[i]
      /\ phases'[Len(phases) + 1] = [phase |-> p, ok |-> b]
      /\ Len(phases) \in Nat
  BY <1>1, <1>2
<1>4. worker = p /\ closing /\ UNCHANGED closing /\ worker \notin Loop
  BY DEF Phase, PhasePanics, CleanupInv, cleanup, Loop, Phases
<1>5. \A i \in 1..Len(phases) : phases[i].phase \in Phases
  <2>1. \A i \in 1..Len(phases) : phases[i] \in [phase : Phases, ok : BOOLEAN]
    BY <1>2, ElementOfSeq
  <2> QED
    BY <2>1
<1>6. Rank["neutral"] = 1 /\ Rank["drain"] = 2 /\ Rank["disconnect"] = 3 /\ Rank["close"] = 4
  BY DEF Rank, Phases
<1>7. worker' \in Phases => Rank[p] < Rank[worker']
  <2>1. CASE PhasePanics(p)
    BY <2>1 DEF PhasePanics, Phases
  <2>2. CASE \E b0 \in BOOLEAN : Phase(p, b0)
    <3>1. worker' = AfterPhase(p)
      BY <2>2 DEF Phase
    <3>2. CASE p = "neutral"
      BY <1>6, <3>1, <3>2 DEF AfterPhase
    <3>3. CASE p = "drain"
      BY <1>6, <3>1, <3>3 DEF AfterPhase
    <3>4. CASE p = "disconnect"
      BY <1>6, <3>1, <3>4 DEF AfterPhase
    <3>5. CASE p = "close"
      BY <3>1, <3>5 DEF AfterPhase, Phases
    <3> QED
      BY <3>2, <3>3, <3>4, <3>5 DEF Phases
  <2> QED
    BY <2>1, <2>2
<1>8. worker' \notin Loop
  BY DEF Phase, PhasePanics, AfterPhase, Loop, Phases
<1>9. \A i \in 1..Len(phases) : Rank[phases[i].phase] < Rank[p]
  BY <1>4 DEF CleanupInv
<1>10. ASSUME NEW i \in 1..Len(phases'), worker' \in Phases
       PROVE  Rank[phases'[i].phase] < Rank[worker']
  <2>1. CASE i = Len(phases) + 1
    BY <1>3, <1>7, <1>10, <2>1
  <2>2. CASE i \in 1..Len(phases)
    <3>1. Rank[phases[i].phase] \in Nat /\ Rank[p] \in Nat /\ Rank[worker'] \in Nat
      BY <1>5, <1>6, <1>10, <2>2 DEF Phases
    <3> QED
      BY <1>3, <1>7, <1>9, <1>10, <2>2, <3>1
  <2> QED
    BY <1>3, <2>1, <2>2
<1>11. ASSUME NEW i \in 1..Len(phases'), NEW j \in 1..Len(phases'), i < j
       PROVE  Rank[phases'[i].phase] < Rank[phases'[j].phase]
  <2>1. i \in 1..Len(phases)
    BY <1>3, <1>11
  <2>2. CASE j = Len(phases) + 1
    BY <1>3, <1>9, <2>1, <2>2
  <2>3. CASE j \in 1..Len(phases)
    BY <1>3, <1>11, <2>1, <2>3 DEF CleanupInv
  <2> QED
    BY <1>3, <2>2, <2>3
<1> QED
  BY <1>1, <1>2, <1>4, <1>8, <1>10, <1>11 DEF CleanupInv

\* Opening gives the controller a worker, and only the join or the timeout of a
\* drop takes it away.
LEMMA OwnerSteps ==
    ASSUME TypeOK, IInv, [Next]_vars PROVE OwnerInv'
<1> USE DEF IInv, OwnerInv, ChannelInv, Loop, Phases, program, commands, finish, core,
        cleanup, ending
<1>1. runtime \in BOOLEAN /\ listening \in BOOLEAN /\ receiver \in BOOLEAN
  BY DEF TypeOK, ProgramTypeOK, ChannelTypeOK
<1>2. CASE Opening
  <2>1. CASE \E c \in {"open", "create"} : OpenRefused(c)
    BY <2>1, <1>1 DEF OpenRefused, MayOpen
  <2>2. CASE \E c \in {"open", "create"} : SpawnFailed(c)
    BY <2>2, <1>1 DEF SpawnFailed, MayOpen
  <2>3. CASE \E c \in {"open", "create"} : Opened(c)
    BY <2>3, <1>1 DEF Opened, MayOpen, Return
  <2> QED
    BY <1>2, <2>1, <2>2, <2>3 DEF Opening
<1>3. CASE Calling
  <2>1. CASE BeginCommand
    BY <2>1, <1>1 DEF BeginCommand
  <2>2. CASE TryEnqueue
    BY <2>2, <1>1 DEF TryEnqueue
  <2>3. CASE EnqueueRefused
    BY <2>3, <1>1 DEF EnqueueRefused, Return
  <2>4. CASE NotifyWorker
    BY <2>4, <1>1 DEF NotifyWorker
  <2>5. CASE Receive
    BY <2>5, <1>1 DEF Receive, Return
  <2> QED
    BY <1>3, <2>1, <2>2, <2>3, <2>4, <2>5 DEF Calling
<1>4. CASE Finishing
  <2>1. CASE \E c \in {"close", "drop"}, m \in Requests : BeginFinish(c, m)
    BY <2>1, <1>1 DEF BeginFinish
  <2>2. CASE CloseAgain
    BY <2>2, <1>1 DEF CloseAgain, Return
  <2>3. CASE DropClosed
    BY <2>3, <1>1 DEF DropClosed
  <2>4. CASE RequestShutdown
    BY <2>4, <1>1 DEF RequestShutdown
  <2>5. CASE WakeWorker
    BY <2>5, <1>1 DEF WakeWorker
  <2>6. CASE ReceiveCompletion
    BY <2>6, <1>1 DEF ReceiveCompletion
  <2>7. CASE CompletionTimedOut
    BY <2>7, <1>1 DEF CompletionTimedOut
  <2>8. CASE Join
    BY <2>8, <1>1 DEF Join
  <2> QED
    BY <1>4, <2>1, <2>2, <2>3, <2>4, <2>5, <2>6, <2>7, <2>8 DEF Finishing
<1>5. CASE Step
  BY <1>5, <1>1
     DEF Step, TakeCommand, TakeShutdown, Continue, CoreFails, StepPanics, Deliver,
         Respond, Missing, AnswerFailure
<1>6. CASE Ending
  <2>1. CASE \E b \in BOOLEAN : BeginCleanup(b)
    BY <2>1, <1>1 DEF BeginCleanup
  <2>2. CASE \E p \in Phases : \E b \in BOOLEAN : Phase(p, b)
    BY <2>2, <1>1 DEF Phase, AfterPhase
  <2>3. CASE \E p \in Phases : PhasePanics(p)
    BY <2>3, <1>1 DEF PhasePanics
  <2>4. CASE CatchPanic
    BY <2>4, <1>1 DEF CatchPanic
  <2>5. CASE Settle
    BY <2>5, <1>1 DEF Settle, Respond
  <2>6. CASE \E b \in BOOLEAN : Teardown(b)
    BY <2>6, <1>1 DEF Teardown
  <2>7. CASE Publish
    BY <2>7, <1>1 DEF Publish
  <2>8. CASE Release
    BY <2>8, <1>1 DEF Release
  <2> QED
    BY <1>6, <2>1, <2>2, <2>3, <2>4, <2>5, <2>6, <2>7, <2>8 DEF Ending
<1>7. CASE WakeByToken \/ WakeByDeadline
  BY <1>7, <1>1 DEF WakeByToken, WakeByDeadline
<1>8. CASE Ended \/ UNCHANGED vars
  BY <1>8, <1>1 DEF Ended, vars
<1> QED
  BY <1>2, <1>3, <1>4, <1>5, <1>6, <1>7, <1>8 DEF Next

\* The caller waits from try_enqueue until the response; its command is taken,
\* answered or dropped by the worker.
LEMMA ChannelSteps ==
    ASSUME TypeOK, IInv, [Next]_vars PROVE ChannelInv'
<1> USE DEF IInv, OwnerInv, ChannelInv, LatchInv, Loop, Phases, program, commands,
        finish, core, cleanup, ending
<1>1. runtime \in BOOLEAN /\ listening \in BOOLEAN /\ receiver \in BOOLEAN
  BY DEF TypeOK, ProgramTypeOK, ChannelTypeOK
<1>2. progress \in {"none", "ok", "err", "failed"} /\ inFlight \in BOOLEAN
  BY DEF TypeOK, ChannelTypeOK, WorkerTypeOK, Results
<1>3. CASE Opening
  <2>1. CASE \E c \in {"open", "create"} : OpenRefused(c)
    BY <2>1, <1>1, <1>2 DEF OpenRefused, MayOpen
  <2>2. CASE \E c \in {"open", "create"} : SpawnFailed(c)
    BY <2>2, <1>1, <1>2 DEF SpawnFailed, MayOpen
  <2>3. CASE \E c \in {"open", "create"} : Opened(c)
    BY <2>3, <1>1, <1>2 DEF Opened, MayOpen, Return
  <2> QED
    BY <1>3, <2>1, <2>2, <2>3 DEF Opening
<1>4. CASE Calling
  BY <1>4, <1>1, <1>2
     DEF Calling, BeginCommand, TryEnqueue, EnqueueRefused, Return, NotifyWorker,
         Receive
<1>5. CASE Finishing
  <2>1. CASE \E c \in {"close", "drop"}, m \in Requests : BeginFinish(c, m)
    BY <2>1, <1>1, <1>2 DEF BeginFinish
  <2>2. CASE CloseAgain
    BY <2>2, <1>1, <1>2 DEF CloseAgain, Return
  <2>3. CASE DropClosed
    BY <2>3, <1>1, <1>2 DEF DropClosed
  <2>4. CASE RequestShutdown
    BY <2>4, <1>1, <1>2 DEF RequestShutdown
  <2>5. CASE WakeWorker
    BY <2>5, <1>1, <1>2 DEF WakeWorker
  <2>6. CASE ReceiveCompletion
    BY <2>6, <1>1, <1>2 DEF ReceiveCompletion
  <2>7. CASE CompletionTimedOut
    BY <2>7, <1>1, <1>2 DEF CompletionTimedOut
  <2>8. CASE Join
    BY <2>8, <1>1, <1>2 DEF Join
  <2> QED
    BY <1>5, <2>1, <2>2, <2>3, <2>4, <2>5, <2>6, <2>7, <2>8 DEF Finishing
<1>6. CASE Step
  <2>1. CASE TakeCommand
    BY <2>1, <1>1, <1>2 DEF TakeCommand
  <2>2. CASE TakeShutdown
    BY <2>2, <1>1, <1>2 DEF TakeShutdown
  <2>3. CASE \E x \in {"none", "ok", "err"} : Continue(x)
    BY <2>3, <1>1, <1>2 DEF Continue
  <2>4. CASE \E x \in {"none", "ok", "err", "failed"} : CoreFails(x)
    BY <2>4, <1>1, <1>2 DEF CoreFails
  <2>5. CASE StepPanics
    BY <2>5, <1>1, <1>2 DEF StepPanics
  <2>6. CASE Deliver
    BY <2>6, <1>1, <1>2 DEF Deliver, Respond, Missing
  <2>7. CASE AnswerFailure
    BY <2>7, <1>1, <1>2 DEF AnswerFailure, Respond, Missing
  <2> QED
    BY <1>6, <2>1, <2>2, <2>3, <2>4, <2>5, <2>6, <2>7 DEF Step
<1>7. CASE Ending
  <2>1. CASE \E b \in BOOLEAN : BeginCleanup(b)
    BY <2>1, <1>1, <1>2 DEF BeginCleanup
  <2>2. CASE \E p \in Phases : \E b \in BOOLEAN : Phase(p, b)
    BY <2>2, <1>1, <1>2 DEF Phase, AfterPhase
  <2>3. CASE \E p \in Phases : PhasePanics(p)
    BY <2>3, <1>1, <1>2 DEF PhasePanics
  <2>4. CASE CatchPanic
    BY <2>4, <1>1, <1>2 DEF CatchPanic
  <2>5. CASE Settle
    BY <2>5, <1>1, <1>2 DEF Settle, Respond
  <2>6. CASE \E b \in BOOLEAN : Teardown(b)
    BY <2>6, <1>1, <1>2 DEF Teardown
  <2>7. CASE Publish
    BY <2>7, <1>1, <1>2 DEF Publish
  <2>8. CASE Release
    BY <2>8, <1>1, <1>2 DEF Release
  <2> QED
    BY <1>7, <2>1, <2>2, <2>3, <2>4, <2>5, <2>6, <2>7, <2>8 DEF Ending
<1>8. CASE WakeByToken \/ WakeByDeadline
  BY <1>8, <1>1, <1>2 DEF WakeByToken, WakeByDeadline
<1>9. CASE Ended \/ UNCHANGED vars
  BY <1>9, <1>1, <1>2 DEF Ended, vars
<1> QED
  BY <1>3, <1>4, <1>5, <1>6, <1>7, <1>8, <1>9 DEF Next

\* The latch leaves "running" only by RequestShutdown, and the worker takes it
\* from there once.
LEMMA LatchSteps ==
    ASSUME TypeOK, IInv, [Next]_vars PROVE LatchInv'
<1> USE DEF IInv, OwnerInv, ChannelInv, LatchInv, Orderly, Requests, program, commands,
        finish, core, cleanup, ending
<1>1. runtime \in BOOLEAN /\ listening \in BOOLEAN /\ receiver \in BOOLEAN
  BY DEF TypeOK, ProgramTypeOK, ChannelTypeOK
<1>2. mode \in Requests
  BY DEF TypeOK, ProgramTypeOK
<1>3. CASE Opening
  <2>1. CASE \E c \in {"open", "create"} : OpenRefused(c)
    BY <2>1, <1>1, <1>2 DEF OpenRefused, MayOpen
  <2>2. CASE \E c \in {"open", "create"} : SpawnFailed(c)
    BY <2>2, <1>1, <1>2 DEF SpawnFailed, MayOpen
  <2>3. CASE \E c \in {"open", "create"} : Opened(c)
    BY <2>3, <1>1, <1>2 DEF Opened, MayOpen, Return
  <2> QED
    BY <1>3, <2>1, <2>2, <2>3 DEF Opening
<1>4. CASE Calling
  BY <1>4, <1>1, <1>2
     DEF Calling, BeginCommand, TryEnqueue, EnqueueRefused, Return, NotifyWorker,
         Receive
<1>5. CASE Finishing
  <2>1. CASE \E c \in {"close", "drop"}, m \in Requests : BeginFinish(c, m)
    BY <2>1, <1>1, <1>2 DEF BeginFinish
  <2>2. CASE CloseAgain
    BY <2>2, <1>1, <1>2 DEF CloseAgain, Return
  <2>3. CASE DropClosed
    BY <2>3, <1>1, <1>2 DEF DropClosed
  <2>4. CASE RequestShutdown
    BY <2>4, <1>1, <1>2 DEF RequestShutdown
  <2>5. CASE WakeWorker
    BY <2>5, <1>1, <1>2 DEF WakeWorker
  <2>6. CASE ReceiveCompletion
    BY <2>6, <1>1, <1>2 DEF ReceiveCompletion
  <2>7. CASE CompletionTimedOut
    BY <2>7, <1>1, <1>2 DEF CompletionTimedOut
  <2>8. CASE Join
    BY <2>8, <1>1, <1>2 DEF Join
  <2> QED
    BY <1>5, <2>1, <2>2, <2>3, <2>4, <2>5, <2>6, <2>7, <2>8 DEF Finishing
<1>6. CASE Step
  BY <1>6, <1>1, <1>2
     DEF Step, TakeCommand, TakeShutdown, Continue, CoreFails, StepPanics, Deliver,
         Respond, Missing, AnswerFailure
<1>7. CASE Ending
  <2>1. CASE \E b \in BOOLEAN : BeginCleanup(b)
    BY <2>1, <1>1, <1>2 DEF BeginCleanup
  <2>2. CASE \E p \in Phases : \E b \in BOOLEAN : Phase(p, b)
    BY <2>2, <1>1, <1>2 DEF Phase, AfterPhase
  <2>3. CASE \E p \in Phases : PhasePanics(p)
    BY <2>3, <1>1, <1>2 DEF PhasePanics
  <2>4. CASE CatchPanic
    BY <2>4, <1>1, <1>2 DEF CatchPanic
  <2>5. CASE Settle
    BY <2>5, <1>1, <1>2 DEF Settle, Respond
  <2>6. CASE \E b \in BOOLEAN : Teardown(b)
    BY <2>6, <1>1, <1>2 DEF Teardown
  <2>7. CASE Publish
    BY <2>7, <1>1, <1>2 DEF Publish
  <2>8. CASE Release
    BY <2>8, <1>1, <1>2 DEF Release
  <2> QED
    BY <1>7, <2>1, <2>2, <2>3, <2>4, <2>5, <2>6, <2>7, <2>8 DEF Ending
<1>8. CASE WakeByToken \/ WakeByDeadline
  BY <1>8, <1>1, <1>2 DEF WakeByToken, WakeByDeadline
<1>9. CASE Ended \/ UNCHANGED vars
  BY <1>9, <1>1, <1>2 DEF Ended, vars
<1> QED
  BY <1>3, <1>4, <1>5, <1>6, <1>7, <1>8, <1>9 DEF Next

\* A caller goes to the completion without a request only on "failed" or "lost",
\* which the worker answers when its loop is over.
LEMMA EndSteps ==
    ASSUME TypeOK, IInv, [Next]_vars PROVE EndInv'
<1> USE DEF IInv, OwnerInv, ChannelInv, LatchInv, EndInv, TerminalFinishIsTerminal,
        Past, Loop, Phases, program, commands, finish, core, cleanup, ending
<1>1. runtime \in BOOLEAN /\ listening \in BOOLEAN /\ receiver \in BOOLEAN
  BY DEF TypeOK, ProgramTypeOK, ChannelTypeOK
<1>2. response \in {"none", "waiting", "lost", "ok", "err", "failed"}
  BY DEF TypeOK, ChannelTypeOK, Results
<1>3. CASE Opening
  <2>1. CASE \E c \in {"open", "create"} : OpenRefused(c)
    BY <2>1, <1>1, <1>2 DEF OpenRefused, MayOpen
  <2>2. CASE \E c \in {"open", "create"} : SpawnFailed(c)
    BY <2>2, <1>1, <1>2 DEF SpawnFailed, MayOpen
  <2>3. CASE \E c \in {"open", "create"} : Opened(c)
    BY <2>3, <1>1, <1>2 DEF Opened, MayOpen, Return
  <2> QED
    BY <1>3, <2>1, <2>2, <2>3 DEF Opening
<1>4. CASE Calling
  <2>1. CASE BeginCommand
    BY <2>1, <1>1, <1>2 DEF BeginCommand
  <2>2. CASE TryEnqueue
    BY <2>2, <1>1, <1>2 DEF TryEnqueue
  <2>3. CASE EnqueueRefused
    BY <2>3, <1>1, <1>2 DEF EnqueueRefused, Return
  <2>4. CASE NotifyWorker
    BY <2>4, <1>1, <1>2 DEF NotifyWorker
  <2>5. CASE Receive
    BY <2>5, <1>1, <1>2 DEF Receive, Return
  <2> QED
    BY <1>4, <2>1, <2>2, <2>3, <2>4, <2>5 DEF Calling
<1>5. CASE Finishing
  BY <1>5, <1>1, <1>2
     DEF Finishing, BeginFinish, CloseAgain, Return, DropClosed, RequestShutdown,
         WakeWorker, ReceiveCompletion, CompletionTimedOut, Join
<1>6. CASE Step
  BY <1>6, <1>1, <1>2
     DEF Step, TakeCommand, TakeShutdown, Continue, CoreFails, StepPanics, Deliver,
         Respond, Missing, AnswerFailure
<1>7. CASE Ending
  <2>1. CASE \E b \in BOOLEAN : BeginCleanup(b)
    BY <2>1, <1>1, <1>2 DEF BeginCleanup
  <2>2. CASE \E p \in Phases : \E b \in BOOLEAN : Phase(p, b)
    BY <2>2, <1>1, <1>2 DEF Phase, AfterPhase
  <2>3. CASE \E p \in Phases : PhasePanics(p)
    BY <2>3, <1>1, <1>2 DEF PhasePanics
  <2>4. CASE CatchPanic
    BY <2>4, <1>1, <1>2 DEF CatchPanic
  <2>5. CASE Settle
    BY <2>5, <1>1, <1>2 DEF Settle, Respond
  <2>6. CASE \E b \in BOOLEAN : Teardown(b)
    BY <2>6, <1>1, <1>2 DEF Teardown
  <2>7. CASE Publish
    BY <2>7, <1>1, <1>2 DEF Publish
  <2>8. CASE Release
    BY <2>8, <1>1, <1>2 DEF Release
  <2> QED
    BY <1>7, <2>1, <2>2, <2>3, <2>4, <2>5, <2>6, <2>7, <2>8 DEF Ending
<1>8. CASE WakeByToken \/ WakeByDeadline
  BY <1>8, <1>1, <1>2 DEF WakeByToken, WakeByDeadline
<1>9. CASE Ended \/ UNCHANGED vars
  BY <1>9, <1>1, <1>2 DEF Ended, vars
<1> QED
  BY <1>3, <1>4, <1>5, <1>6, <1>7, <1>8, <1>9 DEF Next

\* Publish sends the outcome, and nothing changes it afterwards.
LEMMA CompletionSteps ==
    ASSUME TypeOK, IInv, [Next]_vars PROVE CompletionInv'
<1> USE DEF IInv, OwnerInv, ChannelInv, EndInv, Past, CompletionInv, NoCompletion, Loop,
        Phases, program, commands, finish, core, cleanup, ending
<1>1. runtime \in BOOLEAN /\ listening \in BOOLEAN /\ receiver \in BOOLEAN
  BY DEF TypeOK, ProgramTypeOK, ChannelTypeOK
<1>2. CASE Opening
  <2>1. CASE \E c \in {"open", "create"} : OpenRefused(c)
    BY <2>1, <1>1 DEF OpenRefused, MayOpen
  <2>2. CASE \E c \in {"open", "create"} : SpawnFailed(c)
    BY <2>2, <1>1 DEF SpawnFailed, MayOpen
  <2>3. CASE \E c \in {"open", "create"} : Opened(c)
    BY <2>3, <1>1 DEF Opened, MayOpen, Return
  <2> QED
    BY <1>2, <2>1, <2>2, <2>3 DEF Opening
<1>3. CASE Calling
  BY <1>3, <1>1
     DEF Calling, BeginCommand, TryEnqueue, EnqueueRefused, Return, NotifyWorker,
         Receive
<1>4. CASE Finishing
  <2>1. CASE \E c \in {"close", "drop"}, m \in Requests : BeginFinish(c, m)
    BY <2>1, <1>1 DEF BeginFinish
  <2>2. CASE CloseAgain
    BY <2>2, <1>1 DEF CloseAgain, Return
  <2>3. CASE DropClosed
    BY <2>3, <1>1 DEF DropClosed
  <2>4. CASE RequestShutdown
    BY <2>4, <1>1 DEF RequestShutdown
  <2>5. CASE WakeWorker
    BY <2>5, <1>1 DEF WakeWorker
  <2>6. CASE ReceiveCompletion
    BY <2>6, <1>1 DEF ReceiveCompletion
  <2>7. CASE CompletionTimedOut
    BY <2>7, <1>1 DEF CompletionTimedOut
  <2>8. CASE Join
    BY <2>8, <1>1 DEF Join
  <2> QED
    BY <1>4, <2>1, <2>2, <2>3, <2>4, <2>5, <2>6, <2>7, <2>8 DEF Finishing
<1>5. CASE Step
  BY <1>5, <1>1
     DEF Step, TakeCommand, TakeShutdown, Continue, CoreFails, StepPanics, Deliver,
         Respond, Missing, AnswerFailure
<1>6. CASE Ending
  <2>1. CASE \E b \in BOOLEAN : BeginCleanup(b)
    BY <2>1, <1>1 DEF BeginCleanup
  <2>2. CASE \E p \in Phases : \E b \in BOOLEAN : Phase(p, b)
    BY <2>2, <1>1 DEF Phase, AfterPhase
  <2>3. CASE \E p \in Phases : PhasePanics(p)
    BY <2>3, <1>1 DEF PhasePanics
  <2>4. CASE CatchPanic
    BY <2>4, <1>1 DEF CatchPanic
  <2>5. CASE Settle
    BY <2>5, <1>1 DEF Settle, Respond
  <2>6. CASE \E b \in BOOLEAN : Teardown(b)
    BY <2>6, <1>1 DEF Teardown
  <2>7. CASE Publish
    BY <2>7, <1>1 DEF Publish
  <2>8. CASE Release
    BY <2>8, <1>1 DEF Release
  <2> QED
    BY <1>6, <2>1, <2>2, <2>3, <2>4, <2>5, <2>6, <2>7, <2>8 DEF Ending
<1>7. CASE WakeByToken \/ WakeByDeadline
  BY <1>7, <1>1 DEF WakeByToken, WakeByDeadline
<1>8. CASE Ended \/ UNCHANGED vars
  BY <1>8, <1>1 DEF Ended, vars
<1> QED
  BY <1>2, <1>3, <1>4, <1>5, <1>6, <1>7, <1>8 DEF Next

\* CatchPanic and Teardown record the failure of a panic.
LEMMA PanicSteps ==
    ASSUME TypeOK, IInv, [Next]_vars PROVE PanicInv'
<1> USE DEF IInv, OwnerInv, ChannelInv, PanicInv, Past, FailureIsRecorded, Orderly,
        Phases, Loop, program, commands, finish, core, cleanup, ending
<1>1. status \in Statuses
  BY DEF TypeOK, WorkerTypeOK
<1>2. CASE Opening
  <2>1. CASE \E c \in {"open", "create"} : OpenRefused(c)
    BY <2>1, <1>1 DEF OpenRefused, MayOpen
  <2>2. CASE \E c \in {"open", "create"} : SpawnFailed(c)
    <3>1. status'.failure = TRUE
      BY <2>2, <1>1, StatusType DEF SpawnFailed
    <3> QED
      BY <2>2, <3>1 DEF SpawnFailed, MayOpen
  <2>3. CASE \E c \in {"open", "create"} : Opened(c)
    BY <2>3, <1>1 DEF Opened, MayOpen, Return
  <2> QED
    BY <1>2, <2>1, <2>2, <2>3 DEF Opening
<1>3. CASE Calling
  BY <1>3, <1>1
     DEF Calling, BeginCommand, TryEnqueue, EnqueueRefused, Return, NotifyWorker,
         Receive
<1>4. CASE Finishing
  <2>1. CASE \E c \in {"close", "drop"}, m \in Requests : BeginFinish(c, m)
    BY <2>1, <1>1 DEF BeginFinish
  <2>2. CASE CloseAgain
    BY <2>2, <1>1, StatusType DEF CloseAgain, Return
  <2>3. CASE DropClosed
    BY <2>3, <1>1 DEF DropClosed
  <2>4. CASE RequestShutdown
    BY <2>4, <1>1 DEF RequestShutdown
  <2>5. CASE WakeWorker
    BY <2>5, <1>1 DEF WakeWorker
  <2>6. CASE ReceiveCompletion
    BY <2>6, <1>1 DEF ReceiveCompletion
  <2>7. CASE CompletionTimedOut
    BY <2>7, <1>1 DEF CompletionTimedOut
  <2>8. CASE Join
    BY <2>8, <1>1 DEF Join
  <2> QED
    BY <1>4, <2>1, <2>2, <2>3, <2>4, <2>5, <2>6, <2>7, <2>8 DEF Finishing
<1>5. CASE Step
  <2>1. CASE TakeCommand
    BY <2>1, <1>1 DEF TakeCommand
  <2>2. CASE TakeShutdown
    BY <2>2, <1>1 DEF TakeShutdown
  <2>3. CASE \E x \in {"none", "ok", "err"} : Continue(x)
    BY <2>3, <1>1 DEF Continue
  <2>4. CASE \E x \in {"none", "ok", "err", "failed"} : CoreFails(x)
    BY <2>4, <1>1 DEF CoreFails
  <2>5. CASE StepPanics
    BY <2>5, <1>1 DEF StepPanics
  <2>6. CASE Deliver
    BY <2>6, <1>1 DEF Deliver, Respond, Missing
  <2>7. CASE AnswerFailure
    BY <2>7, <1>1 DEF AnswerFailure, Respond, Missing
  <2> QED
    BY <1>5, <2>1, <2>2, <2>3, <2>4, <2>5, <2>6, <2>7 DEF Step
<1>6. CASE Ending
  <2>1. CASE \E b \in BOOLEAN : BeginCleanup(b)
    BY <2>1, <1>1 DEF BeginCleanup
  <2>2. CASE \E p \in Phases : \E b \in BOOLEAN : Phase(p, b)
    BY <2>2, <1>1 DEF Phase, AfterPhase
  <2>3. CASE \E p \in Phases : PhasePanics(p)
    BY <2>3, <1>1 DEF PhasePanics
  <2>4. CASE CatchPanic
    BY <2>4, <1>1 DEF CatchPanic
  <2>5. CASE Settle
    BY <2>5, <1>1 DEF Settle, Respond
  <2>6. CASE \E b \in BOOLEAN : Teardown(b)
    BY <2>6, <1>1, StatusType DEF Teardown
  <2>7. CASE Publish
    BY <2>7, <1>1 DEF Publish
  <2>8. CASE Release
    BY <2>8, <1>1 DEF Release
  <2> QED
    BY <1>6, <2>1, <2>2, <2>3, <2>4, <2>5, <2>6, <2>7, <2>8 DEF Ending
<1>7. CASE WakeByToken \/ WakeByDeadline
  BY <1>7, <1>1 DEF WakeByToken, WakeByDeadline
<1>8. CASE Ended \/ UNCHANGED vars
  BY <1>8, <1>1 DEF Ended, vars
<1> QED
  BY <1>2, <1>3, <1>4, <1>5, <1>6, <1>7, <1>8 DEF Next

\* The cleanup begins once and its phases run in order.
LEMMA CleanupSteps ==
    ASSUME TypeOK, IInv, [Next]_vars PROVE CleanupInv'
<1> USE DEF IInv, OwnerInv, CleanupInv, Loop, Phases, program, commands, finish, core,
        cleanup, ending
<1>1. CASE Opening
  <2>1. CASE \E c \in {"open", "create"} : OpenRefused(c) \/ SpawnFailed(c)
    BY <2>1 DEF OpenRefused, SpawnFailed
  <2>2. CASE \E c \in {"open", "create"} : Opened(c)
    <3>1. phases' = << >> /\ worker' = "take" /\ closing' = FALSE
      BY <2>2 DEF Opened
    <3>2. \A i \in 1..Len(phases') : FALSE
      BY <3>1
    <3> QED
      BY <3>1, <3>2
  <2> QED
    BY <1>1, <2>1, <2>2 DEF Opening
<1>2. CASE Calling
  BY <1>2
     DEF Calling, BeginCommand, TryEnqueue, EnqueueRefused, Return, NotifyWorker,
         Receive
<1>3. CASE Finishing
  <2>1. UNCHANGED <<closing, worker, phases>>
    BY <1>3
       DEF Finishing, BeginFinish, CloseAgain, DropClosed, RequestShutdown, WakeWorker,
           ReceiveCompletion, CompletionTimedOut, Join
  <2> QED
    BY <2>1
<1>4. CASE Step
  BY <1>4
     DEF Step, TakeCommand, TakeShutdown, Continue, CoreFails, StepPanics, Deliver,
         Respond, Missing, AnswerFailure
<1>5. CASE Ending
  <2>1. CASE \E b \in BOOLEAN : BeginCleanup(b)
    BY <2>1 DEF BeginCleanup
  <2>2. CASE \E p \in Phases : \E b \in BOOLEAN : Phase(p, b)
    <3>1. PICK p \in Phases : \E b \in BOOLEAN : Phase(p, b)
      BY <2>2
    <3> QED
      BY <3>1, PhaseOrder
  <2>3. CASE \E p \in Phases : PhasePanics(p)
    <3>1. PICK p \in Phases : PhasePanics(p)
      BY <2>3 DEF Phases
    <3> QED
      BY <3>1, PhaseOrder
  <2>4. CASE CatchPanic
    BY <2>4 DEF CatchPanic
  <2>5. CASE Settle
    BY <2>5 DEF Settle, Respond
  <2>6. CASE \E b \in BOOLEAN : Teardown(b)
    BY <2>6 DEF Teardown
  <2>7. CASE Publish
    BY <2>7 DEF Publish
  <2>8. CASE Release
    BY <2>8 DEF Release
  <2> QED
    BY <1>5, <2>1, <2>2, <2>3, <2>4, <2>5, <2>6, <2>7, <2>8 DEF Ending
<1>6. CASE WakeByToken \/ WakeByDeadline
  BY <1>6 DEF WakeByToken, WakeByDeadline
<1>7. CASE Ended \/ UNCHANGED vars
  BY <1>7 DEF Ended, vars
<1> QED
  BY <1>1, <1>2, <1>3, <1>4, <1>5, <1>6, <1>7 DEF Next

\* A failing phase sets the first failure, and Join reports it.
LEMMA OutcomeSteps ==
    ASSUME TypeOK, IInv, [Next]_vars PROVE OutcomeInv'
<1> USE DEF IInv, OwnerInv, OutcomeInv, CloseTellsAll, AllWell, Orderly, program,
        commands, finish, core, cleanup, ending
<1>1. CASE Opening
  <2>1. CASE \E c \in {"open", "create"} : OpenRefused(c)
    BY <2>1 DEF OpenRefused, MayOpen
  <2>2. CASE \E c \in {"open", "create"} : SpawnFailed(c)
    BY <2>2 DEF SpawnFailed, MayOpen
  <2>3. CASE \E c \in {"open", "create"} : Opened(c)
    BY <2>3 DEF Opened, MayOpen, Return
  <2> QED
    BY <1>1, <2>1, <2>2, <2>3 DEF Opening
<1>2. CASE Calling
  <2>1. CASE BeginCommand
    BY <2>1 DEF BeginCommand
  <2>2. CASE TryEnqueue
    BY <2>2 DEF TryEnqueue
  <2>3. CASE EnqueueRefused
    BY <2>3 DEF EnqueueRefused, Return
  <2>4. CASE NotifyWorker
    BY <2>4 DEF NotifyWorker
  <2>5. CASE Receive
    BY <2>5 DEF Receive, Return
  <2> QED
    BY <1>2, <2>1, <2>2, <2>3, <2>4, <2>5 DEF Calling
<1>3. CASE Finishing
  <2>1. CASE \E c \in {"close", "drop"}, m \in Requests : BeginFinish(c, m)
    BY <2>1 DEF BeginFinish
  <2>2. CASE CloseAgain
    BY <2>2 DEF CloseAgain, Return
  <2>3. CASE DropClosed
    BY <2>3 DEF DropClosed
  <2>4. CASE RequestShutdown
    BY <2>4 DEF RequestShutdown
  <2>5. CASE WakeWorker
    BY <2>5 DEF WakeWorker
  <2>6. CASE ReceiveCompletion
    BY <2>6 DEF ReceiveCompletion
  <2>7. CASE CompletionTimedOut
    BY <2>7 DEF CompletionTimedOut
  <2>8. CASE Join
    <3>1. completion = [cause |-> cause, failure |-> failure, undelivered |-> undelivered]
      BY <2>8 DEF Join, CompletionInv
    <3>2. call = "close" => outcome' = [call |-> call, errors |-> Errors(completion)]
      BY <2>8 DEF Join, Reported
    <3>3. call = "close" /\ outcome'.errors = << >> => Orderly /\ ~payload /\ failure = "none"
      BY <3>1, <3>2, ErrorsTell DEF Orderly
    <3> QED
      BY <2>8, <3>3 DEF Join, CloseTellsAll
  <2> QED
    BY <1>3, <2>1, <2>2, <2>3, <2>4, <2>5, <2>6, <2>7, <2>8 DEF Finishing
<1>4. CASE Step
  <2>1. CASE TakeCommand
    BY <2>1 DEF TakeCommand
  <2>2. CASE TakeShutdown
    BY <2>2 DEF TakeShutdown, CleanupInv, Loop
  <2>3. CASE \E x \in {"none", "ok", "err"} : Continue(x)
    BY <2>3 DEF Continue
  <2>4. CASE \E x \in {"none", "ok", "err", "failed"} : CoreFails(x)
    BY <2>4 DEF CoreFails
  <2>5. CASE StepPanics
    BY <2>5 DEF StepPanics
  <2>6. CASE Deliver
    BY <2>6 DEF Deliver, Respond, Missing
  <2>7. CASE AnswerFailure
    BY <2>7 DEF AnswerFailure, Respond, Missing
  <2> QED
    BY <1>4, <2>1, <2>2, <2>3, <2>4, <2>5, <2>6, <2>7 DEF Step
<1>5. CASE Ending
  <2>1. CASE \E b \in BOOLEAN : BeginCleanup(b)
    BY <2>1 DEF BeginCleanup
  <2>2. CASE \E p \in Phases : \E b \in BOOLEAN : Phase(p, b)
    <3>1. PICK p \in Phases, b \in BOOLEAN : Phase(p, b)
      BY <2>2
    <3>2. phases \in Seq([phase : Phases, ok : BOOLEAN])
      BY DEF TypeOK, WorkerTypeOK
    <3>3. failure' = "none" => failure = "none" /\ b
      BY <3>1 DEF Phase, Phases
    <3>4. AllWell /\ b => AllWell'
      BY <3>1, <3>2 DEF Phase
    <3> QED
      BY <3>1, <3>3, <3>4 DEF Phase, AfterPhase, Phases
  <2>3. CASE \E p \in Phases : PhasePanics(p)
    BY <2>3 DEF PhasePanics, PanicInv, Phases
  <2>4. CASE CatchPanic
    BY <2>4 DEF CatchPanic
  <2>5. CASE Settle
    BY <2>5 DEF Settle, Respond
  <2>6. CASE \E b \in BOOLEAN : Teardown(b)
    BY <2>6 DEF Teardown
  <2>7. CASE Publish
    BY <2>7 DEF Publish
  <2>8. CASE Release
    BY <2>8 DEF Release
  <2> QED
    BY <1>5, <2>1, <2>2, <2>3, <2>4, <2>5, <2>6, <2>7, <2>8 DEF Ending
<1>6. CASE WakeByToken \/ WakeByDeadline
  BY <1>6 DEF WakeByToken, WakeByDeadline
<1>7. CASE Ended \/ UNCHANGED vars
  BY <1>7 DEF Ended, vars
<1> QED
  BY <1>1, <1>2, <1>3, <1>4, <1>5, <1>6, <1>7 DEF Next

-----------------------------------------------------------------------------
(* The invariant *)

\* The invariant holds at first.
LEMMA InvInit == Init => IInv
<1> SUFFICES ASSUME Init PROVE IInv
  OBVIOUS
<1> USE DEF Init
<1>1. TypeOK
  BY TypeInit
<1>2. OwnerInv /\ ChannelInv /\ LatchInv
  BY DEF OwnerInv, ChannelInv, LatchInv, Orderly
<1>3. EndInv /\ CompletionInv /\ PanicInv
  BY DEF EndInv, CompletionInv, PanicInv, TerminalFinishIsTerminal, FailureIsRecorded,
         Past, Phases, Loop, NoCompletion, Orderly
<1>4. Len(phases) = 0
  OBVIOUS
<1>5. CleanupInv /\ OutcomeInv
  BY <1>4 DEF CleanupInv, OutcomeInv, CloseTellsAll, AllWell, Orderly, Phases, Loop
<1> QED
  BY <1>1, <1>2, <1>3, <1>5 DEF IInv

\* Every step keeps it.
LEMMA InvSteps == IInv /\ [Next]_vars => IInv'
<1> SUFFICES ASSUME IInv, [Next]_vars PROVE IInv'
  OBVIOUS
<1>1. TypeOK
  BY DEF IInv
<1>2. TypeOK'
  BY <1>1, TypeSteps
<1> QED
  BY <1>1, <1>2, OwnerSteps, ChannelSteps, LatchSteps, EndSteps, CompletionSteps,
     CleanupSteps, PanicSteps, OutcomeSteps
     DEF IInv

\* The invariant holds in every reachable state.
THEOREM Invariance == Spec => []IInv
BY InvInit, InvSteps, PTL DEF Spec

-----------------------------------------------------------------------------
(* What follows *)

\* Every variable keeps its type.
THEOREM TypeIsCorrect == Spec => []TypeOK
<1>1. IInv => TypeOK
  BY DEF IInv
<1> QED
  BY <1>1, Invariance, PTL

\* The command channel, which holds one command, is empty whenever a call is
\* about to send: the InvariantViolation of try_enqueue cannot happen.
THEOREM ChannelNeverFull == Spec => []NeverFull
<1>1. IInv => NeverFull
  BY DEF IInv, ChannelInv, NeverFull
<1> QED
  BY <1>1, Invariance, PTL

\* finish_terminal awaits the completion only of a worker that has left its
\* loop.
THEOREM TerminalFinishes == Spec => []TerminalFinishIsTerminal
<1>1. IInv => TerminalFinishIsTerminal
  BY DEF IInv, EndInv
<1> QED
  BY <1>1, Invariance, PTL

\* A caller that finds its worker lost finds the completion published.
THEOREM LossIsPublished == Spec => []LostIsPublished
<1>1. IInv => LostIsPublished
  <2> SUFFICES ASSUME IInv, listening, response = "lost" \/ ~receiver
               PROVE  completion # NoCompletion
    BY DEF LostIsPublished
  <2>1. worker = "exited"
    BY DEF IInv, OwnerInv, ChannelInv
  <2>2. completion.cause # "none"
    BY <2>1 DEF IInv, CompletionInv, EndInv, Past
  <2> QED
    BY <2>2 DEF NoCompletion
<1> QED
  BY <1>1, Invariance, PTL

\* Without a runtime, and between calls, no thread, no session and no command
\* of the worker before is left.
THEOREM CloseIsOver == Spec => []ClosedIsOver
<1>1. IInv => ClosedIsOver
  BY DEF IInv, OwnerInv, ChannelInv, ClosedIsOver
<1> QED
  BY <1>1, Invariance, PTL

\* No phase of the cleanup is run twice.
THEOREM CleanupOnce == Spec => []CleanedOnce
<1>1. IInv => CleanedOnce
  <2> SUFFICES ASSUME IInv, NEW i \in 1..Len(phases), NEW j \in 1..Len(phases),
                      phases[i].phase = phases[j].phase
               PROVE  i = j
    BY DEF CleanedOnce
  <2>1. Len(phases) \in Nat /\ phases[i] \in [phase : Phases, ok : BOOLEAN]
    BY ElementOfSeq, LenProperties DEF IInv, TypeOK, WorkerTypeOK
  <2>2. Rank[phases[i].phase] \in Int
    BY <2>1 DEF Rank, Phases
  <2>3. ~(i < j) /\ ~(j < i)
    BY <2>2 DEF IInv, CleanupInv
  <2> QED
    BY <2>1, <2>3
<1> QED
  BY <1>1, Invariance, PTL

\* A worker that failed has recorded a failure in the status before it
\* publishes its completion.
THEOREM FailuresAreRecorded == Spec => []FailureIsRecorded
<1>1. IInv => FailureIsRecorded
  BY DEF IInv, PanicInv
<1> QED
  BY <1>1, Invariance, PTL

\* A close() that returns no error had nothing to report.
THEOREM CloseIsHonest == Spec => []CloseTellsAll
<1>1. IInv => CloseTellsAll
  BY DEF IInv, OutcomeInv
<1> QED
  BY <1>1, Invariance, PTL

-----------------------------------------------------------------------------
(* Refinement *)

\* At first the controller is closed.
LEMMA PromiseInit == Init => Calls!Init
BY DEF Init, Calls!Init, Handle, Serving, Awaited, Answered, Loop

\* Opening maps to Open or GiveUp, or to no step.
LEMMA PromiseOpening ==
    ASSUME IInv, Opening PROVE [Calls!Next]_(Calls!vars)
<1> USE DEF IInv, OwnerInv, ChannelInv, MayOpen, Handle, Serving, Awaited, Answered, core,
        Calls!Next, Calls!vars
<1>1. CASE \E c \in {"open", "create"} : OpenRefused(c) \/ SpawnFailed(c)
  <2>1. UNCHANGED <<runtime, response, worker>> /\ client = "idle" /\ ~runtime
        /\ client' \in {"idle", "gone"}
    BY <1>1 DEF OpenRefused, SpawnFailed, commands
  <2>2. CASE client' = "idle"
    BY <2>1, <2>2
  <2>3. CASE client' = "gone"
    BY <2>1, <2>3 DEF Calls!GiveUp
  <2> QED
    BY <2>1, <2>2, <2>3
<1>2. CASE \E c \in {"open", "create"} : Opened(c)
  <2>1. /\ client = "idle" /\ ~runtime /\ client' \in {"idle", "enqueue"} /\ runtime'
        /\ worker' = "take" /\ response' = "none"
    BY <1>2 DEF Opened, Return
  <2>2. worker \in {"none", "exited"} /\ response = "none"
    BY <2>1
  <2> QED
    BY <2>1, <2>2 DEF Calls!Open, Loop
<1> QED
  BY <1>1, <1>2 DEF Opening

\* A command is a request, and its caller returns with the answer or for want
\* of a worker.
LEMMA PromiseCalling ==
    ASSUME IInv, Calling PROVE [Calls!Next]_(Calls!vars)
<1> USE DEF IInv, OwnerInv, ChannelInv, Handle, Serving, Awaited, Answered, core, commands,
        Calls!Next, Calls!vars
<1>1. CASE BeginCommand
  BY <1>1 DEF BeginCommand, Calls!Request
<1>2. CASE TryEnqueue
  BY <1>2 DEF TryEnqueue
<1>3. CASE EnqueueRefused
  <2>1. worker \in {"none", "exited"} /\ response = "none"
    BY <1>3 DEF EnqueueRefused
  <2>2. client = "enqueue" /\ client' \in {"idle", "latch", "completion"}
        /\ UNCHANGED <<runtime, response, worker>>
    BY <1>3 DEF EnqueueRefused, Return
  <2> QED
    BY <2>1, <2>2 DEF Calls!Return, Loop
<1>4. CASE NotifyWorker
  BY <1>4 DEF NotifyWorker
<1>5. CASE Receive
  <2>1. /\ client = "response" /\ client' \in {"idle", "latch", "completion"}
        /\ response = "ok" => client' = "idle"
        /\ UNCHANGED <<runtime, worker>> /\ response' = "none"
    BY <1>5 DEF Receive, Return
  <2>2. Answered # "none" \/ ~Serving
    BY <1>5 DEF Receive, TypeOK, ChannelTypeOK, Results, Loop
  <2> QED
    BY <2>1, <2>2 DEF Calls!Return
<1> QED
  BY <1>1, <1>2, <1>3, <1>4, <1>5 DEF Calling

\* Finishing a worker maps to Finish, Finished and GiveUp.
LEMMA PromiseFinishing ==
    ASSUME IInv, Finishing PROVE [Calls!Next]_(Calls!vars)
<1> USE DEF IInv, OwnerInv, Handle, Serving, Awaited, Answered, core, commands,
        Calls!Next, Calls!vars
<1>1. CASE \E c \in {"close", "drop"}, m \in Requests : BeginFinish(c, m)
  BY <1>1 DEF BeginFinish, Calls!Finish
<1>2. CASE CloseAgain \/ RequestShutdown \/ WakeWorker \/ ReceiveCompletion
  <2>1. /\ UNCHANGED <<runtime, worker, response>>
        /\ \/ UNCHANGED client
           \/ /\ client \in {"latch", "wake", "completion"}
              /\ client' \in {"wake", "completion", "joining"}
    BY <1>2 DEF CloseAgain, Return, RequestShutdown, WakeWorker, ReceiveCompletion
  <2> QED
    BY <2>1
<1>3. CASE DropClosed \/ CompletionTimedOut
  BY <1>3 DEF DropClosed, CompletionTimedOut, Calls!GiveUp
<1>4. CASE Join
  <2>1. /\ client = "joining" /\ client' \in {"idle", "gone"} /\ worker = "exited"
        /\ ~runtime' /\ UNCHANGED <<worker, response>>
    BY <1>4 DEF Join
  <2> QED
    BY <2>1 DEF Calls!Finished, Loop
<1> QED
  BY <1>1, <1>2, <1>3, <1>4 DEF Finishing

\* In its loop the worker answers, stops, or does nothing a caller sees.
LEMMA PromiseStep ==
    ASSUME IInv, Step PROVE [Calls!Next]_(Calls!vars)
<1> USE DEF IInv, ChannelInv, Handle, Serving, Awaited, Answered, program, commands,
        Calls!Next, Calls!vars
<1>1. UNCHANGED <<client, runtime>>
  BY DEF Step, TakeCommand, TakeShutdown, Continue, CoreFails, StepPanics, Deliver,
         AnswerFailure
<1>2. CASE TakeCommand \/ TakeShutdown \/ StepPanics
  BY <1>1, <1>2 DEF TakeCommand, TakeShutdown, StepPanics, Loop, Calls!Stop
<1>3. CASE \/ \E x \in {"none", "ok", "err"} : Continue(x)
           \/ \E x \in {"none", "ok", "err", "failed"} : CoreFails(x)
  BY <1>1, <1>3 DEF Continue, CoreFails, Loop
<1>4. CASE Deliver \/ AnswerFailure
  <2>1. Serving /\ progress \in {"none", "ok", "err", "failed"}
    BY <1>4 DEF Deliver, AnswerFailure, Loop, TypeOK, WorkerTypeOK, Results
  <2>2. CASE progress # "none" /\ inFlight
    <3>1. response = "waiting" /\ client \in {"notify", "response"}
      BY <2>2
    <3>2. response' = progress
      BY <1>4, <2>2, <3>1 DEF Deliver, AnswerFailure, Respond
    <3>3. Awaited = "request" /\ Answered = "none" /\ Answered' \in {"ok", "err"}
      BY <2>1, <2>2, <3>1, <3>2
    <3>4. UNCHANGED <<Handle, Awaited>> /\ Serving' \in BOOLEAN
      BY <1>1
    <3> HIDE DEF Handle, Serving, Awaited, Answered
    <3> QED
      BY <2>1, <3>3, <3>4 DEF Calls!Answer
  <2>3. CASE ~(progress # "none" /\ inFlight)
    <3>1. UNCHANGED response
      BY <1>4, <2>3 DEF Deliver, AnswerFailure, Respond
    <3>2. worker' \in {"guard", "wait"}
      BY <1>4 DEF Deliver, AnswerFailure
    <3> QED
      BY <1>1, <2>1, <3>1, <3>2 DEF Calls!Stop, Loop
  <2> QED
    BY <2>2, <2>3
<1> QED
  BY <1>2, <1>3, <1>4 DEF Step

\* What the worker does past its loop no caller sees: an orderly close finds
\* no command to answer, because the call that asked for it waits.
LEMMA PromiseEnding ==
    ASSUME IInv, Ending PROVE UNCHANGED Calls!vars
<1> USE DEF IInv, ChannelInv, Handle, Serving, Awaited, Answered, program, commands, Loop,
        Phases, Calls!vars
<1>1. UNCHANGED <<client, runtime>>
  BY DEF Ending, BeginCleanup, Phase, PhasePanics, CatchPanic, Settle, Teardown, Publish,
         Release
<1>2. worker \notin Loop \cup {"answer"} /\ worker' \notin Loop \cup {"answer"}
  BY DEF Ending, BeginCleanup, Phase, AfterPhase, PhasePanics, CatchPanic, Settle,
         Teardown, Publish, Release
<1>3. CASE Settle
  <2>1. Orderly => ~inFlight
    BY DEF LatchInv, OwnerInv
  <2>2. UNCHANGED response
    BY <1>3, <2>1 DEF Settle, Respond
  <2> QED
    BY <1>1, <1>2, <2>2
<1>4. CASE Release
  BY <1>1, <1>2, <1>4 DEF Release
<1>5. CASE ~Settle /\ ~Release
  <2>1. UNCHANGED response
    BY <1>5 DEF Ending, BeginCleanup, Phase, PhasePanics, CatchPanic, Teardown, Publish
  <2> QED
    BY <1>1, <1>2, <2>1
<1> QED
  BY <1>3, <1>4, <1>5

\* A Controller and its worker keep the promise: every step is one of
\* ControllerCalls, or one the program does not see.
THEOREM Refinement == Spec => KeepsPromise
<1>1. IInv /\ [Next]_vars => [Calls!Next]_(Calls!vars)
  <2> SUFFICES ASSUME IInv, [Next]_vars PROVE [Calls!Next]_(Calls!vars)
    OBVIOUS
  <2>1. CASE Opening \/ Calling \/ Finishing \/ Step
    BY <2>1, PromiseOpening, PromiseCalling, PromiseFinishing, PromiseStep
  <2>2. CASE Ending
    BY <2>2, PromiseEnding
  <2>3. CASE WakeByToken \/ WakeByDeadline
    BY <2>3
       DEF WakeByToken, WakeByDeadline, Handle, Serving, Awaited, Answered, program,
           commands, Loop, Calls!vars
  <2>4. CASE Ended \/ UNCHANGED vars
    BY <2>4
       DEF Ended, vars, Handle, Serving, Awaited, Answered, program, commands, core,
           Calls!vars
  <2> QED
    BY <2>1, <2>2, <2>3, <2>4 DEF Next
<1> QED
  BY <1>1, PromiseInit, Invariance, PTL DEF Spec, KeepsPromise, Calls!Spec

-----------------------------------------------------------------------------
(* The history of a cleanup *)

\* Where a cleanup is over.
Over == {"settle", "teardown", "publish", "release", "exited"}

\* The first phase that failed, as failure has it.
FailsFirst(i) == ~phases[i].ok /\ \A j \in 1..(i - 1) : phases[j].ok
FirstFailure ==
    IF failure = "none" THEN AllWell
    ELSE \E i \in 1..Len(phases) : FailsFirst(i) /\ phases[i].phase = failure

\* Every phase the worker is past was attempted, the drain if there is one.
PastPhases ==
    /\ "drain" \in Attempted => Drains
    /\ worker \in {"neutral", "drain"} => Drains
    /\ worker \in {"disconnect", "close"} \cup Over /\ Drains => "drain" \in Attempted
    /\ worker \in {"close"} \cup Over => "disconnect" \in Attempted
    /\ worker \in Over => "close" \in Attempted

\* A worker without a panic goes into its cleanup once, and through all of it.
HistoryInv ==
    /\ ~payload /\ worker # "panicked" =>
         /\ worker \in {"answer", "guard"} => ~closing
         /\ FirstFailure
         /\ PastPhases
    /\ completion # NoCompletion => completion.failure = failure

\* An attempt adds its phase to the history, and leaves the first failure what
\* it was if there is one.
LEMMA Attempt ==
    ASSUME TypeOK, NEW p \in Phases, NEW ok \in BOOLEAN,
           phases' = Append(phases, [phase |-> p, ok |-> ok])
    PROVE  /\ Attempted' = Attempted \cup {p}
           /\ FirstFailure /\ failure' = (IF ok \/ failure # "none" THEN failure ELSE p)
              => FirstFailure'
<1>1. phases \in Seq([phase : Phases, ok : BOOLEAN])
  BY DEF TypeOK, WorkerTypeOK
<1>2. /\ Len(phases') = Len(phases) + 1
      /\ \A i \in 1..Len(phases) : phases'[i] = phases[i]
      /\ phases'[Len(phases) + 1].phase = p
      /\ phases'[Len(phases) + 1].ok = ok
      /\ Len(phases) \in Nat
  BY <1>1
<1>3. Attempted' = Attempted \cup {p}
  <2>1. Attempted' \subseteq Attempted \cup {p}
    BY <1>2 DEF Attempted
  <2>2. Attempted \subseteq Attempted'
    BY <1>2 DEF Attempted
  <2>3. p \in Attempted'
    BY <1>2 DEF Attempted
  <2> QED
    BY <2>1, <2>2, <2>3
<1>4. ASSUME FirstFailure,
             failure' = (IF ok \/ failure # "none" THEN failure ELSE p)
      PROVE  FirstFailure'
  <2>1. CASE failure # "none"
    <3>1. PICK i \in 1..Len(phases) : FailsFirst(i) /\ phases[i].phase = failure
      BY <1>4, <2>1 DEF FirstFailure
    <3>2. i \in 1..Len(phases') /\ phases'[i].phase = failure' /\ FailsFirst(i)'
      BY <1>2, <1>4, <2>1, <3>1 DEF FailsFirst
    <3> QED
      BY <1>4, <2>1, <3>2 DEF FirstFailure
  <2>2. CASE failure = "none" /\ ok
    <3>1. AllWell'
      BY <1>2, <1>4, <2>2 DEF FirstFailure, AllWell
    <3> QED
      BY <1>4, <2>2, <3>1 DEF FirstFailure
  <2>3. CASE failure = "none" /\ ~ok
    <3>1. AllWell
      BY <1>4, <2>3 DEF FirstFailure
    <3>2. PICK n \in Nat : n = Len(phases) + 1
      BY <1>2
    <3>3. n \in 1..Len(phases') /\ phases'[n].phase = p /\ FailsFirst(n)'
      BY <1>2, <2>3, <3>1, <3>2 DEF FailsFirst, AllWell
    <3>4. failure' = p /\ failure' # "none"
      BY <1>4, <2>3 DEF Phases
    <3> QED
      BY <3>3, <3>4 DEF FirstFailure
  <2> QED
    BY <2>1, <2>2, <2>3
<1> QED
  BY <1>3, <1>4

\* Who does not touch the history keeps what is said of it.
LEMMA HistoryFrame ==
    ASSUME UNCHANGED <<failure, phases>>
    PROVE  Attempted' = Attempted /\ (FirstFailure => FirstFailure')
BY DEF Attempted, FirstFailure, AllWell, FailsFirst

\* Before a cleanup there is no history.
LEMMA NoHistory ==
    ASSUME phases = << >> PROVE Attempted = {} /\ AllWell
BY DEF Attempted, AllWell

\* An orderly close keeps the mode it was asked for.
LEMMA DrainsFrame ==
    ASSUME IInv, [Next]_vars, UNCHANGED cause PROVE Drains' = Drains
<1>1. CASE ~Orderly
  BY <1>1 DEF Drains, Orderly
<1>2. CASE Orderly
  <2>1. latch # "running" /\ (runtime => client \in {"wake", "completion", "joining"})
    BY <1>2 DEF IInv, LatchInv
  <2>2. client \notin {"idle", "gone"} => runtime
    BY DEF IInv, OwnerInv
  <2>3. UNCHANGED mode
    <3>1. CASE Opening
      BY <3>1 DEF Opening, OpenRefused, SpawnFailed, Opened
    <3>2. CASE Calling
      BY <2>1, <2>2, <3>2 DEF Calling, BeginCommand, TryEnqueue, EnqueueRefused,
         NotifyWorker, Receive
    <3>3. CASE Finishing
      BY <2>1, <3>3 DEF Finishing, BeginFinish, CloseAgain, DropClosed, RequestShutdown,
         WakeWorker, ReceiveCompletion, CompletionTimedOut, Join
    <3>4. CASE Step
      BY <3>4 DEF Step, TakeCommand, TakeShutdown, Continue, CoreFails, StepPanics,
         Deliver, AnswerFailure, program
    <3>5. CASE Ending
      BY <3>5 DEF Ending, BeginCleanup, Teardown, Phase, PhasePanics, CatchPanic, Settle,
         Publish, Release, program
    <3>6. CASE WakeByToken \/ WakeByDeadline \/ Ended \/ UNCHANGED vars
      BY <3>6 DEF WakeByToken, WakeByDeadline, Ended, vars, program
    <3> QED
      BY <3>1, <3>2, <3>3, <3>4, <3>5, <3>6 DEF Next
  <2> QED
    BY <2>3 DEF Drains, Orderly
<1> QED
  BY <1>1, <1>2

\* One phase of a cleanup.
LEMMA HistoryPhase ==
    ASSUME IInv, HistoryInv, NEW p \in Phases, NEW ok \in BOOLEAN, Phase(p, ok)
    PROVE  HistoryInv'
<1>1. /\ Attempted' = Attempted \cup {p}
      /\ FirstFailure => FirstFailure'
  BY Attempt DEF IInv, Phase
<1>2. UNCHANGED <<mode, cause, payload, completion>> /\ worker = p /\ worker' = AfterPhase(p)
  BY DEF Phase, program, finish, ending
<1>3. Drains' = Drains
  BY <1>2 DEF Drains, Orderly
<1>4. completion = NoCompletion
  BY <1>2 DEF IInv, CompletionInv, Phases
<1>5. CASE payload
  BY <1>2, <1>4, <1>5 DEF HistoryInv, AfterPhase
<1>6. CASE ~payload
  <2>1. FirstFailure' /\ PastPhases
    BY <1>1, <1>2, <1>6 DEF HistoryInv, Phases
  <2>2. CASE p = "neutral"
    <3>1. worker' = "drain" /\ worker = "neutral"
      BY <1>2, <2>2 DEF AfterPhase
    <3> QED
      BY <1>1, <1>2, <1>3, <1>4, <2>1, <2>2, <3>1 DEF HistoryInv, PastPhases, Over
  <2>3. CASE p = "drain"
    <3>1. worker' = "disconnect" /\ worker = "drain"
      BY <1>2, <2>3 DEF AfterPhase
    <3> QED
      BY <1>1, <1>2, <1>3, <1>4, <2>1, <2>3, <3>1 DEF HistoryInv, PastPhases, Over
  <2>4. CASE p = "disconnect"
    <3>1. worker' = "close" /\ worker = "disconnect"
      BY <1>2, <2>4 DEF AfterPhase
    <3> QED
      BY <1>1, <1>2, <1>3, <1>4, <2>1, <2>4, <3>1 DEF HistoryInv, PastPhases, Over
  <2>5. CASE p = "close"
    <3>1. worker' = "settle" /\ worker = "close"
      BY <1>2, <2>5 DEF AfterPhase
    <3> QED
      BY <1>1, <1>2, <1>3, <1>4, <2>1, <2>5, <3>1 DEF HistoryInv, PastPhases, Over
  <2> QED
    BY <2>2, <2>3, <2>4, <2>5 DEF Phases
<1> QED
  BY <1>5, <1>6

\* Every step keeps the history in order.
LEMMA HistorySteps ==
    ASSUME IInv, HistoryInv, [Next]_vars PROVE HistoryInv'
<1>1. CASE Opening
  <2>1. CASE \E c \in {"open", "create"} : OpenRefused(c) \/ SpawnFailed(c)
    <3>1. UNCHANGED <<mode, worker, cause, closing, failure, phases, payload, completion>>
      BY <2>1 DEF OpenRefused, SpawnFailed, core, cleanup, ending, finish
    <3>2. Drains' = Drains
      BY <3>1 DEF Drains, Orderly
    <3> QED
      BY <3>1, <3>2, HistoryFrame DEF HistoryInv, PastPhases
  <2>2. CASE \E c \in {"open", "create"} : Opened(c)
    <3>1. /\ worker' = "take" /\ phases' = << >> /\ failure' = "none" /\ closing' = FALSE
          /\ completion' = NoCompletion
      BY <2>2 DEF Opened
    <3>2. Attempted' = {} /\ AllWell'
      BY <3>1 DEF Attempted, AllWell
    <3> QED
      BY <3>1, <3>2 DEF HistoryInv, PastPhases, FirstFailure, Over
  <2> QED
    BY <1>1, <2>1, <2>2 DEF Opening
<1>2. CASE Calling \/ Finishing
  <2>1. UNCHANGED <<worker, cause, closing, failure, phases, payload, completion>>
    BY <1>2
       DEF Calling, BeginCommand, TryEnqueue, EnqueueRefused, NotifyWorker, Receive,
           Finishing, BeginFinish, CloseAgain, DropClosed, RequestShutdown, WakeWorker,
           ReceiveCompletion, CompletionTimedOut, Join, core, cleanup, ending, finish
  <2>2. Drains' = Drains
    BY <2>1, DrainsFrame
  <2> QED
    BY <2>1, <2>2, HistoryFrame DEF HistoryInv, PastPhases
<1>3. CASE Step \/ WakeByToken \/ WakeByDeadline
  <2>1. /\ UNCHANGED <<closing, failure, phases, payload, completion>>
        /\ worker \in Loop \cup {"answer"}
        /\ worker' \in Loop \cup {"answer", "guard", "panicked"}
    BY <1>3
       DEF Step, TakeCommand, TakeShutdown, Continue, CoreFails, StepPanics, Deliver,
           AnswerFailure, WakeByToken, WakeByDeadline, cleanup, ending, finish, Loop
  <2>2. CASE payload
    BY <2>1, <2>2 DEF HistoryInv
  <2>3. CASE ~payload
    <3>1. ~closing
      BY <2>1, <2>3 DEF HistoryInv, IInv, CleanupInv, Loop
    <3>2. phases' = << >> /\ ~closing'
      BY <2>1, <3>1 DEF IInv, CleanupInv
    <3>3. Attempted' = {}
      BY <3>2 DEF Attempted
    <3>4. FirstFailure'
      BY <2>1, <2>3, HistoryFrame DEF HistoryInv, Loop
    <3>5. worker' \notin {"neutral", "drain", "disconnect", "close"} \cup Over
      BY <2>1 DEF Loop, Over
    <3> QED
      BY <2>1, <3>2, <3>3, <3>4, <3>5 DEF HistoryInv, PastPhases
  <2> QED
    BY <2>2, <2>3
<1>4. CASE Ending
  <2>1. CASE \E b \in BOOLEAN : BeginCleanup(b)
    <3>1. PICK b \in BOOLEAN : BeginCleanup(b)
      BY <2>1
    <3>2. UNCHANGED <<cause, mode, failure, phases, payload, completion>> /\ worker = "guard"
      BY <3>1 DEF BeginCleanup, program, ending, finish
    <3>3. Drains' = Drains
      BY <3>2 DEF Drains, Orderly
    <3>4. CASE payload
      BY <3>1, <3>2, <3>4 DEF HistoryInv
    <3>5. CASE ~payload
      <4>1. ~closing
        BY <3>2, <3>5 DEF HistoryInv
      <4>2. phases' = << >>
        BY <3>2, <4>1 DEF IInv, CleanupInv
      <4>3. Attempted' = {}
        BY <4>2 DEF Attempted
      <4>4. /\ worker' \in {"neutral", "drain", "disconnect"}
            /\ worker' = "drain" => Drains
            /\ worker' = "neutral" => Neutral(b)
            /\ worker' = "disconnect" => ~Drains
        BY <3>1, <4>1 DEF BeginCleanup
      <4>5. Neutral(b) => Drains
        BY DEF Neutral, Drains
      <4>6. FirstFailure'
        BY <3>2, <3>5, HistoryFrame DEF HistoryInv
      <4>7. PastPhases'
        BY <3>3, <4>3, <4>4, <4>5 DEF PastPhases, Over
      <4> QED
        BY <3>2, <4>4, <4>6, <4>7 DEF HistoryInv
    <3> QED
      BY <3>4, <3>5
  <2>2. CASE \E p \in Phases : \E b \in BOOLEAN : Phase(p, b)
    BY <2>2, HistoryPhase
  <2>3. CASE \E p \in Phases : PhasePanics(p)
    <3>1. completion = NoCompletion
      BY <2>3 DEF PhasePanics, IInv, CompletionInv, Phases
    <3> QED
      BY <2>3, <3>1 DEF PhasePanics, HistoryInv, ending, finish
  <2>4. CASE CatchPanic
    BY <2>4 DEF CatchPanic, HistoryInv, finish, cleanup
  <2>5. CASE Settle \/ (\E b \in BOOLEAN : Teardown(b)) \/ Release
    <3>1. /\ UNCHANGED <<cause, mode, failure, phases, completion>>
          /\ ~payload' => ~payload
          /\ worker \in Over /\ worker' \in Over
      <4>1. CASE Settle \/ Release
        BY <4>1 DEF Settle, Release, program, cleanup, ending, finish, Over
      <4>2. ASSUME NEW b \in BOOLEAN, Teardown(b)
            PROVE  /\ UNCHANGED <<cause, mode, failure, phases, completion>>
                   /\ ~payload' => ~payload
                   /\ worker \in Over /\ worker' \in Over
        <5>1. payload' = (payload \/ b)
          BY <4>2 DEF Teardown
        <5> QED
          BY <4>2, <5>1 DEF Teardown, program, cleanup, finish, Over
      <4> QED
        BY <2>5, <4>1, <4>2
    <3>2. Drains' = Drains
      BY <3>1 DEF Drains, Orderly
    <3> QED
      BY <3>1, <3>2, HistoryFrame DEF HistoryInv, PastPhases, Over
  <2>6. CASE Publish
    <3>1. /\ UNCHANGED <<cause, mode, failure, phases, payload>>
          /\ worker = "publish" /\ worker' = "release"
          /\ completion' # completion => completion'.failure = failure
      BY <2>6 DEF Publish, program, cleanup, ending
    <3>2. Drains' = Drains
      BY <3>1 DEF Drains, Orderly
    <3> QED
      BY <3>1, <3>2, HistoryFrame DEF HistoryInv, PastPhases, Over
  <2> QED
    BY <1>4, <2>1, <2>2, <2>3, <2>4, <2>5, <2>6 DEF Ending
<1>5. CASE Ended \/ UNCHANGED vars
  <2>1. UNCHANGED <<mode, worker, cause, closing, failure, phases, payload, completion>>
    BY <1>5 DEF Ended, vars, program, core, cleanup, ending, finish
  <2>2. Drains' = Drains
    BY <2>1 DEF Drains, Orderly
  <2> QED
    BY <2>1, <2>2, HistoryFrame DEF HistoryInv, PastPhases
<1> QED
  BY <1>1, <1>2, <1>3, <1>4, <1>5 DEF Next

\* The failure that comes first is the one CHOOSE finds.
LEMMA FirstIsChosen ==
    ASSUME TypeOK, FirstFailure
    PROVE  failure = IF \A i \in 1..Len(phases) : phases[i].ok THEN "none"
                     ELSE phases[CHOOSE i \in 1..Len(phases) :
                                   ~phases[i].ok
                                   /\ \A j \in 1..(i - 1) : phases[j].ok].phase
<1>1. Len(phases) \in Nat
  BY LenProperties DEF TypeOK, WorkerTypeOK
<1>2. CASE failure = "none"
  BY <1>2 DEF FirstFailure, AllWell
<1>3. CASE failure # "none"
  <2> DEFINE First(i) == ~phases[i].ok /\ \A j \in 1..(i - 1) : phases[j].ok
             c == CHOOSE i \in 1..Len(phases) : First(i)
  <2>1. PICK k \in 1..Len(phases) : First(k) /\ phases[k].phase = failure
    BY <1>3 DEF FirstFailure, FailsFirst
  <2>2. c \in 1..Len(phases) /\ First(c)
    BY <2>1
  <2> HIDE DEF c
  <2>3. c = k
    BY <1>1, <2>1, <2>2
  <2>4. ~(\A i \in 1..Len(phases) : phases[i].ok)
    BY <2>1
  <2> QED
    BY <2>1, <2>3, <2>4 DEF c
<1> QED
  BY <1>2, <1>3

\* Without a panic, whatever fails in it: every phase of a cleanup is
\* attempted that should be, and the completion names the first that failed.
THEOREM CleanupRunsWhole == Spec => []CleanupIsWhole
<1>1. Init => HistoryInv
  BY NoHistory DEF Init, HistoryInv, FirstFailure, PastPhases, Over, NoCompletion
<1>2. IInv /\ HistoryInv => PhasesComplete
  <2> SUFFICES ASSUME IInv, HistoryInv, completion # NoCompletion, ~payload
               PROVE  /\ {"disconnect", "close"} \subseteq Attempted
                      /\ "drain" \in Attempted <=> Drains
                      /\ completion.failure = failure
                      /\ FirstFailure
    BY FirstIsChosen DEF PhasesComplete, IInv
  <2>1. worker \in {"release", "exited"}
    BY DEF IInv, CompletionInv
  <2> QED
    BY <2>1 DEF HistoryInv, PastPhases, Over
<1>3. IInv /\ HistoryInv /\ [Next]_vars => HistoryInv'
  BY HistorySteps
<1> QED
  BY <1>1, <1>2, <1>3, Invariance, CleanupOnce, PTL DEF Spec, CleanupIsWhole

-----------------------------------------------------------------------------
(* The invariants a run checks together *)

\* A controller has one call and one worker at a time: try_enqueue finds its
\* slot free, and close leaves no worker behind.
THEOREM CallsDoNotOverlap == Spec => []OneAtATime
  BY ChannelNeverFull, CloseIsOver, PTL DEF OneAtATime

\* finish_terminal waits for a worker that has left its loop, and finds the
\* completion it published before the command channel went.
THEOREM TerminalIsCertain == Spec => []TerminalIsTerminal
  BY TerminalFinishes, LossIsPublished, PTL DEF TerminalIsTerminal

\* What fails reaches the caller of close and the status.
THEOREM NoFailureIsLost == Spec => []FailuresAreSeen
  BY CloseIsHonest, FailuresAreRecorded, PTL DEF FailuresAreSeen
=============================================================================
