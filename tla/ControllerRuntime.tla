------------------------- MODULE ControllerRuntime -------------------------
(***************************************************************************)
(* A Controller and the worker thread it owns: open and create_profile,    *)
(* the blocking calls over the command channel, close and drop over the    *)
(* shutdown latch, the completion channel and the join, of                 *)
(* src/controller/, src/runtime/command.rs and                             *)
(* src/runtime/worker_thread.rs, with the phases of the cleanup sequence   *)
(* of src/runtime/cleanup.rs.  The step of the worker core, which          *)
(* WorkerCore models, is reduced to what it does with the command in       *)
(* flight, the latch and the status projection.                            *)
(*                                                                         *)
(* Two threads run: the program's, which owns the Controller, and the      *)
(* worker.  A transport call of the cleanup may fail, and it, a step or    *)
(* the teardown may panic.                                                 *)
(***************************************************************************)
EXTENDS Naturals, Sequences, FiniteSets

CONSTANTS MaxOpens, MaxCommands, MaxFaults   \* bounds on the environment

ASSUME BoundAssumption == {MaxOpens, MaxCommands, MaxFaults} \subseteq Nat

VARIABLES
    \* the program's thread
    client,      \* where it is in a call, "idle" between calls, or "gone"
    call,        \* the call
    mode,        \* the ShutdownRequest the call makes
    runtime,     \* does a WorkerOwner exist?
    outcome,     \* the latest call that returned, and its errors in order
    \* between the threads
    slot, receiver, inFlight, response,   \* the command channel
    token,                                \* the activity channel
    latch,                                \* ShutdownState
    completion, listening,                \* the completion channel
    \* the worker thread
    worker,      \* where it is
    cause,       \* why it leaves its loop
    progress,    \* the command result in its StepProgress
    closing,     \* has its lifecycle left the live states?
    failure,     \* CloseCompletion.first_failure
    undelivered, \* WorkerCompletion.delivery_error
    payload,     \* panic_payload
    port,        \* is the session of the transport port "open" or "closed"?
    status,      \* the projection: lifecycle, worker_failure
    phases,      \* history: the cleanup phases attempted, and whether they did well
    left         \* what the bounds leave

program == <<client, call, mode, runtime, outcome>>
commands == <<slot, receiver, inFlight, response>>
finish == <<completion, listening>>
core == <<worker, cause, progress>>
cleanup == <<closing, failure, phases>>
ending == <<undelivered, payload>>
vars == <<program, commands, token, latch, finish, core, cleanup, ending, port,
          status, left>>

NoCompletion == [cause |-> "none", failure |-> "none", undelivered |-> FALSE]
Requests == {"neutral", "plain", "dropped"}
Phases == {"neutral", "drain", "disconnect", "close"}
Loop == {"take", "look", "work", "deliver", "wait"}

Fault(n) == left.faults >= n /\ left' = [left EXCEPT !.faults = @ - n]
Spend(k) == left[k] > 0 /\ left' = [left EXCEPT ![k] = @ - 1]

\* StatusPublisher::fail keeps an earlier failure, and then everything.
Failing(s) == IF s.failure THEN s ELSE [lifecycle |-> "Failed", failure |-> TRUE]

Init ==
    /\ client = "idle" /\ call = "none" /\ mode = "plain" /\ runtime = FALSE
    /\ outcome = [call |-> "none", errors |-> <<>>]
    /\ slot = FALSE /\ receiver = FALSE /\ inFlight = FALSE /\ response = "none"
    /\ token = FALSE /\ latch = "running"
    /\ completion = NoCompletion /\ listening = FALSE
    /\ worker = "none" /\ cause = "none" /\ progress = "none"
    /\ closing = FALSE /\ failure = "none" /\ phases = <<>>
    /\ undelivered = FALSE /\ payload = FALSE
    /\ port = "closed"
    /\ status = [lifecycle |-> "Configured", failure |-> FALSE]
    /\ left = [opens |-> MaxOpens, commands |-> MaxCommands, faults |-> MaxFaults]

-----------------------------------------------------------------------------
(* The program: open and create_profile *)

Return(errors) ==
    /\ outcome' = [call |-> call', errors |-> errors]
    /\ client' = "idle"

\* create_profile builds a controller of its own; a Controller opens again.
MayOpen(c) ==
    /\ client = "idle" /\ ~runtime
    /\ c = "create" => outcome.call = "none"

\* The factory, the port or its capabilities refuse, before a worker exists.
OpenRefused(c) ==
    /\ MayOpen(c) /\ Spend("opens")
    /\ call' = c /\ outcome' = [call |-> c, errors |-> <<"open">>]
    /\ client' = IF c = "create" THEN "gone" ELSE "idle"
    /\ UNCHANGED <<mode, runtime, commands, token, latch, finish, core, cleanup,
                   ending, port, status>>

\* The thread cannot be spawned: the worker that was built sets the status to
\* Open, cleanup_unspawned_without_neutral to Closed, and then it fails.
SpawnFailed(c) ==
    /\ MayOpen(c) /\ Spend("opens")
    /\ call' = c /\ outcome' = [call |-> c, errors |-> <<"open">>]
    /\ client' = IF c = "create" THEN "gone" ELSE "idle"
    /\ status' = Failing([status EXCEPT !.lifecycle = "Closed"])
    /\ UNCHANGED <<mode, runtime, commands, token, latch, finish, core, cleanup,
                   ending, port>>

\* A worker starts on channels of its own; create goes on to pair.
Opened(c) ==
    /\ MayOpen(c) /\ Spend("opens")
    /\ call' = c
    /\ IF c = "create" THEN client' = "enqueue" /\ UNCHANGED outcome
                       ELSE Return(<<>>)
    /\ runtime' = TRUE
    /\ slot' = FALSE /\ receiver' = TRUE /\ inFlight' = FALSE /\ response' = "none"
    /\ token' = FALSE /\ latch' = "running"
    /\ completion' = NoCompletion /\ listening' = TRUE
    /\ worker' = "take" /\ cause' = "none" /\ progress' = "none"
    /\ closing' = FALSE /\ failure' = "none" /\ phases' = <<>>
    /\ undelivered' = FALSE /\ payload' = FALSE
    /\ port' = "open"
    /\ status' = [status EXCEPT !.lifecycle = "Open"]
    /\ UNCHANGED mode

-----------------------------------------------------------------------------
(* The program: blocking calls *)

BeginCommand ==
    /\ client = "idle" /\ runtime /\ Spend("commands")
    /\ client' = "enqueue" /\ call' = "command"
    /\ UNCHANGED <<mode, runtime, outcome, commands, token, latch, finish, core,
                   cleanup, ending, port, status>>

\* The worker is told, by notify, only after the command is in the channel.
TryEnqueue ==
    /\ client = "enqueue" /\ receiver /\ ~slot
    /\ slot' = TRUE /\ response' = "waiting"
    /\ client' = "notify"
    /\ UNCHANGED <<call, mode, runtime, outcome, receiver, inFlight, token, latch,
                   finish, core, cleanup, ending, port, status, left>>

\* A worker that is gone: create learns why from its completion, and a
\* Controller leaves that to close.  A full channel is an InvariantViolation.
EnqueueRefused ==
    /\ client = "enqueue" /\ (~receiver \/ slot)
    /\ call' = call
    /\ IF call = "create"
       THEN /\ client' = IF receiver THEN "latch" ELSE "completion"
            /\ mode' = "plain"
            /\ UNCHANGED outcome
       ELSE Return(<<IF receiver THEN "full" ELSE "lost">>) /\ UNCHANGED mode
    /\ UNCHANGED <<runtime, commands, token, latch, finish, core, cleanup,
                   ending, port, status, left>>

\* A command sent without a word to the worker.
SilentNotify ==
    /\ client = "notify"
    /\ client' = "response"
    /\ UNCHANGED <<call, mode, runtime, outcome, commands, token, latch, finish, core,
                   cleanup, ending, port, status, left>>

NotifyWorker ==
    /\ client = "notify"
    /\ token' = TRUE /\ client' = "response"
    /\ UNCHANGED <<call, mode, runtime, outcome, commands, latch, finish, core,
                   cleanup, ending, port, status, left>>

\* A caller that takes the response for granted.
ImpatientReceive ==
    /\ client = "response"
    /\ response' = "none" /\ call' = call
    /\ Return(<<>>)
    /\ UNCHANGED <<mode, runtime, slot, receiver, inFlight, token, latch, finish,
                   core, cleanup, ending, port, status, left>>

\* A create that takes every failed pairing for the end of the worker.
HastyReceive ==
    /\ client = "response" /\ response \notin {"none", "waiting"}
    /\ response' = "none" /\ call' = call
    /\ IF call = "command" \/ response = "ok"
       THEN Return(IF response = "ok" THEN <<>> ELSE <<response>>) /\ UNCHANGED mode
       ELSE client' = "completion" /\ UNCHANGED <<mode, outcome>>
    /\ UNCHANGED <<runtime, slot, receiver, inFlight, token, latch, finish, core,
                   cleanup, ending, port, status, left>>

\* CommandResponse::recv, and what create makes of it: a worker that failed or
\* is lost is awaited without a shutdown request, any other failure shuts it
\* down without neutral.
Receive ==
    /\ client = "response" /\ response \notin {"none", "waiting"}
    /\ response' = "none" /\ call' = call
    /\ IF call = "command" \/ response = "ok"
       THEN Return(IF response = "ok" THEN <<>> ELSE <<response>>) /\ UNCHANGED mode
       ELSE /\ client' = IF response = "err" THEN "latch" ELSE "completion"
            /\ mode' = "plain"
            /\ UNCHANGED outcome
    /\ UNCHANGED <<runtime, slot, receiver, inFlight, token, latch, finish, core,
                   cleanup, ending, port, status, left>>

-----------------------------------------------------------------------------
(* The program: close and drop *)

BeginFinish(c, m) ==
    /\ client = "idle" /\ runtime
    /\ c = "drop" <=> m = "dropped"
    /\ client' = "latch" /\ call' = c /\ mode' = m
    /\ UNCHANGED <<runtime, outcome, commands, token, latch, finish, core, cleanup,
                   ending, port, status, left>>

\* close() without a runtime still records Closed.
CloseAgain ==
    /\ client = "idle" /\ ~runtime
    /\ call' = "close again" /\ Return(<<>>)
    /\ status' = [status EXCEPT !.lifecycle = "Closed"]
    /\ UNCHANGED <<mode, runtime, commands, token, latch, finish, core, cleanup,
                   ending, port, left>>

DropClosed ==
    /\ client = "idle" /\ ~runtime
    /\ client' = "gone" /\ call' = "drop"
    /\ UNCHANGED <<mode, runtime, outcome, commands, token, latch, finish, core,
                   cleanup, ending, port, status, left>>

\* A request that passes the call for the mode.
MixedUpRequest ==
    /\ client = "latch"
    /\ IF latch = "running" THEN latch' = call /\ client' = "wake"
                            ELSE client' = "completion" /\ UNCHANGED latch
    /\ UNCHANGED <<call, mode, runtime, outcome, commands, token, finish, core,
                   cleanup, ending, port, status, left>>

\* PriorityShutdownClient::request sets the latch and then notifies.
RequestShutdown ==
    /\ client = "latch"
    /\ IF latch = "running" THEN latch' = mode /\ client' = "wake"
                            ELSE client' = "completion" /\ UNCHANGED latch
    /\ UNCHANGED <<call, mode, runtime, outcome, commands, token, finish, core,
                   cleanup, ending, port, status, left>>

\* A shutdown requested without a word to the worker.
SilentWake ==
    /\ client = "wake"
    /\ client' = "completion"
    /\ UNCHANGED <<call, mode, runtime, outcome, commands, token, latch, finish, core,
                   cleanup, ending, port, status, left>>

WakeWorker ==
    /\ client = "wake"
    /\ token' = TRUE /\ client' = "completion"
    /\ UNCHANGED <<call, mode, runtime, outcome, commands, latch, finish, core,
                   cleanup, ending, port, status, left>>

\* The completion arrives, or its channel closes without one.
ReceiveCompletion ==
    /\ client = "completion" /\ (completion # NoCompletion \/ worker = "exited")
    /\ client' = "joining"
    /\ UNCHANGED <<call, mode, runtime, outcome, commands, token, latch, finish,
                   core, cleanup, ending, port, status, left>>

\* Drop waits DROP_COMPLETION_TIMEOUT and then leaves the thread to itself.
CompletionTimedOut ==
    /\ client = "completion" /\ call = "drop" /\ completion = NoCompletion
    /\ client' = "gone" /\ runtime' = FALSE /\ listening' = FALSE
    /\ UNCHANGED <<call, mode, outcome, commands, token, latch, completion, core,
                   cleanup, ending, port, status, left>>

If(cond, error) == IF cond THEN <<error>> ELSE <<>>

\* An outcome that counts on the thread to end well.
HopefulErrors(c) ==
    LET cleaned == If(c.failure # "none", "cleanup")
        told == If(c.undelivered, "delivery")
    IN  CASE c = NoCompletion -> <<"disconnected">>
          [] c.cause = "closed" -> cleaned \o told
          [] OTHER -> <<c.cause>> \o told \o cleaned

\* finish_completed and map_worker_outcome: the errors of an orderly close are
\* the cleanup's, the delivery's and the join's, those of a failure its cause,
\* the delivery's, the cleanup's and the join's.
Errors(c) ==
    LET joined == If(payload, "join")
        cleaned == If(c.failure # "none", "cleanup")
        told == If(c.undelivered, "delivery")
    IN  CASE c = NoCompletion -> <<"disconnected">> \o joined
          [] c.cause = "closed" -> cleaned \o told \o joined
          [] OTHER -> <<c.cause>> \o told \o cleaned \o joined

\* What the call that finished the worker returns.  create reports why it
\* failed to pair, and the errors of the cleanup as related to that; of a
\* worker that ended by itself it reports the outcome alone.
Reported ==
    LET errors == Errors(completion)
    IN  CASE call = "drop" -> outcome
          [] call = "create" /\ (latch # "running" \/ errors = <<>>) ->
               [call |-> call, errors |-> <<"pair">> \o errors]
          [] OTHER -> [call |-> call, errors |-> errors]

DetachedJoin ==
    /\ client = "joining"
    /\ runtime' = FALSE /\ listening' = FALSE
    /\ client' = IF call = "close" THEN "idle" ELSE "gone"
    /\ outcome' = Reported
    /\ UNCHANGED <<call, mode, commands, token, latch, completion, core, cleanup,
                   ending, port, status, left>>

Join ==
    /\ client = "joining" /\ worker = "exited"
    /\ runtime' = FALSE /\ listening' = FALSE
    /\ client' = IF call = "close" THEN "idle" ELSE "gone"
    /\ outcome' = Reported
    /\ UNCHANGED <<call, mode, commands, token, latch, completion, core, cleanup,
                   ending, port, status, left>>

-----------------------------------------------------------------------------
(* The worker: its loop *)

\* CommandSource::try_next, at the start of step_runtime.
TakeCommand ==
    /\ worker = "take"
    /\ IF slot /\ ~inFlight THEN slot' = FALSE /\ inFlight' = TRUE
                            ELSE UNCHANGED <<slot, inFlight>>
    /\ worker' = "look"
    /\ UNCHANGED <<program, receiver, response, token, latch, finish, cause, progress,
                   cleanup, ending, port, status, left>>

\* Every step looks at the latch before it goes on.
TakeShutdown ==
    /\ worker = "look"
    /\ IF latch \in Requests
       THEN latch' = "taken" /\ cause' = "closed" /\ worker' = "guard"
       ELSE worker' = "work" /\ UNCHANGED <<latch, cause>>
    /\ UNCHANGED <<program, commands, token, finish, progress, cleanup, ending, port,
                   status, left>>

\* What a step may do to the status: begin a session, which clears an earlier
\* failure, or end one.
SessionStep ==
    \/ UNCHANGED status
    \/ /\ status.lifecycle = "Open" /\ inFlight
       /\ status' = [lifecycle |-> "Session", failure |-> FALSE]
    \/ /\ status.lifecycle = "Session"
       /\ status' = [status EXCEPT !.lifecycle = "Open"]

\* WorkerStep::Continue: the command in flight is answered, or goes on.
Continue(r) ==
    /\ worker = "work"
    /\ r # "none" => inFlight
    /\ progress' = r /\ worker' = "deliver"
    /\ SessionStep
    /\ UNCHANGED <<program, commands, token, latch, finish, cause, cleanup, ending,
                   port, left>>

\* WorkerStep::Failed: WorkerCore::fail answers a connection command with the
\* failure, a tap is left without an answer, and an answer already recorded
\* stays.
CoreFails(r) ==
    /\ worker = "work" /\ Fault(1)
    /\ r # "none" => inFlight
    /\ progress' = r /\ cause' = "core" /\ worker' = "answer"
    /\ status' = Failing(status)
    /\ UNCHANGED <<program, commands, token, latch, finish, cleanup, ending, port>>

StepPanics ==
    /\ worker = "work" /\ Fault(1)
    /\ worker' = "panicked"
    /\ UNCHANGED <<program, commands, token, latch, finish, cause, progress, cleanup,
                   ending, port, status>>

\* CommandReceiver::deliver of a step's result: MissingResponse without a
\* command in flight.
Missing(r) == r # "none" /\ ~inFlight
Respond(r) ==
    IF r # "none" /\ inFlight
    THEN /\ inFlight' = FALSE
         /\ response' = IF response = "waiting" THEN r ELSE response
    ELSE UNCHANGED <<inFlight, response>>

Deliver ==
    /\ worker = "deliver"
    /\ Respond(progress) /\ progress' = "none"
    /\ IF Missing(progress)
       THEN cause' = "delivery" /\ worker' = "guard" /\ status' = Failing(status)
       ELSE worker' = "wait" /\ UNCHANGED <<cause, status>>
    /\ UNCHANGED <<program, slot, receiver, token, latch, finish, cleanup, ending,
                   port, left>>

\* wait_for_next_iteration ends by the activity token, ...
WakeByToken ==
    /\ worker = "wait" /\ token
    /\ token' = FALSE /\ worker' = "take"
    /\ UNCHANGED <<program, commands, latch, finish, cause, progress, cleanup, ending,
                   port, status, left>>

\* ... or at a deadline, of which an idle worker may have none.
WakeByDeadline ==
    /\ worker = "wait"
    /\ worker' = "take"
    /\ UNCHANGED <<program, commands, token, latch, finish, cause, progress, cleanup,
                   ending, port, status, left>>

\* The core failed: its result is delivered, and complete_worker_failure goes
\* on to the cleanup whether or not there was one.
AnswerFailure ==
    /\ worker = "answer"
    /\ Respond(progress) /\ progress' = "none"
    /\ undelivered' = Missing(progress)
    /\ status' = Failing(status) /\ worker' = "guard"
    /\ UNCHANGED <<program, slot, receiver, token, latch, finish, cause, cleanup,
                   payload, port, left>>

-----------------------------------------------------------------------------
(* The worker: CleanupSequence::run *)

Orderly == cause = "closed"
\* Only an orderly close sends a neutral report, only a drop skips the drain.
Drains == ~(Orderly /\ mode = "dropped")
Neutral(connected) == Orderly /\ mode = "neutral" /\ connected

\* A cleanup that runs whatever the lifecycle says.
UnguardedCleanup(connected) ==
    /\ worker = "guard"
    /\ closing' = TRUE
    /\ status' = IF Orderly THEN [status EXCEPT !.lifecycle = "Closing"] ELSE status
    /\ worker' = IF Neutral(connected) THEN "neutral"
                 ELSE IF Drains THEN "drain" ELSE "disconnect"
    /\ UNCHANGED <<program, commands, token, latch, finish, cause, progress, failure,
                   phases, ending, port, left>>

\* request_close begins a cleanup once; a worker that panicked in its cleanup
\* goes on without it.
BeginCleanup(connected) ==
    /\ worker = "guard"
    /\ IF closing
       THEN worker' = "settle" /\ UNCHANGED <<closing, status>>
       ELSE /\ closing' = TRUE
            /\ status' = IF Orderly THEN [status EXCEPT !.lifecycle = "Closing"]
                                    ELSE status
            /\ worker' = IF Neutral(connected) THEN "neutral"
                         ELSE IF Drains THEN "drain" ELSE "disconnect"
    /\ UNCHANGED <<program, commands, token, latch, finish, cause, progress, failure,
                   phases, ending, port, left>>

AfterPhase(p) ==
    CASE p = "neutral" -> "drain"
      [] p = "drain" -> "disconnect"
      [] p = "disconnect" -> "close"
      [] OTHER -> "settle"

\* A cleanup that gives up at its first failure.
StoppingPhase(p, ok) ==
    /\ worker = p /\ Fault(IF ok THEN 0 ELSE 1)
    /\ phases' = Append(phases, [phase |-> p, ok |-> ok])
    /\ failure' = IF ok \/ failure # "none" THEN failure ELSE p
    /\ worker' = IF ok THEN AfterPhase(p) ELSE "settle"
    /\ port' = IF p = "close" THEN "closed" ELSE port
    /\ status' = IF p = "close" /\ Orderly THEN [status EXCEPT !.lifecycle = "Closed"]
                                           ELSE status
    /\ UNCHANGED <<program, commands, token, latch, finish, cause, progress, closing,
                   ending>>

\* One phase: record_first_failure, and on to the next whatever came of it.
\* The port gives its session up even if closing it fails.
Phase(p, ok) ==
    /\ worker = p /\ Fault(IF ok THEN 0 ELSE 1)
    /\ phases' = Append(phases, [phase |-> p, ok |-> ok])
    /\ failure' = IF ok \/ failure # "none" THEN failure ELSE p
    /\ worker' = AfterPhase(p)
    /\ port' = IF p = "close" THEN "closed" ELSE port
    /\ status' = IF p = "close" /\ Orderly THEN [status EXCEPT !.lifecycle = "Closed"]
                                           ELSE status
    /\ UNCHANGED <<program, commands, token, latch, finish, cause, progress, closing,
                   ending>>

PhasePanics(p) ==
    /\ worker = p /\ Fault(1)
    /\ phases' = Append(phases, [phase |-> p, ok |-> FALSE])
    /\ failure' = "none"
    /\ worker' = IF payload THEN "teardown" ELSE "panicked"
    /\ port' = IF p = "close" THEN "closed" ELSE port
    /\ UNCHANGED <<program, commands, token, latch, finish, cause, progress, closing,
                   ending, status>>

-----------------------------------------------------------------------------
(* The worker: run_started_worker *)

\* catch_unwind caught a panic of the loop, in a step or in its cleanup.
CatchPanic ==
    /\ worker = "panicked"
    /\ cause' = "panicked" /\ payload' = TRUE
    /\ progress' = "none" /\ undelivered' = FALSE
    /\ status' = Failing(status) /\ worker' = "guard"
    /\ UNCHANGED <<program, commands, token, latch, finish, cleanup, port, left>>

\* After the cleanup: an orderly close answers the command it interrupted, or
\* delivers what the step had recorded before it saw the latch.
Settle ==
    /\ worker = "settle"
    /\ IF Orderly
       THEN /\ \E r \in {"ok", "err"} : Respond(r)
            /\ status' = [status EXCEPT !.lifecycle = "Closed"]
       ELSE UNCHANGED <<inFlight, response, status>>
    /\ worker' = "teardown"
    /\ UNCHANGED <<program, slot, receiver, token, latch, finish, cause, progress,
                   cleanup, ending, port, left>>

\* A teardown that forgets what a panic of its own means.
QuietTeardown(panics) ==
    /\ worker = "teardown" /\ Fault(IF panics THEN 1 ELSE 0)
    /\ port' = "closed"
    /\ payload' = (payload \/ panics)
    /\ status' = IF ~Orderly THEN Failing(status) ELSE status
    /\ worker' = "publish"
    /\ UNCHANGED <<program, commands, token, latch, finish, cause, progress, cleanup,
                   undelivered>>

\* A teardown that drops the command channel along with the rest.
EarlyTeardown(panics) ==
    /\ worker = "teardown" /\ Fault(IF panics THEN 1 ELSE 0)
    /\ port' = "closed"
    /\ payload' = (payload \/ panics)
    /\ status' = IF panics \/ ~Orderly THEN Failing(status) ELSE status
    /\ slot' = FALSE /\ receiver' = FALSE /\ inFlight' = FALSE
    /\ response' = IF response = "waiting" THEN "lost" ELSE response
    /\ worker' = "publish"
    /\ UNCHANGED <<program, token, latch, finish, cause, progress, cleanup,
                   undelivered>>

\* Everything but the command channel is dropped, the transport with it.
Teardown(panics) ==
    /\ worker = "teardown" /\ Fault(IF panics THEN 1 ELSE 0)
    /\ port' = "closed"
    /\ payload' = (payload \/ panics)
    /\ status' = IF panics \/ ~Orderly THEN Failing(status) ELSE status
    /\ worker' = "publish"
    /\ UNCHANGED <<program, commands, token, latch, finish, cause, progress, cleanup,
                   undelivered>>

\* publish_completion; nobody may listen any more.
Publish ==
    /\ worker = "publish"
    /\ completion' = IF listening
                     THEN [cause |-> cause, failure |-> failure,
                           undelivered |-> undelivered]
                     ELSE completion
    /\ worker' = "release"
    /\ UNCHANGED <<program, commands, token, latch, listening, cause, progress, cleanup,
                   ending, port, status, left>>

\* Dropping the CommandReceiver disconnects every caller not answered yet.
Release ==
    /\ worker = "release"
    /\ slot' = FALSE /\ receiver' = FALSE /\ inFlight' = FALSE
    /\ response' = IF response = "waiting" THEN "lost" ELSE response
    /\ worker' = "exited"
    /\ UNCHANGED <<program, token, latch, finish, cause, progress, cleanup, ending,
                   port, status, left>>

-----------------------------------------------------------------------------
Opening == \E c \in {"open", "create"} : OpenRefused(c) \/ SpawnFailed(c) \/ Opened(c)

Calling == BeginCommand \/ TryEnqueue \/ EnqueueRefused \/ NotifyWorker \/ Receive

Finishing ==
    \/ \E c \in {"close", "drop"}, m \in Requests : BeginFinish(c, m)
    \/ CloseAgain \/ DropClosed
    \/ RequestShutdown \/ WakeWorker \/ ReceiveCompletion \/ CompletionTimedOut \/ Join

Step ==
    \/ TakeCommand \/ TakeShutdown
    \/ \E r \in {"none", "ok", "err"} : Continue(r)
    \/ \E r \in {"none", "ok", "err", "failed"} : CoreFails(r)
    \/ StepPanics \/ Deliver \/ AnswerFailure

Ending ==
    \/ \E b \in BOOLEAN : BeginCleanup(b) \/ Teardown(b)
    \/ \E p \in Phases : PhasePanics(p) \/ \E b \in BOOLEAN : Phase(p, b)
    \/ CatchPanic \/ Settle \/ Publish \/ Release

Ended == client = "gone" /\ worker \in {"none", "exited"} /\ UNCHANGED vars

Next ==
    Opening \/ Calling \/ Finishing \/ Step \/ WakeByToken \/ WakeByDeadline \/ Ending \/ Ended

Spec == Init /\ [][Next]_vars

\* Both threads are scheduled once they can run: a call the program began goes
\* on, and so does the worker.  A worker that waits is woken by the token, and,
\* with a command in flight, by the command's deadline; that its steps then
\* answer the command in the end is what WorkerCore shows.
Answers == \E r \in {"ok", "err"} : Continue(r)
FairSpec ==
    /\ Spec
    /\ WF_vars(client # "idle" /\ (Calling \/ Finishing))
    /\ WF_vars(Step) /\ WF_vars(Ending) /\ WF_vars(WakeByToken)
    /\ WF_vars(inFlight /\ WakeByDeadline)
    /\ SF_vars(Answers)

-----------------------------------------------------------------------------
(* Properties *)

Results == {"ok", "err", "failed"}
Causes == {"none", "closed", "core", "delivery", "panicked"}
Failures == Phases \cup {"none"}
CallNames == {"none", "open", "create", "command", "close", "close again", "drop"}
Statuses ==
    [lifecycle : {"Configured", "Open", "Session", "Closing", "Closed", "Failed"},
     failure : BOOLEAN]
ErrorNames == {"open", "full", "lost", "pair", "disconnected", "cleanup", "delivery",
               "join"} \cup Results \cup Causes
Outcomes == [call : CallNames, errors : Seq(ErrorNames)]

ProgramTypeOK ==
    /\ client \in {"idle", "enqueue", "notify", "response", "latch", "wake",
                   "completion", "joining", "gone"}
    /\ call \in CallNames
    /\ mode \in Requests
    /\ runtime \in BOOLEAN
    /\ outcome \in Outcomes

ChannelTypeOK ==
    /\ slot \in BOOLEAN /\ receiver \in BOOLEAN /\ inFlight \in BOOLEAN
    /\ token \in BOOLEAN /\ listening \in BOOLEAN
    /\ response \in Results \cup {"none", "waiting", "lost"}
    /\ latch \in Requests \cup {"running", "taken"}
    /\ completion \in [cause : Causes, failure : Failures, undelivered : BOOLEAN]

WorkerTypeOK ==
    /\ worker \in Loop \cup Phases
         \cup {"none", "answer", "guard", "panicked", "settle", "teardown",
               "publish", "release", "exited"}
    /\ cause \in Causes
    /\ progress \in Results \cup {"none"}
    /\ closing \in BOOLEAN /\ undelivered \in BOOLEAN /\ payload \in BOOLEAN
    /\ failure \in Failures
    /\ phases \in Seq([phase : Phases, ok : BOOLEAN])
    /\ port \in {"open", "closed"}
    /\ status \in Statuses
    /\ left \in [opens : Nat, commands : Nat, faults : Nat]

TypeOK == ProgramTypeOK /\ ChannelTypeOK /\ WorkerTypeOK

\* try_enqueue calls a full channel an InvariantViolation: the channel holds
\* one command because a blocking caller has at most one, whatever became of
\* the ones before.
NeverFull == client = "enqueue" => ~slot

\* finish_terminal waits for the completion without having asked for a
\* shutdown, so it must be sure that the worker has left its loop.
TerminalFinishIsTerminal ==
    client = "completion" /\ latch = "running" => worker \notin Loop

\* A caller that loses its worker can rely on the completion: it is published
\* before the command channel goes, so finish_terminal finds the cause.
LostIsPublished ==
    listening /\ (response = "lost" \/ ~receiver) => completion # NoCompletion

\* Who goes for the completion finds one, sooner or later: what brought it
\* there is the end of the worker.
TerminalIsTerminal == TerminalFinishIsTerminal /\ LostIsPublished

\* When close returned, and while a controller has no runtime, no worker of it
\* is left: the thread has exited and the adapter is free for the next one.
ClosedIsOver ==
    client = "idle" /\ ~runtime =>
        /\ worker \in {"none", "exited"}
        /\ port = "closed" /\ ~slot /\ ~inFlight

\* One call, one worker: at no time do two commands or two workers overlap.
OneAtATime == NeverFull /\ ClosedIsOver

\* No phase of the cleanup runs twice, not even in a worker that panics in its
\* cleanup and is cleaned up again.
CleanedOnce ==
    \A i, j \in 1..Len(phases) : phases[i].phase = phases[j].phase => i = j

\* A failing phase keeps no later one from running, and it is the first
\* failure that is reported.
Attempted == { phases[i].phase : i \in 1..Len(phases) }
PhasesComplete ==
    completion # NoCompletion /\ ~payload =>
        /\ {"disconnect", "close"} \subseteq Attempted
        /\ "drain" \in Attempted <=> Drains
        /\ completion.failure =
             IF \A i \in 1..Len(phases) : phases[i].ok THEN "none"
             ELSE phases[CHOOSE i \in 1..Len(phases) :
                           ~phases[i].ok /\ \A j \in 1..(i - 1) : phases[j].ok].phase

\* Whatever fails on the way, the cleanup runs once and to its end.
CleanupIsWhole == CleanedOnce /\ PhasesComplete

\* close() succeeds only if all went well: the worker closed in order, no
\* phase failed and nothing panicked, not even after the completion was sent.
CloseTellsAll ==
    client = "idle" /\ call = "close" /\ outcome.errors = <<>>
    => Orderly /\ ~payload /\ \A i \in 1..Len(phases) : phases[i].ok

\* A worker that failed, in whatever way, leaves a failure in the status.
FailureIsRecorded ==
    worker \in {"publish", "release", "exited"} /\ (~Orderly \/ payload)
        => status.failure

\* No failure is lost: neither to the caller of close nor to the status.
FailuresAreSeen == CloseTellsAll /\ FailureIsRecorded

\* A controller without a worker does not show the lifecycle of one.
NoWorkerNoLifecycle ==
    client = "idle" /\ ~runtime =>
        status.lifecycle \in {"Configured", "Closed", "Failed"}

\* Every call returns: no caller waits for a worker that will not answer, and
\* closing is never left waiting for the worker.
CallsReturn == client \notin {"idle", "gone"} ~> client \in {"idle", "gone"}

\* The worker of a dropped controller frees the adapter, also after its owner
\* stopped waiting.
DropReleases == (client = "gone") ~> (port = "closed" /\ worker \in {"none", "exited"})

\* No owner is stuck with its worker, and no adapter with a worker that lost its
\* owner.
EveryoneGetsAway == CallsReturn /\ DropReleases

\* The runtime keeps the promise ControllerCalls makes.
Handle == IF client = "gone" THEN "gone" ELSE IF runtime THEN "open" ELSE "closed"
Serving == worker \in Loop \cup {"answer"}
Awaited ==
    CASE client \in {"enqueue", "notify", "response"} -> "request"
      [] client \in {"latch", "wake", "completion", "joining"} -> "finish"
      [] OTHER -> "none"
Answered ==
    CASE response = "ok" -> "ok"
      [] response \in {"err", "failed"} -> "err"
      [] OTHER -> "none"

Calls ==
    INSTANCE ControllerCalls WITH
        handle <- Handle, serving <- Serving, call <- Awaited, answer <- Answered
KeepsPromise == Calls!Spec
=============================================================================
