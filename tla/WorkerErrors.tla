---------------------------- MODULE WorkerErrors ----------------------------
(***************************************************************************)
(* What becomes of a failure: the worker of src/runtime/worker.rs from the *)
(* opening of its transport to the outcome of its thread, seen through the *)
(* errors it meets.  WorkerCore models the same worker's steps, time and   *)
(* queues and tells an error from a success only; here an action is a      *)
(* whole handler, time is a choice between a timeout and what comes before *)
(* it, and every error keeps its identity up to the caller, the outcome    *)
(* and the status.                                                         *)
(***************************************************************************)
EXTENDS CommandErrors, FiniteSets, FiniteSetsExt

CONSTANTS
    Buttons,      \* the buttons of the controller model
    Commands,     \* the commands a client may give: [op, buttons]
    SendErrors,   \* the kinds send_interrupt may return
    PollErrors,   \* the kinds poll may return
    StartErrors,  \* the kinds start_pairing and start_reconnect may return
    OpenErrors,   \* the kinds open may return
    ShutErrors,   \* the kinds the calls of a cleanup may return
    MaxCommands, MaxFaults   \* bounds

Ops == {"pair", "reconnect", "press", "release", "whole", "neutral", "tap"}
Modes == {"Periodic", "Direct"}
ASSUME CommandsAssumption == Commands \subseteq [op : Ops, buttons : SUBSET Buttons]
ASSUME BoundsAssumption == {MaxCommands, MaxFaults} \subseteq Nat

VARIABLES
    mode,       \* the reporting type parameter
    worker,     \* "opening", "refused", "running", "closed" or "failed"
    lifecycle, connected, pending, tap, input,   \* of WorkerCore
    latch,      \* the shutdown request: "running", a request, "taken"
    ending,     \* the WorkerCoreError the step is about to fail with, or None
    command,    \* the command in flight, or Idle
    answer,     \* what the last call returned, or Waiting
    outcome,    \* WorkerThreadOutcome, or Alive
    failure,    \* worker_failure of the status, or NoFailure
    shown,      \* history: the input the peer was last shown
    met,        \* history: transport errors the last command met, in order
    fatal,      \* history: errors no worker can go on after, in order
    cut,        \* history: what cut the last command short, or "no"
    shutting,   \* history: what the calls of the cleanup returned, in order
    left        \* what is left of the bounds

core == <<lifecycle, connected, pending, tap, input, shown>>
call == <<command, answer, met, cut>>
vars == <<mode, latch, ending, fatal, left, failure, core, call, worker, outcome,
          shutting>>

Idle == [op |-> "none", buttons |-> {}]
NoTap == [released |-> {}, held |-> {}, first_error |-> None]
Waiting == [of |-> "Waiting"]
Ok == [of |-> "Ok"]
Alive == [of |-> "Alive"]
Panicked == [of |-> "Panicked"]
NoFailure == [category |-> "none", message |-> ""]

Ready == lifecycle = "Ready"
has_pending == tap # NoTap
Accepted == None
Results == {Accepted} \cup {TransportError(k, "send") : k \in SendErrors}
At(result, place) == IF result = Accepted THEN Accepted ELSE [result EXCEPT !.at = place]
Spend(n) == left.faults >= n /\ left' = [left EXCEPT !.faults = @ - n]
Faults(result) == IF result = None THEN 0 ELSE 1

\* The errors that end a worker wherever they are met.
Fatal(result) == result # None /\ ~Survivable(result)
Remembered(result) == IF Fatal(result) THEN Append(fatal, result) ELSE fatal
Only(result) == IF result = None THEN <<>> ELSE <<result>>
Added(result) == IF result = None THEN met ELSE Append(met, result)

-----------------------------------------------------------------------------
(* Opening: open_runtime_owner                                              *)

Init ==
    /\ mode \in Modes /\ worker = "opening"
    /\ lifecycle = "Open" /\ connected = FALSE /\ pending = "none" /\ tap = NoTap
    /\ input = {} /\ shown = {}
    /\ latch = "running" /\ ending = None /\ command = Idle /\ answer = Waiting
    /\ outcome = Alive /\ failure = NoFailure
    /\ met = <<>> /\ fatal = <<>> /\ cut = "no" /\ shutting = <<>>
    /\ left = [commands |-> MaxCommands, faults |-> MaxFaults]

\* The calls of a cleanup in their order, and what each of them returned.
Phases(neutral, drain) ==
    (IF neutral THEN <<"Neutral">> ELSE <<>>)
    \o (IF drain THEN <<"DrainInterrupt">> ELSE <<>>)
    \o <<"Disconnect", "TransportClose">>
Returned(phases) ==
    {[i \in DOMAIN phases |-> IF f[i] = "ok" THEN None ELSE TransportError(f[i], phases[i])] :
        f \in [DOMAIN phases -> ShutErrors \cup {"ok"}]}
Failing(results) == {i \in DOMAIN results : results[i] # None}
Cost(results) == Cardinality(Failing(results))

\* record_first_failure of CleanupSequence, record_cleanup_failure of a
\* transport no worker owns yet.
LastFailure(results) ==
    IF Failing(results) = {} THEN None ELSE CleanupFailure(results[Max(Failing(results))])
record_first_failure(results) ==
    IF Failing(results) = {} THEN None ELSE CleanupFailure(results[Min(Failing(results))])

Refused(error, results) ==
    /\ worker = "opening" /\ worker' = "refused" /\ answer' = error
    /\ shutting' = results
    /\ UNCHANGED <<mode, latch, ending, core, command, cut, outcome>>

\* cleanup_unowned_transport
cleanup_unowned_transport(results) ==
    IF record_first_failure(results) = None THEN None
    ELSE map_cleanup_error(record_first_failure(results))

OpenFails(kind, results) ==
    /\ Spend(1 + Cost(results))
    /\ met' = <<TransportError(kind, "open")>> /\ fatal' = met'
    /\ Refused(with_cleanup_error(map_transport_open_error(TransportError(kind, "open")),
                                  cleanup_unowned_transport(results)), results)
    /\ UNCHANGED failure

Unsupported(results) ==
    LET error == TransportError("UnsupportedController", "open")
    IN  /\ Spend(1 + Cost(results))
        /\ met' = <<error>> /\ fatal' = met'
        /\ Refused(with_cleanup_error(WithSource("TransportOpen", error),
                                      cleanup_unowned_transport(results)), results)
        /\ UNCHANGED failure

\* cleanup_unspawned_without_neutral: the worker is closed where it was built.
SpawnFails(results) ==
    /\ Spend(1 + Cost(results))
    /\ met' = <<[of |-> "io"]>> /\ fatal' = met' /\ failure' = [category |-> "Internal", message |-> "spawn"]
    /\ Refused(map_worker_spawn_error(record_first_failure(results)), results)

Opened ==
    /\ worker = "opening" /\ worker' = "running" /\ answer' = Ok
    /\ UNCHANGED <<mode, latch, ending, fatal, left, core, command, met, cut,
                   outcome, failure, shutting>>

-----------------------------------------------------------------------------
(* The answer to a command                                                  *)

Running == worker = "running" /\ ending = None
Unmoved == UNCHANGED <<mode, latch, worker, outcome, shutting>>

\* record_command_progress and deliver_progress: the command gets its result,
\* an error as the caller sees it, and a terminal one ends the step.
Answers(result) == command' = Idle /\ answer' = result
Told(error) == Answers(map_command_error(error)) /\ UNCHANGED ending
Completes(progress) ==
    /\ Answers(map_command_error(progress.told))
    /\ ending' = progress.ends
Succeeds == Answers(Ok) /\ UNCHANGED ending
Waits(c) == command' = c /\ answer' = Waiting /\ UNCHANGED ending

\* A new command, one at a time, which meets `result`.
Gives(c, result) ==
    /\ Running /\ command = Idle /\ latch = "running"
    /\ left.commands > 0 /\ left.faults >= Faults(result)
    /\ left' = [commands |-> left.commands - 1, faults |-> left.faults - Faults(result)]
    /\ met' = Only(result) /\ cut' = "no"
    /\ Unmoved

-----------------------------------------------------------------------------
(* step_runtime: pair and reconnect                                         *)

Kind(c) == IF c.op = "pair" THEN "Pair" ELSE "Reconnect"
Connects(c, result) == c.op \in {"pair", "reconnect"} /\ Gives(c, result)

StartRefused(c, kind) ==
    LET error == TransportError(kind, c.op)
    IN  /\ Connects(c, error)
        /\ Told(Connection(Kind(c), Begin(CoreTransport(error))))
        /\ UNCHANGED <<fatal, failure, core>>

\* The transport was started all the same.
BeginRefused(c) ==
    /\ Connects(c, None) /\ lifecycle # "Open"
    /\ Told(Connection(Kind(c), Begin(InvalidLifecycle)))
    /\ UNCHANGED <<fatal, failure, core>>

begin_connection(c) ==
    /\ Connects(c, None) /\ lifecycle = "Open" /\ Waits(c)
    /\ lifecycle' = "Connecting" /\ connected' = FALSE /\ pending' = Kind(c)
    /\ input' = {} /\ shown' = {} /\ failure' = NoFailure
    /\ UNCHANGED <<fatal, tap>>

-----------------------------------------------------------------------------
(* handle_command of the two policies                                       *)

Invalid(c) == c.op \in {"press", "release", "tap"} /\ c.buttons = {}
Candidate(c) ==
    CASE c.op \in {"press", "tap"} -> input \cup c.buttons
      [] c.op = "release" -> input \ c.buttons
      [] c.op = "neutral" -> {}
      [] c.op = "whole" -> c.buttons
InputOps == Ops \ {"pair", "reconnect"}

\* Periodic looks at the buttons first and needs a link for a tap only.
PeriodicRefuses(c) ==
    /\ mode = "Periodic" /\ c.op \in InputOps /\ Gives(c, None)
    /\ \/ Invalid(c) /\ Told(Input)
       \/ ~Invalid(c) /\ c.op = "tap" /\ ~Ready /\ Told(PeriodicNotReady)
    /\ UNCHANGED <<fatal, failure, core>>

complete_input_candidate(c) ==
    /\ mode = "Periodic" /\ c.op \in InputOps \ {"tap"} /\ ~Invalid(c)
    /\ Gives(c, None) /\ Succeeds
    /\ input' = Candidate(c)
    /\ UNCHANGED <<fatal, failure, lifecycle, connected, pending, tap, shown>>

\* Direct needs a link for every command, before it looks at the buttons.
DirectRefuses(c) ==
    /\ mode = "Direct" /\ c.op \in InputOps /\ Gives(c, None)
    /\ \/ ~Ready /\ Told(DirectNotReady)
       \/ Ready /\ Invalid(c) /\ Told(Input)
    /\ UNCHANGED <<fatal, failure, core>>

\* What the peer sees and what is remembered of a send.
Sends(candidate, result) ==
    /\ shown' = IF result = Accepted THEN candidate ELSE shown
    /\ fatal' = Remembered(result)

complete_direct_send(c, result) ==
    /\ mode = "Direct" /\ Ready /\ c.op \in InputOps \ {"tap"} /\ ~Invalid(c)
    /\ Gives(c, result)
    /\ Sends(Candidate(c), result)
    /\ input' = IF result = Accepted THEN Candidate(c) ELSE input
    /\ IF result = Accepted THEN Succeeds
       ELSE Completes(nonterminal_command_progress(DirectTransport(result)))
    /\ UNCHANGED <<failure, lifecycle, connected, pending, tap>>

Held(c, error) == [held |-> c.buttons, released |-> Candidate(c) \ c.buttons,
                   first_error |-> error]

\* begin_tap of periodic.rs: the pressed state is committed whatever becomes of
\* the report, and a rejection is kept for the end of the tap.
BeginPeriodicTap(c, result) ==
    /\ mode = "Periodic" /\ Ready /\ c.op = "tap" /\ ~Invalid(c)
    /\ Gives(c, result)
    /\ Sends(Candidate(c), result) /\ input' = Candidate(c)
    /\ IF Fatal(result)
       THEN /\ Completes(nonterminal_command_progress(PeriodicTransport(result, None)))
            /\ UNCHANGED tap
       ELSE Waits(c) /\ tap' = Held(c, result)
    /\ UNCHANGED <<failure, lifecycle, connected, pending>>

\* begin_tap of direct.rs: a press that is not accepted is no tap.
BeginDirectTap(c, result) ==
    /\ mode = "Direct" /\ Ready /\ c.op = "tap" /\ ~Invalid(c)
    /\ Gives(c, result)
    /\ Sends(Candidate(c), result)
    /\ IF result = Accepted
       THEN Waits(c) /\ tap' = Held(c, None) /\ input' = Candidate(c)
       ELSE /\ Completes(nonterminal_command_progress(DirectTransport(result)))
            /\ UNCHANGED <<tap, input>>
    /\ UNCHANGED <<failure, lifecycle, connected, pending>>

-----------------------------------------------------------------------------
(* run_due                                                                  *)

FirstOf(first, second) == IF first # None THEN first ELSE second
\* What PendingPeriodicTap::finish returns, from the error of the press and
\* that of the release.
TapResult(first, second) ==
    IF first = None /\ second = None THEN Accepted
    ELSE PeriodicTransport(FirstOf(first, second),
            IF first # None /\ Fatal(second) THEN second ELSE None)

CommitAccepted(result) == IF result = Accepted THEN tap.released ELSE input
CommitReleased(result) == tap.released

EndsTap(result) ==
    /\ Running /\ has_pending /\ Ready /\ Spend(Faults(result))
    /\ tap' = NoTap /\ met' = Added(result)
    /\ Sends(tap.released, result)
    /\ Unmoved
    /\ UNCHANGED <<failure, lifecycle, connected, pending, cut>>

\* commit_and_send_candidate: the release is committed before it is sent.
PeriodicTapEnds(result) ==
    LET ended == TapResult(tap.first_error, result)
    IN  /\ mode = "Periodic" /\ EndsTap(result)
        /\ input' = CommitReleased(result)
        /\ IF ended = Accepted THEN Succeeds
           ELSE Completes(nonterminal_command_progress(ended))

\* PendingDirectTap::finish: a release that is not accepted leaves the pressed
\* state, and the tap is over.
DirectTapEnds(result) ==
    /\ mode = "Direct" /\ EndsTap(result)
    /\ input' = CommitAccepted(result)
    /\ IF result = Accepted THEN Succeeds
       ELSE Completes(nonterminal_command_progress(DirectTransport(result)))

\* A report that no command asked for: `error` wraps what it met.
Background(result, candidate, error) ==
    /\ Running /\ connected /\ Spend(Faults(result))
    /\ Sends(candidate, result)
    /\ ending' = IF result = Accepted THEN None ELSE record_operation_error(error)
    /\ Unmoved
    /\ UNCHANGED <<failure, lifecycle, connected, pending, tap, input, call>>

send_due(result) ==
    /\ mode = "Periodic" /\ lifecycle \in {"Connecting", "Ready"}
    /\ Background(result, input, PeriodicTransport(result, None))

-----------------------------------------------------------------------------
(* drive_connection                                                         *)

\* An accepted bootstrap report shows the neutral state.
Bootstrap(result) ==
    /\ lifecycle = "Connecting"
    /\ Background(result, {}, OutputTransport(result))

\* complete_connection_command
MarkReady ==
    /\ Running /\ lifecycle = "Connecting" /\ connected
    /\ lifecycle' = "Ready" /\ pending' = "none"
    /\ Succeeds /\ Unmoved
    /\ UNCHANGED <<fatal, left, failure, connected, tap, input, shown, met, cut>>

\* What abort_connection and end_connection leave.
Ends(by) ==
    /\ Running /\ lifecycle \in {"Connecting", "Ready"}
    /\ lifecycle' = "Open" /\ connected' = FALSE /\ pending' = "none" /\ tap' = NoTap
    /\ cut' = IF command # Idle THEN by ELSE cut
    /\ Unmoved
    /\ UNCHANGED <<fatal, left, failure, input, shown, met>>

TimesOut ==
    /\ lifecycle = "Connecting" /\ Ends("timeout")
    /\ Told(Connection(pending, Readiness("TimedOut")))

-----------------------------------------------------------------------------
(* handle_event                                                             *)

LinkUp ==
    /\ Running /\ lifecycle = "Connecting" /\ connected' = TRUE
    /\ Unmoved
    /\ UNCHANGED <<ending, fatal, left, failure, lifecycle, pending, tap, input,
                   shown, call>>

\* The end of the link: of a tap both policies tell the caller, each with an
\* error of its own.
TapInterrupted == IF mode = "Periodic" THEN Disconnected ELSE DirectInterrupted("Disconnected")
Disconnect ==
    /\ Ends("link")
    /\ CASE pending # "none" -> Told(Connection(pending, Readiness("Disconnected")))
         [] pending = "none" /\ has_pending -> Told(TapInterrupted)
         [] OTHER -> UNCHANGED <<command, answer, ending>>

\* An output report is handled the same whether a tap is held or not.
Reply(result) ==
    /\ lifecycle \in {"Connecting", "Ready"}
    /\ Background(result, shown, OutputTransport(result))
Malformed ==
    /\ lifecycle \in {"Connecting", "Ready"} /\ Running /\ connected
    /\ ending' = record_operation_error(OutputProtocol)
    /\ Unmoved
    /\ UNCHANGED <<fatal, left, failure, core, call>>

PollFails(kind) ==
    LET error == TransportError(kind, "poll")
    IN  /\ Running /\ Spend(1)
        /\ ending' = CoreTransport(error) /\ fatal' = Append(fatal, error)
        /\ Unmoved
        /\ UNCHANGED <<failure, core, call>>

-----------------------------------------------------------------------------
(* The end of the worker                                                    *)

Requests == {"neutral", "plain", "dropped"}

\* PriorityShutdownClient::request
Request(r) ==
    /\ worker = "running"
    /\ latch = "running" \/ (latch \in {"neutral", "plain"} /\ r = "dropped")
    /\ latch' = r
    /\ UNCHANGED <<mode, ending, fatal, left, failure, core, call, worker,
                   outcome, shutting>>

\* StatusPublisher::fail: the first failure stays.
StatusFails(cause) ==
    failure' = IF failure # NoFailure THEN failure
               ELSE [category |-> worker_failure_category(cause),
                     message |-> worker_failure_status(cause)]

\* The loop is left: `cause` is None after a close.
Leaves(cause, results, cleanup) ==
    /\ worker' = IF cause = None THEN "closed" ELSE "failed"
    /\ outcome' = [of |-> "Ended", cause |-> cause, cleanup |-> cleanup,
                   panicked |-> cause = Panicked]
    /\ shutting' = results
    /\ Spend(Cost(results))
    /\ lifecycle' = "Closed" /\ connected' = FALSE /\ pending' = "none" /\ tap' = NoTap
    /\ cut' = IF command = Idle THEN cut
              ELSE IF cause = None THEN "shutdown" ELSE "worker"
    /\ UNCHANGED <<mode, fatal, input, met>>

\* close: a request that was seen first hides a failure the step ends with.
CloseInterrupts ==
    CASE pending # "none" -> Told(Shutdown)
      [] has_pending /\ mode = "Periodic" -> Told(Shutdown)
      [] has_pending /\ mode = "Direct" -> Told(DirectInterrupted("Shutdown"))
      [] OTHER -> UNCHANGED <<command, answer, ending>>
Close ==
    /\ worker = "running" /\ latch \in Requests /\ latch' = "taken"
    /\ \E results \in Returned(Phases(latch = "neutral" /\ connected, latch # "dropped")) :
        /\ Leaves(None, results, record_first_failure(results))
        /\ shown' = IF latch = "neutral" /\ connected /\ results[1] = None
                    THEN {} ELSE shown
    /\ CloseInterrupts
    /\ UNCHANGED failure

\* fail and complete_worker_failure.  Nobody answers a tap; its caller sees the
\* response channel close.
ConnectionFailure ==
    IF ending.of = "CoreTransport" /\ ending.error.kind = "InvalidKeyStore"
    THEN "InvalidKeyStore" ELSE "WorkerFailed"
Dropped == IF command = Idle THEN UNCHANGED <<command, answer>> ELSE Answers(map_response_error)
Fail ==
    /\ worker = "running" /\ ending # None /\ latch = "running"
    /\ \E results \in Returned(Phases(FALSE, TRUE)) :
        Leaves(ending, results, record_first_failure(results))
    /\ IF pending # "none"
       THEN Answers(map_command_error(Connection(pending, ConnectionEnds(ConnectionFailure))))
       ELSE Dropped
    /\ StatusFails(ending)
    /\ UNCHANGED <<latch, ending, shown>>

\* run_started_worker catches a panic of the loop; the cleanup that follows may
\* panic as well, and then nothing is known of it.
Panics ==
    /\ Running
    /\ \/ \E results \in Returned(Phases(FALSE, TRUE)) :
            Leaves(Panicked, results, record_first_failure(results))
       \/ Leaves(Panicked, <<>>, None)
    /\ Dropped /\ StatusFails(Panicked)
    /\ UNCHANGED <<latch, ending, shown>>

\* Dropping the worker panics.
TeardownPanics ==
    /\ outcome # Alive /\ ~outcome.panicked /\ Spend(1)
    /\ outcome' = [outcome EXCEPT !.panicked = TRUE]
    /\ StatusFails(Panicked)
    /\ UNCHANGED <<mode, latch, ending, fatal, core, call, worker, shutting>>

Gone == worker \in {"refused", "closed", "failed"} /\ UNCHANGED vars

-----------------------------------------------------------------------------
Opening ==
    \/ \E results \in Returned(Phases(FALSE, TRUE)) :
        \/ \E kind \in OpenErrors : OpenFails(kind, results)
        \/ Unsupported(results) \/ SpawnFails(results)
    \/ Opened

Connecting ==
    \E c \in Commands :
        \/ BeginRefused(c) \/ begin_connection(c)
        \/ \E kind \in StartErrors : StartRefused(c, kind)

Commanding ==
    \E c \in Commands :
        \/ PeriodicRefuses(c) \/ complete_input_candidate(c) \/ DirectRefuses(c)
        \/ \E result \in Results :
            \/ complete_direct_send(c, At(result, c.op))
            \/ BeginPeriodicTap(c, At(result, "press"))
            \/ BeginDirectTap(c, At(result, "press"))

Due ==
    \E result \in Results :
        \/ PeriodicTapEnds(At(result, "release"))
        \/ DirectTapEnds(At(result, "release"))
        \/ send_due(At(result, "report"))

Driving == MarkReady \/ TimesOut \/ \E result \in Results : Bootstrap(At(result, "bootstrap"))

Events ==
    \/ LinkUp \/ Disconnect \/ Malformed
    \/ \E result \in Results : Reply(At(result, "reply"))
    \/ \E kind \in PollErrors : PollFails(kind)

Ending == (\E r \in Requests : Request(r)) \/ Close \/ Fail \/ Panics \/ TeardownPanics

Next == Opening \/ Connecting \/ Commanding \/ Due \/ Driving \/ Events \/ Ending \/ Gone

Spec == Init /\ [][Next]_vars

-----------------------------------------------------------------------------
(* Properties *)

\* A caller learns what became of its command, and why: Ok means that nothing
\* went wrong on the way; an error that met failures below leads to the first
\* of them, although a tap may meet two and end the worker with the second;
\* and a command that was cut short says by what.
CallersAreTold ==
    /\ command # Idle => answer = Waiting
    /\ command = Idle /\ worker # "opening" => answer # Waiting
    /\ answer = Ok => met = <<>>
    /\ command = Idle /\ answer.of = "Error" /\ met # <<>> /\ cut = "no" =>
            RootCause(answer) = met[1]
    /\ command = Idle /\ answer.of = "Error" /\ met = <<>> /\ cut = "no" =>
            answer.kind \in {"InvalidInput", "TransportClosed", "WorkerFailed"}
    /\ cut # "no" => answer.of = "Error" /\
            answer.kind \in CASE cut = "timeout" -> {"ConnectionTimeout"}
                              [] cut = "link" -> {"ConnectionFailed", "Internal"}
                              [] cut = "shutdown" -> {"Shutdown"}
                              [] cut = "worker" -> {"WorkerFailed", "InvalidKeyStore"}

\* The chain of related errors as its root causes.
Roots(error) ==
    IF error = None THEN <<>>
    ELSE LET chain == <<error>> \o error.related
         IN  [i \in DOMAIN chain |-> RootCause(chain[i])]
First(results) ==
    IF Failing(results) = {} THEN <<>> ELSE <<results[Min(Failing(results))]>>

\* The end of a worker is told in the order it happened: why it failed, then
\* the first failure of the cleanup, then the panic of its thread; the status
\* names the same cause; and a transport that could not be opened reports that
\* before what its cleanup met.
EndsAreTold ==
    /\ outcome # Alive =>
        /\ Roots(map_worker_outcome(outcome)) =
                (CASE worker = "closed" -> <<>>
                   [] outcome.cause = Panicked -> <<None>>
                   [] OTHER -> First(fatal))
                \o First(shutting)
                \o (IF outcome.panicked THEN <<None>> ELSE <<>>)
        /\ failure.category =
                CASE outcome.cause # None -> worker_failure_category(outcome.cause)
                  [] outcome.cause = None /\ outcome.panicked -> "Panicked"
                  [] OTHER -> "none"
    /\ worker = "refused" => Roots(answer) = First(met) \o First(shutting)
FailuresAreTold == CallersAreTold /\ EndsAreTold

\* A transport error other than a rejected send ends the worker that met it,
\* whoever it was told to; nothing else does, but a panic; and no worker goes
\* on to meet a second one.
FatalErrorsEnd ==
    /\ Len(fatal) <= 1
    /\ worker = "running" =>
            /\ ending # None <=> fatal # <<>>
            /\ fatal # <<>> => ending = CoreTransport(fatal[1])
    /\ worker = "failed" =>
            \/ outcome.cause = Panicked
            \/ fatal # <<>> /\ outcome.cause = CoreTransport(fatal[1])

\* However a tap ends, it lets go.  Told Ok, the peer saw the release and no
\* button of the tap is held; with the link still up, Periodic holds the
\* released state even if neither report was accepted, and Direct holds what
\* the peer was last shown, which after a rejected release is the press.
TapLetsGo ==
    [][has_pending /\ ~has_pending' /\ worker' = "running" /\ lifecycle' = "Ready" =>
         /\ answer' = Ok => input' = tap.released /\ shown' = tap.released
         /\ mode = "Periodic" => input' = tap.released
         /\ mode = "Direct" => input' = shown']_vars
=============================================================================
