---------------------------- MODULE CommandErrors ----------------------------
(***************************************************************************)
(* The errors of the worker as values: what each one carries, what its     *)
(* source is, which of them end the worker, and the public Error a caller  *)
(* gets for one, with the failures related to it.  TransportErrors knows   *)
(* the kinds only; here two failures of one kind are told apart by where   *)
(* they happened.                                                          *)
(***************************************************************************)
EXTENDS Naturals, Sequences

Kinds == INSTANCE TransportErrors

\* Option::None
None == [of |-> "None"]

\* A TransportError: its kind, and what was being done.
TransportError(kind, at) == [of |-> "TransportError", kind |-> kind, at |-> at]

\* The one kind after which the worker carries on: a send without capacity.
Survivable(error) == error.kind = "SendRejected"

\* PeriodicError and DirectTapError, their three shapes each, without the
\* scheduler's, which no deadline of a running system reaches.
PeriodicNotReady == [of |-> "Periodic", is |-> "NotReady", error |-> None,
                     later_terminal |-> None]
PeriodicTransport(error, later_terminal) ==
    [of |-> "Periodic", is |-> "Transport", error |-> error,
     later_terminal |-> later_terminal]
DirectNotReady == [of |-> "Direct", is |-> "NotReady", error |-> None]
DirectTransport(error) == [of |-> "Direct", is |-> "Transport", error |-> error]
DirectInterrupted(by) == [of |-> "Direct", is |-> by, error |-> None]

\* OutputHandlingError
OutputProtocol == [of |-> "Output", is |-> "Protocol", error |-> None]
OutputTransport(error) == [of |-> "Output", is |-> "Transport", error |-> error]

\* WorkerCommandError, beside the two above
Input == [of |-> "Input"]
Connection(command, failure) ==
    [of |-> "Connection", command |-> command, failure |-> failure]
Shutdown == [of |-> "Shutdown"]
Disconnected == [of |-> "Disconnected"]

\* WorkerCoreError
CoreTransport(error) == [of |-> "CoreTransport", error |-> error]
InvalidLifecycle == [of |-> "InvalidLifecycle"]

\* ConnectionCommandFailure
Begin(error) == [at |-> "Begin", error |-> error]
Readiness(error) == [at |-> "Readiness", error |-> error]
ConnectionEnds(at) == [at |-> at, error |-> None]

CleanupFailure(error) == [of |-> "Cleanup", error |-> error]

-----------------------------------------------------------------------------
(* The public Error.  `related` is the chain of related_error, outermost    *)
(* first.                                                                   *)

WithSource(kind, cause) ==
    [of |-> "Error", kind |-> kind, source |-> cause, related |-> <<>>]
New(kind) == WithSource(kind, None)

with_related(error, related) ==
    [error EXCEPT !.related =
        @ \o <<[related EXCEPT !.related = <<>>]>> \o related.related]

with_cleanup_error(primary, cleanup) ==
    IF cleanup = None THEN primary ELSE with_related(primary, cleanup)

\* std::error::Error::source of each type
PeriodicSource(error) == error.error
DirectSource(error) == IF error.is = "Transport" THEN error.error ELSE None
OutputSource(error) == error.error
CleanupSource(error) == error.error
ReadinessSource(error) == None
source(error) ==
    CASE error.of = "Error" -> error.source
      [] error.of = "Periodic" -> PeriodicSource(error)
      [] error.of = "Direct" -> DirectSource(error)
      [] error.of = "Output" -> OutputSource(error)
      [] error.of = "Cleanup" -> CleanupSource(error)
      [] error.of = "Readiness" -> ReadinessSource(error)
      [] OTHER -> None

\* Where the chain of sources ends; no chain of the worker has more than two.
RootCause(error) ==
    LET cause == source(error)
    IN  IF cause = None \/ source(cause) = None THEN cause ELSE source(cause)

-----------------------------------------------------------------------------
(* Which errors end the worker: `ends` is the WorkerCoreError, or None, and *)
(* `told` what is left of the error for whoever waits for the operation.    *)

Goes(error) == [ends |-> None, told |-> error]

\* A tap whose press was rejected and whose release met a terminal error
\* reports the first and ends the worker with the second.
ClassifiedByFirst(error) ==
    IF error.is = "Transport" /\ ~Survivable(error.error)
    THEN [ends |-> CoreTransport(error.error), told |-> error] ELSE Goes(error)
classify_periodic_error(error) ==
    CASE error.later_terminal # None ->
            [ends |-> CoreTransport(error.later_terminal),
             told |-> PeriodicTransport(error.error, None)]
      [] error.later_terminal = None /\ error.is = "Transport"
            /\ ~Survivable(error.error) ->
            [ends |-> CoreTransport(error.error), told |-> error]
      [] OTHER -> Goes(error)

nonterminal_operation_error(error) ==
    CASE error.of = "Output" /\ error.is = "Transport" /\ ~Survivable(error.error) ->
            [ends |-> CoreTransport(error.error), told |-> error]
      [] error.of = "Periodic" -> classify_periodic_error(error)
      [] OTHER -> Goes(error)

\* record_operation_error: the step keeps the error and ends if it has to.
record_operation_error(error) == nonterminal_operation_error(error).ends

nonterminal_command_progress(error) ==
    CASE error.of = "Direct" /\ error.is = "Transport" /\ ~Survivable(error.error) ->
            [ends |-> CoreTransport(error.error), told |-> error]
      [] error.of = "Periodic" -> classify_periodic_error(error)
      [] OTHER -> Goes(error)

-----------------------------------------------------------------------------
(* error_map.rs *)

CoreKind(core) ==
    IF core.of = "CoreTransport" THEN Kinds!Transport(core.error.kind)
    ELSE Kinds!InvalidLifecycle
map_worker_core_error(core) ==
    WithSource(Kinds!map_worker_core_error(CoreKind(core)),
               IF core.of = "CoreTransport" THEN core.error ELSE None)

map_connection_error(command, failure) ==
    CASE failure.at = "Begin" ->
            WithSource(
                Kinds!map_connection_error(command,
                    Kinds!Begin(CoreKind(failure.error))),
                map_worker_core_error(failure.error).source)
      [] failure.at = "Readiness" ->
            WithSource(Kinds!map_connection_readiness_error(failure.error),
                       [of |-> "Readiness", is |-> failure.error])
      [] OTHER -> New(failure.at)

\* A command interrupted by a disconnection is Internal in both policies, with
\* a source in Direct only.
map_command_error(error) ==
    CASE error.of = "Input" -> New("InvalidInput")
      [] error.of = "Shutdown" \/ (error.of = "Direct" /\ error.is = "Shutdown") ->
            New("Shutdown")
      [] error.of = "Connection" -> map_connection_error(error.command, error.failure)
      [] error.of \in {"Direct", "Periodic"} /\ error.is = "NotReady" ->
            New("TransportClosed")
      [] error.of \in {"Direct", "Periodic"} /\ error.is \notin {"NotReady", "Shutdown"} ->
            WithSource("Internal", error)
      [] error.of = "Disconnected" -> New("Internal")

map_response_error == New("WorkerFailed")
map_join_error == WithSource("WorkerFailed", None)
map_cleanup_error(failure) ==
    WithSource(Kinds!map_cleanup_error, failure)

\* WorkerFailureCause: the core's error or a panic.
map_worker_failure(cause) ==
    IF cause.of = "Panicked" THEN New("WorkerFailed") ELSE map_worker_core_error(cause)

\* WorkerThreadOutcome: how the loop ended, the cause of a failure, what the
\* cleanup met first and whether the thread panicked.
related_failures(outcome) ==
    (IF outcome.cleanup = None THEN <<>> ELSE <<map_cleanup_error(outcome.cleanup)>>)
    \o (IF outcome.panicked THEN <<map_join_error>> ELSE <<>>)
Linked(first, rest) == [first EXCEPT !.related = @ \o rest]
map_worker_outcome(outcome) ==
    LET errors == related_failures(outcome)
    IN  IF outcome.cause # None THEN Linked(map_worker_failure(outcome.cause), errors)
        ELSE IF errors = <<>> THEN None ELSE Linked(Head(errors), Tail(errors))

map_transport_open_error(error) ==
    WithSource(Kinds!map_transport_open_error(error.kind), error)
map_worker_spawn_error(cleanup) ==
    with_cleanup_error(WithSource("WorkerFailed", [of |-> "io"]),
        IF cleanup = None THEN None ELSE map_cleanup_error(cleanup))

-----------------------------------------------------------------------------
(* What the status says of a failed worker *)

worker_failure_category(cause) ==
    CASE cause.of = "CoreTransport" -> "Transport"
      [] cause.of = "Panicked" -> "Panicked"
      [] OTHER -> "Internal"
status_message(core) ==
    CASE core.of = "InvalidLifecycle" -> "lifecycle"
      [] core.of = "CoreTransport" /\ core.error.kind = "InvalidKeyStore" -> "key store"
      [] OTHER -> "transport"
worker_failure_status(cause) ==
    IF cause.of = "Panicked" THEN "panicked" ELSE status_message(cause)
=============================================================================
