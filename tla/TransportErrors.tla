-------------------------- MODULE TransportErrors --------------------------
(***************************************************************************)
(* How a failure below becomes the ErrorKind a caller sees: the kinds of   *)
(* the backend, those of the transport port, the failures of the worker    *)
(* and of its commands, and the public kinds.                              *)
(***************************************************************************)
EXTENDS Naturals

BackendErrors == {"InvalidConfiguration", "OpenFailed", "InvalidControllerIdentity",
                  "IdentityMismatch", "AdapterIdentityRecoveryRequired",
                  "UnsupportedController", "InvalidBondStore", "NoBond", "Closed",
                  "SendRejected", "DrainTimedOut", "EventQueueOverflow",
                  "SourceTerminated", "ProtocolViolation", "CloseFailed"}

map_backend_error_kind(kind) ==
    CASE kind = "InvalidConfiguration" -> "OpenFailed"
      [] kind = "InvalidBondStore" -> "InvalidKeyStore"
      [] kind = "ProtocolViolation" -> "SourceTerminated"
      [] OTHER -> kind

\* Every kind of failure on open has one name.
OpenErrorUnnamed(kind) == "TransportOpen"
map_transport_open_error(kind) ==
    IF kind = "AdapterIdentityRecoveryRequired" THEN kind ELSE "TransportOpen"

\* WorkerCoreError: [of |-> "InvalidLifecycle"], [of |-> "Handshake"] or a
\* transport error [of |-> "Transport", kind |-> its kind].
Transport(kind) == [of |-> "Transport", kind |-> kind]
InvalidLifecycle == [of |-> "InvalidLifecycle", kind |-> "none"]
map_worker_core_error(error) ==
    IF error = Transport("InvalidKeyStore") THEN "InvalidKeyStore" ELSE "WorkerFailed"

map_enqueue_error(error) ==
    IF error = "Disconnected" THEN "WorkerFailed" ELSE "Internal"
\* map_command_error of the input commands; those of a connection are
\* map_connection_error's, and a Shutdown cannot be seen by a caller that waits.
map_command_error(failure) ==
    CASE failure = "Ok" -> "Ok"
      [] failure = "Input" -> "InvalidInput"
      [] failure = "NotReady" -> "TransportClosed"
      [] failure = "Transport" -> "Internal"
map_cleanup_error == "WorkerFailed"
map_worker_spawn_error == "WorkerFailed"

\* map_worker_failure of WorkerFailureCause::Core
map_worker_failure(error) == map_worker_core_error(error)

\* map_worker_outcome: a closed worker reports what its cleanup met, a failed
\* one its cause.
map_worker_outcome(outcome) ==
    CASE outcome.of = "Closed" -> IF outcome.clean THEN "Ok" ELSE map_cleanup_error
      [] outcome.of = "Failed" -> map_worker_failure(outcome.cause)

map_connection_readiness_error(error) ==
    CASE error = "TimedOut" -> "ConnectionTimeout"
      [] error \in {"Disconnected", "Scheduler"} -> "ConnectionFailed"
      [] error \in {"StaleSession", "HandshakeSessionMismatch"} -> "Protocol"

\* ConnectionCommandFailure
Begin(error) == [at |-> "Begin", error |-> error]
Readiness(error) == [at |-> "Readiness", error |-> error]

AnyBeginIsWorker(command, failure) ==
    CASE failure.at = "Begin" -> map_worker_core_error(failure.error)
      [] failure.at = "Readiness" -> map_connection_readiness_error(failure.error)
      [] failure.at = "InvalidKeyStore" -> "InvalidKeyStore"
      [] failure.at = "WorkerFailed" -> "WorkerFailed"
map_connection_error(command, failure) ==
    CASE failure.at = "Begin" ->
            IF command = "Reconnect" /\ failure.error = Transport("NoBond")
            THEN "NoBond" ELSE map_worker_core_error(failure.error)
      [] failure.at = "Readiness" -> map_connection_readiness_error(failure.error)
      [] failure.at = "InvalidKeyStore" -> "InvalidKeyStore"
      [] failure.at = "WorkerFailed" -> "WorkerFailed"

\* WorkerCore::fail: what the connection command is told when the worker fails.
connection_failure(error) ==
    [at |-> IF error = Transport("InvalidKeyStore") THEN "InvalidKeyStore"
            ELSE "WorkerFailed"]
=============================================================================
