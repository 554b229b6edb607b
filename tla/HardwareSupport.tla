-------------------------- MODULE HardwareSupport --------------------------
(* support.rs of the hardware runner: its arguments, its evidence and the   *)
(* check that the adapter can be opened again.                              *)
EXTENDS ToolLibrary

(***************************************************************************)
(* Arguments                                                               *)
(***************************************************************************)

UsageError(message) == [usage |-> message]
IsUsage(parsed) == "usage" \in DOMAIN parsed

\* The first flag that has no value, is not allowed or comes again.
ArgumentFault(arguments, allowed, i) ==
    LET flag(k) == arguments[2 * k - 1]
    IN  IF 2 * i > Len(arguments) THEN "argument value is missing"
        ELSE IF flag(i) \notin allowed THEN "unknown argument"
        ELSE IF \E k \in 1 .. i - 1 : flag(k) = flag(i) THEN "duplicate argument"
        ELSE "none"
KeyValueArguments(arguments, allowed) ==
    LET flags == 1 .. (Len(arguments) + 1) \div 2
        faults == {i \in flags : ArgumentFault(arguments, allowed, i) # "none"}
    IN  IF faults # {} THEN UsageError(ArgumentFault(arguments, allowed, Min(faults)))
        ELSE [flag \in {arguments[2 * i - 1] : i \in flags} |->
                arguments[2 * (CHOOSE i \in flags : arguments[2 * i - 1] = flag)]]

\* A flag that must be there, with a value of the expected form.
Required(given, flag) == flag \in DOMAIN given
Optional(given, flag, default) == IF flag \in DOMAIN given THEN given[flag] ELSE default
NotEmpty(text) == text # ""

\* str::parse of the numbers that occur
Numbers == [text \in {ToString(n) : n \in {0, 1, 20, 21, 99, 100, 600, 601, 10000, 10001}} |->
              CHOOSE n \in {0, 1, 20, 21, 99, 100, 600, 601, 10000, 10001} : ToString(n) = text]
InRange(text, low, high) == text \in DOMAIN Numbers /\ Numbers[text] \in low .. high

(***************************************************************************)
(* Evidence                                                                *)
(***************************************************************************)

error_kind_name(kind) ==
    CASE kind = "AdapterDiscovery" -> "adapter_discovery"
      [] kind = "TransportOpen" -> "transport_open"
      [] kind = "AdapterIdentityRecoveryRequired" -> "adapter_identity_recovery_required"
      [] kind = "ProfilePathRequired" -> "profile_path_required"
      [] kind = "ProfileNotFound" -> "profile_not_found"
      [] kind = "ProfileAlreadyExists" -> "profile_already_exists"
      [] kind = "InvalidProfile" -> "invalid_profile"
      [] kind = "ProfileControllerMismatch" -> "profile_controller_mismatch"
      [] kind = "InvalidKeyStore" -> "invalid_key_store"
      [] kind = "TransportClosed" -> "transport_closed"
      [] kind = "NoBond" -> "no_bond"
      [] kind = "ConnectionTimeout" -> "connection_timeout"
      [] kind = "ConnectionFailed" -> "connection_failed"
      [] kind = "Protocol" -> "protocol"
      [] kind = "InvalidInput" -> "invalid_input"
      [] kind = "UnsupportedInput" -> "unsupported_input"
      [] kind = "UnsupportedCapability" -> "unsupported_capability"
      [] kind = "WorkerFailed" -> "worker_failed"
      [] kind = "Shutdown" -> "shutdown"
      [] kind = "Internal" -> "internal"
      [] OTHER -> "unknown"

\* A scenario may have no name for some kinds.
target_name(unnamed, kind) == IF kind \in unnamed THEN "unknown" ELSE error_kind_name(kind)

\* A field of the frame wins over a dimension of the scenario, and that over a
\* field of the event.
evidence_event(dimensions, event, fields) ==
    [name \in {"schema_version", "event"} \cup DOMAIN dimensions \cup DOMAIN fields |->
        CASE name = "schema_version" -> 1
          [] name = "event" -> event
          [] OTHER -> IF name \in DOMAIN dimensions THEN dimensions[name] ELSE fields[name]]
NoFields == [schema_version |-> 1]

controller_failure_event(dimensions, operation, name) ==
    evidence_event(dimensions, "operation_failure",
                   [operation |-> operation, error_kind |-> name])
fixed_failure(dimensions, operation, kind) ==
    evidence_event(dimensions, "operation_failure",
                   [operation |-> operation, error_kind |-> kind])
completion_event(dimensions, success) ==
    evidence_event(dimensions, "runner_complete", [success |-> success])

(***************************************************************************)
(* Steps of a scenario                                                     *)
(***************************************************************************)

At(name, label) == tool.job.name = name /\ tool.at = label

\* The program goes on with some evidence written.
Goes(label, events) == tool' = [tool EXCEPT !.at = label, !.log = @ \o events]
Passes(check, label, events) ==
    tool' = [tool EXCEPT !.at = label, !.log = @ \o events, !.passed = @ \cup {check}]

\* The last event, the exit code, and the controllers dropped.
Completes(dimensions, success, events) ==
    /\ tool' = [tool EXCEPT !.at = "done", !.log = @ \o Append(events, completion_event(dimensions, success)),
                            !.exit = IF success THEN 0 ELSE 1]

\* verify_adapter_reopen: a second controller is built, opened and closed.
reopen_build(dimensions, model, unnamed, after) ==
    /\ tool.at = "reopen"
    /\ LET result == build(tool.job.profile, model)
           start == evidence_event(dimensions, "adapter_reopen_start", NoFields)
       IN  IF result = "Ok" THEN Goes("reopen_open", <<start>>)
           ELSE Goes(after, <<start, controller_failure_event(dimensions,
                                        "adapter_reopen_build", target_name(unnamed, result))>>)
    /\ UNCHANGED world
reopen_open(dimensions, unnamed, after) ==
    /\ tool.at = "reopen_open"
    /\ \E outcome \in Opens :
        /\ opened("reopen", outcome)
        /\ IF outcome = "Ok" THEN Goes("reopen_close", <<>>)
           ELSE Goes(after, <<controller_failure_event(dimensions, "adapter_reopen_open",
                                                       target_name(unnamed, outcome))>>)
reopen_close(dimensions, unnamed, after) ==
    /\ tool.at = "reopen_close" /\ closed("reopen")
    /\ \E outcome \in {"Ok"} \cup CallErrors :
        IF outcome = "Ok"
        THEN Passes("reopen", after,
                    <<evidence_event(dimensions, "adapter_reopen_complete", NoFields)>>)
        ELSE Goes(after, <<controller_failure_event(dimensions, "adapter_reopen_close",
                                                    target_name(unnamed, outcome))>>)
verify_adapter_reopen(dimensions, model, unnamed, after) ==
    \/ reopen_build(dimensions, model, unnamed, after)
    \/ reopen_open(dimensions, unnamed, after)
    \/ reopen_close(dimensions, unnamed, after)

\* write_event: evidence that cannot be written stops the program.
write_event ==
    /\ Running /\ tool.job.name \in {"pro-periodic", "pro-profile", "joycon-profile"}
    /\ tool' = [tool EXCEPT !.at = "done", !.exit = 101] /\ dropped
=============================================================================
