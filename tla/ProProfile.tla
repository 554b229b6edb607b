----------------------------- MODULE ProProfile -----------------------------
(* The pro-profile scenario: a Pro Controller reconnects with an existing   *)
(* profile; with the stale-bond setup it uses a copy whose link key was      *)
(* changed, and the reconnection must fail.                                 *)
EXTENDS HardwareSupport

parse_args(arguments) ==
    LET given == KeyValueArguments(arguments,
                   {"--adapter", "--profile", "--stale-source-profile", "--mode",
                    "--setup", "--connect-timeout-secs", "--run"})
        Has(flag, Valid(_)) == Required(given, flag) /\ Valid(given[flag])
        source == Optional(given, "--stale-source-profile", "none")
    IN  IF IsUsage(given) THEN given
        ELSE IF /\ Has("--adapter", NotEmpty) /\ Has("--profile", NotEmpty)
                /\ Has("--mode", LAMBDA v : v \in {"periodic", "direct"})
                /\ Has("--setup", LAMBDA v : v \in {"normal", "post-power-cycle", "stale-bond"})
                /\ Has("--connect-timeout-secs", LAMBDA v : InRange(v, 1, 600))
                /\ Has("--run", LAMBDA v : InRange(v, 1, 99))
                /\ IF given["--setup"] = "stale-bond"
                   THEN source \notin {"none", given["--profile"]} ELSE source = "none"
        THEN [name |-> "pro-profile", profile |-> given["--profile"], source |-> source,
              mode |-> IF given["--mode"] = "periodic" THEN "Periodic" ELSE "Direct",
              setup |-> given["--setup"]]
        ELSE UsageError("invalid")

expects_connection(job) == job.setup # "stale-bond"

evidence_dimensions == [mode |-> tool.job.mode, operator_setup |-> tool.job.setup]
Event(event, fields) == evidence_event(evidence_dimensions, event, fields)
ControllerFailure(operation, kind) ==
    controller_failure_event(evidence_dimensions, operation, error_kind_name(kind))
FixedFailure(operation, kind) == fixed_failure(evidence_dimensions, operation, kind)
Complete(success, events) == Completes(evidence_dimensions, success, events)
Here(label) == At("pro-profile", label)

(***************************************************************************)
(* The controller                                                          *)
(***************************************************************************)

tap == <<"tap">>
send_state(mode) == IF mode = "Periodic" THEN <<"apply">> ELSE <<"send">>
neutral == <<"neutral">>
settle(mode) == IF mode = "Periodic" THEN <<"sleep">> ELSE <<>>

Operation(name, calls) == [name |-> name, calls |-> calls]
run_input_sequence(mode) ==
    LET Tap(name) == Operation(name, tap \o settle(mode))
        Hold(name) == Operation(name, send_state(mode) \o <<"sleep">> \o neutral \o settle(mode))
    IN  <<Tap("a_500ms"), Tap("l_plus_r_500ms"),
          Hold("left_stick_up_500ms"), Hold("left_stick_right_500ms"),
          Hold("left_stick_down_500ms"), Hold("left_stick_left_500ms"),
          Hold("right_stick_up_500ms"), Hold("right_stick_right_500ms"),
          Hold("right_stick_down_500ms"), Hold("right_stick_left_500ms"),
          Operation("explicit_neutral", neutral \o settle(mode))>>

(***************************************************************************)
(* The profile                                                             *)
(***************************************************************************)

\* The copy differs from its source in the first digit of the one link key.
StaleFault(content) ==
    CASE content = Empty -> "stale_source_invalid_json"
      [] content.model = "none" -> "stale_source_invalid_namespaces"
      [] content.namespaces # 1 -> "stale_source_requires_one_namespace"
      [] content.peers # 1 -> "stale_source_requires_one_peer"
      [] content.key = "short" -> "stale_source_invalid_link_key"
      [] OTHER -> "none"
stale_profile_bytes(content) ==
    [content EXCEPT !.key = IF content.key = "0" THEN "1" ELSE "0"]

Source == world.disk[tool.job.source]
PreflightOverwrites ==
    IF expects_connection(tool.job)
    THEN IF IsFile(world.disk[tool.job.profile]) THEN "none" ELSE "profile_read"
    ELSE IF ~IsFile(Source) THEN "stale_source_read" ELSE StaleFault(Source)
PreflightFault ==
    IF expects_connection(tool.job)
    THEN IF IsFile(world.disk[tool.job.profile]) THEN "none" ELSE "profile_read"
    ELSE IF ~IsFile(Source) THEN "stale_source_read"
    ELSE IF StaleFault(Source) # "none" THEN StaleFault(Source)
    ELSE IF world.disk[tool.job.profile] # Absent THEN "stale_target_create"
    ELSE "none"
prepare_profile ==
    /\ Here("start")
    /\ IF PreflightFault # "none"
       THEN Complete(FALSE, <<FixedFailure("profile_preflight", PreflightFault)>>) /\ dropped
       ELSE IF expects_connection(tool.job)
       THEN /\ tool' = [tool EXCEPT !.at = "build", !.before = <<world.disk[tool.job.profile]>>]
            /\ UNCHANGED world
       ELSE LET stale == stale_profile_bytes(Source)
            IN  /\ world' = [world EXCEPT !.disk[tool.job.profile] = stale]
                /\ tool' = [tool EXCEPT !.at = "build", !.before = <<stale, Source>>]
\* A copy that is created and not stored is left behind.
StaleCopyFails ==
    /\ Here("start") /\ PreflightFault = "none" /\ ~expects_connection(tool.job)
    /\ \E fault \in {"stale_target_write", "stale_target_sync"} :
        Complete(FALSE, <<FixedFailure("profile_preflight", fault)>>)
    /\ world' = [world EXCEPT !.disk[tool.job.profile] = Empty, !.held = {}, !.linked = FALSE]

\* The target as it was prepared, and the source of a stale copy as it was read
Unchanged ==
    /\ world.disk[tool.job.profile] = tool.before[1]
    /\ Len(tool.before) = 2 => Source = tool.before[2]
ProfileSaidUnchanged == Event("profile_postflight", [target_unchanged |-> TRUE])
verify_profile_unchanged == Event("profile_postflight", [target_unchanged |-> Unchanged])

(***************************************************************************)
(* The run                                                                 *)
(***************************************************************************)

BuildRun ==
    /\ Here("build")
    /\ LET result == build(tool.job.profile, "Pro")
       IN  IF result = "Ok" THEN Goes("open", <<>>) /\ UNCHANGED world
           ELSE Complete(FALSE, <<ControllerFailure("profile_build", result)>>) /\ dropped

open ==
    /\ Here("open")
    /\ \E outcome \in Opens :
        IF outcome = "Ok" THEN opened("run", outcome) /\ Goes("reconnect", <<>>)
        ELSE Complete(FALSE, <<ControllerFailure("open", outcome)>>) /\ dropped

\* Where a reconnection leads: with a stale bond only a connection that fails
\* or times out is what was expected.
AfterReconnectKeepsOpen(outcome) ==
    IF outcome = "Ok" THEN IF expects_connection(tool.job) THEN "idle" ELSE "close_unexpected"
    ELSE IF expects_connection(tool.job) THEN "close_failed" ELSE "reopen"
AfterReconnect(outcome) ==
    IF outcome = "Ok" THEN IF expects_connection(tool.job) THEN "idle" ELSE "close_unexpected"
    ELSE IF ~expects_connection(tool.job) /\ outcome \in {"ConnectionFailed", "ConnectionTimeout"}
    THEN "close_expected" ELSE "close_failed"
reconnect ==
    /\ Here("reconnect")
    /\ \E outcome \in Reconnects(tool.job.profile) :
        /\ reconnected(tool.job.profile, outcome)
        /\ Goes(AfterReconnect(outcome),
                CASE AfterReconnect(outcome) = "close_unexpected" ->
                        <<FixedFailure("reconnect", "unexpected_stale_bond_success")>>
                  [] AfterReconnect(outcome) = "close_failed" ->
                        <<ControllerFailure("reconnect", outcome)>>
                  [] AfterReconnect(outcome) = "close_expected" ->
                        <<Event("expected_reconnect_failure",
                                [error_kind |-> error_kind_name(outcome)])>>
                  [] OTHER -> <<Event("reconnect_ready", NoFields)>>)

UnexpectedSuccess ==
    /\ Here("close_unexpected") /\ dropped /\ Complete(FALSE, <<>>)
close_without_neutral ==
    /\ Here("close_failed") /\ dropped /\ Complete(FALSE, <<verify_profile_unchanged>>)

verify_direct_idle ==
    /\ Here("idle") /\ UNCHANGED world
    /\ \E delta \in Deltas :
        LET ok == tool.job.mode = "Periodic" \/ delta = 0
        IN  tool' = [tool EXCEPT
              !.at = "input", !.todo = run_input_sequence(tool.job.mode),
              !.passed = IF ok THEN @ \cup {"idle"} ELSE @,
              !.log = IF tool.job.mode = "Periodic" THEN @
                      ELSE Append(@, Event("direct_idle_complete",
                                           [input_reports_accepted_delta |-> delta]))]

operation_start ==
    /\ Here("input") /\ tool.todo # <<>>
    /\ tool' = [tool EXCEPT !.at = "operation", !.calls = Head(tool.todo).calls]
    /\ UNCHANGED world
OperationCall ==
    /\ Here("operation") /\ tool.calls # <<>> /\ UNCHANGED world
    /\ \E outcome \in Inputs(tool.job.mode, Head(tool.calls)) :
        IF outcome = "Ok" THEN tool' = [tool EXCEPT !.calls = Tail(@)]
        ELSE Goes("close", <<ControllerFailure(Head(tool.todo).name, outcome)>>)
\* What the console took is written down and not looked at.
run_operation ==
    /\ Here("operation") /\ tool.calls = <<>> /\ UNCHANGED world
    /\ tool' = [tool EXCEPT !.at = "input", !.todo = Tail(@),
          !.log = Append(@, Event("operation_complete", [operation |-> Head(tool.todo).name]))]
InputDone ==
    /\ Here("input") /\ tool.todo = <<>>
    /\ Passes("input", "close", <<>>) /\ UNCHANGED world

\* The close after the input and that after the expected failure.
close_controller ==
    /\ Here("close") \/ Here("close_expected")
    /\ closed("run")
    /\ LET closes == IF tool.at = "close_expected" THEN {"idle", "input", "close"} ELSE {"close"}
       IN  \E outcome \in {"Ok"} \cup CallErrors :
            tool' = [tool EXCEPT
              !.at = "reopen",
              !.passed = @ \cup (IF outcome = "Ok" THEN closes ELSE closes \ {"close"}),
              !.log = Append(@, IF outcome = "Ok" THEN Event("close_complete", NoFields)
                                ELSE ControllerFailure("close", outcome))]

VerifyReopen ==
    /\ tool.job.name = "pro-profile"
    /\ verify_adapter_reopen(evidence_dimensions, "Pro", {}, "postflight")

Postflight ==
    /\ Here("postflight") /\ dropped
    /\ Complete(Unchanged /\ {"idle", "input", "close", "reopen"} \subseteq tool.passed,
                <<verify_profile_unchanged>>)

run_hardware ==
    \/ prepare_profile \/ StaleCopyFails \/ BuildRun \/ open \/ reconnect \/ UnexpectedSuccess
    \/ close_without_neutral \/ verify_direct_idle \/ operation_start \/ OperationCall
    \/ run_operation \/ InputDone \/ close_controller \/ VerifyReopen \/ Postflight
=============================================================================
