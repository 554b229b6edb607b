---------------------------- MODULE ProPeriodic ----------------------------
(* The pro-periodic scenario: a Pro Controller pairs into a new profile,     *)
(* runs through its inputs and is closed; then the profile must be valid     *)
(* and, only if it is, the adapter must open again.                         *)
EXTENDS HardwareSupport

parse_args(arguments) ==
    LET given == KeyValueArguments(arguments,
                   {"--adapter", "--profile", "--pair-timeout-secs", "--run"})
        Has(flag, Valid(_)) == Required(given, flag) /\ Valid(given[flag])
    IN  IF IsUsage(given) THEN given
        ELSE IF /\ Has("--adapter", NotEmpty) /\ Has("--profile", NotEmpty)
                /\ Has("--pair-timeout-secs", LAMBDA v : InRange(v, 1, 600))
                /\ Has("--run", LAMBDA v : InRange(v, 1, 20))
        THEN [name |-> "pro-periodic", profile |-> given["--profile"]]
        ELSE UsageError("invalid")

\* Two kinds have no name of their own in this evidence.
Unnamed == {"InvalidKeyStore", "NoBond"}

evidence_dimensions == [run_index |-> 1]
Event(event, fields) == evidence_event(evidence_dimensions, event, fields)
ControllerFailure(operation, kind) ==
    controller_failure_event(evidence_dimensions, operation, target_name(Unnamed, kind))
FixedFailure(operation, kind) == fixed_failure(evidence_dimensions, operation, kind)
Complete(success, events) == Completes(evidence_dimensions, success, events)
Here(label) == At("pro-periodic", label)

settle_periodic == <<"sleep">>
Operation(name, calls) == [name |-> name, calls |-> calls]
run_input_sequence ==
    LET Tap(name) == Operation(name, <<"tap">> \o settle_periodic)
        Hold(name) == Operation(name, <<"apply", "sleep", "neutral">> \o settle_periodic)
    IN  <<Tap("a_500ms"), Tap("l_plus_r_500ms"),
          Hold("left_stick_up_500ms"), Hold("left_stick_right_500ms"),
          Hold("left_stick_down_500ms"), Hold("left_stick_left_500ms"),
          Hold("right_stick_up_500ms"), Hold("right_stick_right_500ms"),
          Hold("right_stick_down_500ms"), Hold("right_stick_left_500ms"),
          Hold("imu_non_neutral_1000ms"),
          Operation("explicit_neutral", <<"neutral">> \o settle_periodic)>>

Preflight ==
    /\ Here("start")
    /\ LET content == world.disk[tool.job.profile]
       IN  IF content = Absent THEN Goes("pair", <<>>) /\ UNCHANGED world
           ELSE /\ Complete(FALSE, <<FixedFailure("profile_preflight",
                       IF content = Unreadable THEN "filesystem" ELSE "target_exists")>>)
                /\ dropped

create_profile ==
    /\ Here("pair")
    /\ \E made \in Creations(tool.job.profile) :
        /\ created(tool.job.profile, "Pro", made[1], made[2])
        /\ IF made[1] = "Ok"
           THEN tool' = [tool EXCEPT !.at = "input", !.todo = run_input_sequence,
                                     !.passed = @ \cup {"created"},
                                     !.log = Append(@, Event("pair_ready", NoFields))]
           ELSE Goes("validate", <<ControllerFailure("create_profile", made[1])>>)

operation_start ==
    /\ Here("input") /\ tool.todo # <<>>
    /\ tool' = [tool EXCEPT !.at = "operation", !.calls = Head(tool.todo).calls]
    /\ UNCHANGED world
OperationCall ==
    /\ Here("operation") /\ tool.calls # <<>> /\ UNCHANGED world
    /\ \E outcome \in Inputs("Periodic", Head(tool.calls)) :
        IF outcome = "Ok" THEN tool' = [tool EXCEPT !.calls = Tail(@)]
        ELSE Goes("close", <<ControllerFailure(Head(tool.todo).name, outcome)>>)
run_operation ==
    /\ Here("operation") /\ tool.calls = <<>> /\ UNCHANGED world
    /\ tool' = [tool EXCEPT !.at = "input", !.todo = Tail(@),
          !.log = Append(@, Event("operation_complete", [operation |-> Head(tool.todo).name]))]
InputDone ==
    /\ Here("input") /\ tool.todo = <<>>
    /\ Passes("input", "close", <<>>) /\ UNCHANGED world

close_controller ==
    /\ Here("close") /\ closed("run")
    /\ \E outcome \in {"Ok"} \cup CallErrors :
        IF outcome = "Ok" THEN Passes("close", "validate", <<Event("close_complete", NoFields)>>)
        ELSE Goes("validate", <<ControllerFailure("close", outcome)>>)

\* A profile that is not valid is not used to open the adapter.
validate_profile ==
    /\ Here("validate") /\ UNCHANGED world
    /\ LET result == build(tool.job.profile, "Pro")
       IN  IF result = "Ok" THEN Passes("valid", "reopen", <<Event("profile_validation", NoFields)>>)
           ELSE Goes("complete", <<ControllerFailure("profile_validation", result)>>)

VerifyReopen ==
    /\ tool.job.name = "pro-periodic"
    /\ verify_adapter_reopen(evidence_dimensions, "Pro", Unnamed, "complete")

\* What a run has to pass
PassingUnclosed == {"created", "input", "valid", "reopen"}
Passing == {"created", "input", "close", "valid", "reopen"}

\* A run whose pairing failed ends in failure even when the adapter opened.
Finish ==
    /\ Here("complete") /\ dropped
    /\ Complete(Passing \subseteq tool.passed,
                IF "created" \notin tool.passed /\ "reopen" \in tool.passed
                THEN <<Event("failed_run_cleanup_verified", NoFields)>> ELSE <<>>)

run_hardware ==
    \/ Preflight \/ create_profile \/ operation_start \/ OperationCall \/ run_operation
    \/ InputDone \/ close_controller \/ validate_profile \/ VerifyReopen \/ Finish
=============================================================================
