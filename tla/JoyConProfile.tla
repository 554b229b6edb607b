--------------------------- MODULE JoyConProfile ---------------------------
(* The joycon-profile scenario: a Joy-Con pairs into a new profile or       *)
(* reconnects with one, runs through its inputs and is closed; then the     *)
(* adapter must open again and the profile must be for this model only.     *)
EXTENDS HardwareSupport

parse_args(arguments) ==
    LET given == KeyValueArguments(arguments,
                   {"--adapter", "--profile", "--model", "--mode", "--connection",
                    "--timeout-secs", "--pre-input-idle-ms", "--run"})
        Has(flag, Valid(_)) == Required(given, flag) /\ Valid(given[flag])
    IN  IF IsUsage(given) THEN given
        ELSE IF /\ Has("--adapter", NotEmpty) /\ Has("--profile", NotEmpty)
                /\ Has("--model", LAMBDA v : v \in {"left", "right"})
                /\ Has("--mode", LAMBDA v : v \in {"periodic", "direct"})
                /\ Has("--connection", LAMBDA v : v \in {"pair", "reconnect"})
                /\ ~(given["--connection"] = "pair" /\ given["--mode"] # "periodic")
                /\ Has("--timeout-secs", LAMBDA v : InRange(v, 1, 600))
                /\ InRange(Optional(given, "--pre-input-idle-ms", "0"), 0, 10000)
                /\ Has("--run", LAMBDA v : InRange(v, 1, 99))
        THEN [name |-> "joycon-profile", profile |-> given["--profile"],
              model |-> IF given["--model"] = "left" THEN "JoyConL" ELSE "JoyConR",
              mode |-> IF given["--mode"] = "periodic" THEN "Periodic" ELSE "Direct",
              connection |-> given["--connection"],
              idle |-> Numbers[Optional(given, "--pre-input-idle-ms", "0")] > 0]
        ELSE UsageError("invalid")

evidence_dimensions ==
    [model |-> tool.job.model, mode |-> tool.job.mode, connection |-> tool.job.connection]
Event(event, fields) == evidence_event(evidence_dimensions, event, fields)
ControllerFailure(operation, kind) ==
    controller_failure_event(evidence_dimensions, operation, error_kind_name(kind))
FixedFailure(operation, kind) == fixed_failure(evidence_dimensions, operation, kind)
Complete(success, events) == Completes(evidence_dimensions, success, events)
Here(label) == At("joycon-profile", label)

(***************************************************************************)
(* The controller                                                          *)
(***************************************************************************)

\* Periodic holds a button by pressing and releasing it, Direct taps.
tap_left(mode) == IF mode = "Periodic" THEN <<"press", "sleep", "release">> ELSE <<"tap">>
tap_right(mode) == IF mode = "Periodic" THEN <<"press", "sleep", "release">> ELSE <<"tap">>
send_left(mode) == IF mode = "Periodic" THEN <<"apply">> ELSE <<"send">>
send_right(mode) == IF mode = "Periodic" THEN <<"apply">> ELSE <<"send">>
neutral == <<"neutral">>
settle(mode) == IF mode = "Periodic" THEN <<"sleep">> ELSE <<>>

Operation(name, calls) == [name |-> name, calls |-> calls]
run_explicit_neutral(mode) == <<Operation("explicit_neutral", neutral \o settle(mode))>>

run_left_input_sequence(mode) ==
    LET Tap(name) == Operation(name, tap_left(mode) \o settle(mode))
        Hold(name) == Operation(name, send_left(mode) \o <<"sleep">> \o neutral \o settle(mode))
    IN  <<Tap("dpad_up_500ms"), Tap("dpad_right_500ms"), Tap("dpad_down_500ms"),
          Tap("dpad_left_500ms"), Tap("l_plus_zl_500ms"), Tap("sl_plus_sr_500ms"),
          Hold("left_stick_up_500ms"), Hold("left_stick_right_500ms"),
          Hold("left_stick_down_500ms"), Hold("left_stick_left_500ms")>>
        \o run_explicit_neutral(mode)
run_right_input_sequence(mode) ==
    LET Tap(name) == Operation(name, tap_right(mode) \o settle(mode))
        Hold(name) == Operation(name, send_right(mode) \o <<"sleep">> \o neutral \o settle(mode))
    IN  <<Tap("a_200ms"), Tap("b_200ms"), Tap("x_200ms"), Tap("y_200ms"),
          Tap("r_plus_zr_500ms"), Tap("sl_plus_sr_500ms"),
          Hold("right_stick_up_500ms"), Hold("right_stick_right_500ms"),
          Hold("right_stick_down_500ms"), Hold("right_stick_left_500ms")>>
        \o run_explicit_neutral(mode)
run_input_sequence(job) ==
    IF job.model = "JoyConL" THEN run_left_input_sequence(job.mode)
    ELSE run_right_input_sequence(job.mode)

(***************************************************************************)
(* Before the input                                                        *)
(***************************************************************************)

\* A pairing must find no profile, a reconnection reads the one there is.
PreflightFault(job) ==
    LET content == world.disk[job.profile]
    IN  IF job.connection = "pair"
        THEN CASE content = Absent -> "none"
               [] content = Unreadable -> "profile_preflight_filesystem"
               [] OTHER -> "pair_target_exists"
        ELSE IF IsFile(content) THEN "none" ELSE "profile_read"
prepare_profile ==
    /\ Here("start")
    /\ LET fault == PreflightFault(tool.job)
       IN  IF fault # "none"
           THEN Complete(FALSE, <<FixedFailure("profile_preflight", fault)>>) /\ dropped
           ELSE /\ tool' = [tool EXCEPT
                     !.at = IF tool.job.connection = "pair" THEN "pair" ELSE "build",
                     !.before = IF tool.job.connection = "pair" THEN <<>>
                                ELSE <<world.disk[tool.job.profile]>>]
                /\ UNCHANGED world

create_paired ==
    /\ Here("pair")
    /\ \E made \in Creations(tool.job.profile) :
        /\ created(tool.job.profile, tool.job.model, made[1], made[2])
        /\ IF made[1] = "Ok" THEN Goes("ready", <<>>)
           ELSE Goes("late_postflight", <<ControllerFailure("connection", made[1])>>)

BuildRun ==
    /\ Here("build")
    /\ LET result == build(tool.job.profile, tool.job.model)
       IN  IF result = "Ok" THEN Goes("open", <<>>) /\ UNCHANGED world
           ELSE Complete(FALSE, <<ControllerFailure("profile_build", result)>>) /\ dropped

open ==
    /\ Here("open")
    /\ \E outcome \in Opens :
        IF outcome = "Ok" THEN opened("run", outcome) /\ Goes("reconnect", <<>>)
        ELSE Complete(FALSE, <<ControllerFailure("open", outcome)>>) /\ dropped

\* A failed reconnection is reported after the controller is closed.
reconnect ==
    /\ Here("reconnect")
    /\ \E outcome \in Reconnects(tool.job.profile) :
        /\ reconnected(tool.job.profile, outcome)
        /\ tool' = [tool EXCEPT !.at = IF outcome = "Ok" THEN "ready" ELSE "close_failed",
                                !.failed = IF outcome = "Ok" THEN "none" ELSE outcome]
close_without_neutral ==
    /\ Here("close_failed") /\ closed("run")
    /\ Goes("late_postflight", <<ControllerFailure("connection", tool.failed)>>)

(***************************************************************************)
(* The input                                                               *)
(***************************************************************************)

\* The idle time before the input: reports go on with Periodic and rest with
\* Direct, and the console is still there.
verify_pre_input_idle ==
    /\ Here("ready") /\ UNCHANGED world
    /\ \E delta \in Deltas :
        LET valid == ~tool.job.idle
                     \/ (world.linked /\ (tool.job.mode = "Periodic" <=> delta > 0))
        IN  IF valid THEN Passes("pre_input", "idle", <<>>)
            ELSE Goes("close", <<FixedFailure("pre_input_idle", "idle_verification_failed")>>)

\* Direct sends nothing on its own; the input is run whatever this finds.
verify_direct_idle ==
    /\ Here("idle") /\ UNCHANGED world
    /\ \E delta \in Deltas :
        LET ok == tool.job.mode = "Periodic" \/ delta = 0
        IN  tool' = [tool EXCEPT
              !.at = "input", !.todo = run_input_sequence(tool.job),
              !.passed = IF ok THEN @ \cup {"idle"} ELSE @,
              !.log = IF tool.job.mode = "Periodic" THEN @
                      ELSE Append(@, Event("direct_idle_complete",
                                           [input_reports_accepted_delta |-> delta]))]

operation_start ==
    /\ Here("input") /\ tool.todo # <<>>
    /\ tool' = [tool EXCEPT !.at = "operation", !.calls = Head(tool.todo).calls]
    /\ UNCHANGED world
OperationCall ==
    /\ Here("operation") /\ tool.calls # <<>> /\ UNCHANGED world
    /\ \E outcome \in Inputs(tool.job.mode, Head(tool.calls)) :
        IF outcome = "Ok" THEN tool' = [tool EXCEPT !.calls = Tail(@)]
        ELSE Goes("close", <<ControllerFailure(Head(tool.todo).name, outcome)>>)
\* An operation counts when the console is still there and took a report.
OperationFault(delta) ==
    IF ~world.linked THEN "connection_lost"
    ELSE IF delta = 0 THEN "no_input_report_accepted" ELSE "none"
run_operation ==
    /\ Here("operation") /\ tool.calls = <<>> /\ UNCHANGED world
    /\ \E delta \in Deltas :
        LET name == Head(tool.todo).name
            fault == OperationFault(delta)
            complete == Event("operation_complete", [operation |-> name])
        IN  IF fault = "none"
            THEN tool' = [tool EXCEPT !.at = "input", !.todo = Tail(@), !.log = Append(@, complete)]
            ELSE Goes("close", <<complete, FixedFailure(name, fault)>>)
InputDone ==
    /\ Here("input") /\ tool.todo = <<>>
    /\ Passes("input", "close", <<>>) /\ UNCHANGED world

(***************************************************************************)
(* After the input                                                         *)
(***************************************************************************)

close_controller ==
    /\ Here("close") /\ closed("run")
    /\ \E outcome \in {"Ok"} \cup CallErrors :
        IF outcome = "Ok" THEN Passes("close", "reopen", <<Event("close_complete", NoFields)>>)
        ELSE Goes("reopen", <<ControllerFailure("close", outcome)>>)

VerifyReopen ==
    /\ tool.job.name = "joycon-profile"
    /\ verify_adapter_reopen(evidence_dimensions, tool.job.model, {}, "postflight")

\* A new profile has content and an old one the content it had; it opens as
\* this model and not as the other.
Opposite(model) == IF model = "JoyConL" THEN "JoyConR" ELSE "JoyConL"
ProfileFindings ==
    LET job == tool.job
        content == world.disk[job.profile]
    IN  [profile_exists |-> IsFile(content) /\ (tool.before # <<>> \/ content # Empty),
         profile_unchanged |-> IsFile(content) /\ (tool.before # <<>> => content = tool.before[1]),
         controller_model_valid |-> build(job.profile, job.model) = "Ok",
         opposite_model_rejected |->
            build(job.profile, Opposite(job.model)) = "ProfileControllerMismatch"]
verify_profile_postflight ==
    /\ tool.job.name = "joycon-profile" /\ tool.at \in {"postflight", "late_postflight"}
    /\ LET findings == ProfileFindings
           ok == \A f \in DOMAIN findings : findings[f]
           success == /\ tool.at = "postflight" /\ ok
                      /\ {"idle", "input", "close", "reopen"} \subseteq tool.passed
       IN  Complete(success, <<Event("profile_postflight", findings)>>)
    /\ dropped

run_hardware ==
    \/ prepare_profile \/ create_paired \/ BuildRun \/ open \/ reconnect
    \/ close_without_neutral \/ verify_pre_input_idle \/ verify_direct_idle
    \/ operation_start \/ OperationCall \/ run_operation \/ InputDone
    \/ close_controller \/ VerifyReopen \/ verify_profile_postflight
=============================================================================
