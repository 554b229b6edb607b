------------------------------- MODULE Probe -------------------------------
(* swbt-probe: a command that looks at adapters and profiles, or connects a *)
(* controller, presses a button or moves it, closes it and writes one        *)
(* record, with the diagnostics of the connection in a trace file.           *)
EXTENDS ToolLibrary, ControllerModels

CONSTANTS Kind, Reporting, MaxCount, MaxSessions, Buttons   \* see StatusProjection

VARIABLES projection, caller, pending, heard,   \* of StatusProjection
          trace                                 \* closed, clean, refused or broken

Status == INSTANCE StatusProjection
Trace == INSTANCE ProbeTrace

(***************************************************************************)
(* Arguments                                                               *)
(***************************************************************************)

parse_connection_operation(word) == word \in {"pair", "reconnect"}
parse_controller_selection == ("pro" :> "Pro" @@ "joycon-l" :> "JoyConL" @@ "joycon-r" :> "JoyConR")
parse_reporting_selection == ("periodic" :> "Periodic" @@ "direct" :> "Direct")
parse_button_kind ==
    ("a" :> "A" @@ "b" :> "B" @@ "x" :> "X" @@ "y" :> "Y" @@ "l" :> "L" @@ "r" :> "R"
     @@ "zl" :> "ZL" @@ "zr" :> "ZR" @@ "plus" :> "Plus" @@ "minus" :> "Minus"
     @@ "home" :> "Home" @@ "capture" :> "Capture" @@ "left-stick" :> "LeftStick"
     @@ "right-stick" :> "RightStick" @@ "sl" :> "SL" @@ "sr" :> "SR"
     @@ "dpad-up" :> "DpadUp" @@ "dpad-down" :> "DpadDown" @@ "dpad-left" :> "DpadLeft"
     @@ "dpad-right" :> "DpadRight")
ImuSeconds == {"1", "3600"}   \* of the texts that occur, those of 1..3600

\* The value an option may have
OptionValue(option, value) ==
    CASE option = "--controller" -> value \in DOMAIN parse_controller_selection
      [] option \in {"--profile", "--trace"} -> TRUE
      [] option = "--reporting" -> value \in DOMAIN parse_reporting_selection
      [] option = "--local-address" -> value = "02:00:00:00:00:01"
      [] option = "--button" -> value \in DOMAIN parse_button_kind
      [] option = "--imu-seconds" -> value \in ImuSeconds
      [] OTHER -> FALSE
set_once(flags) == \A i, k \in DOMAIN flags : flags[i] = flags[k] => i = k

parse_connection(operation, arguments) ==
    LET n == Len(arguments) \div 2
        flags == [i \in 1 .. n |-> arguments[2 * i - 1]]
        given(flag) == \E i \in 1 .. n : flags[i] = flag
        value(flag, default) ==
            IF given(flag) THEN arguments[2 * (CHOOSE i \in 1 .. n : flags[i] = flag)] ELSE default
        model == parse_controller_selection[value("--controller", "pro")]
        mode == parse_reporting_selection[value("--reporting", "periodic")]
        imu == given("--imu-seconds")
    IN  IF /\ Len(arguments) % 2 = 0 /\ set_once(flags)
           /\ \A i \in 1 .. n : OptionValue(flags[i], arguments[2 * i])
           /\ given("--controller") /\ given("--profile") /\ given("--trace")
           /\ operation = "pair" => ~given("--reporting")
           /\ operation = "reconnect" => ~given("--local-address")
           /\ imu => operation = "reconnect" /\ model = "Pro" /\ mode = "Periodic"
        THEN [name |-> operation, model |-> model, mode |-> mode,
              profile |-> value("--profile", ""), trace |-> value("--trace", ""),
              button |-> IF given("--button") THEN parse_button_kind[value("--button", "a")] ELSE "none",
              imu |-> imu]
        ELSE NoJob

parse(arguments) ==
    CASE arguments = <<>> -> NoJob
      [] arguments # <<>> /\ parse_connection_operation(Head(arguments)) ->
            parse_connection(Head(arguments), Tail(arguments))
      [] Len(arguments) = 1 /\ Head(arguments) \in {"help", "--help", "-h"} -> [name |-> "help"]
      [] arguments = <<"adapters">> -> [name |-> "adapters"]
      [] Len(arguments) = 3 /\ Head(arguments) = "open" /\ arguments[2] = "--adapter" ->
            [name |-> "open"]
      [] Len(arguments) = 3 /\ Head(arguments) = "profile" /\ arguments[2] \in {"inspect", "verify"} ->
            [name |-> arguments[2], profile |-> arguments[3]]
      [] OTHER -> NoJob

(***************************************************************************)
(* Results                                                                 *)
(***************************************************************************)

\* What went wrong in the order it did, for what the record says in the end
Step(label) == tool' = [tool EXCEPT !.at = label]
KeepsLast(kind, label) ==
    tool' = [tool EXCEPT !.at = label, !.calls = Append(@, kind), !.failed = kind]
Keeps(kind, label) ==
    tool' = [tool EXCEPT !.at = label, !.calls = Append(@, kind),
                         !.failed = IF @ = "none" THEN kind ELSE @]
On(outcome, label, otherwise) ==
    IF outcome = "Ok" THEN Step(label) ELSE Keeps(outcome, otherwise)
Doing(name, label) == tool.job.name = name /\ tool.at = label
Connecting(label) == tool.job.name \in {"pair", "reconnect"} /\ tool.at = label

swbt_error_kind_name(kind) ==
    CASE kind = "AdapterDiscovery" -> "adapter_discovery"
      [] kind = "TransportOpen" -> "transport_open"
      [] kind = "AdapterIdentityRecoveryRequired" -> "adapter_identity_recovery_required"
      [] kind = "ProfilePathRequired" -> "profile_path_required"
      [] kind = "ProfileNotFound" -> "profile_not_found"
      [] kind = "ProfileAlreadyExists" -> "profile_already_exists"
      [] kind = "InvalidProfile" -> "invalid_profile"
      [] kind = "ProfileControllerMismatch" -> "profile_controller_mismatch"
      [] kind = "InvalidKeyStore" -> "invalid_key_store"
      [] kind = "NoBond" -> "no_bond"
      [] kind = "TransportClosed" -> "transport_closed"
      [] kind = "ConnectionTimeout" -> "connection_timeout"
      [] kind = "ConnectionFailed" -> "connection_failed"
      [] kind = "Protocol" -> "protocol"
      [] kind = "InvalidInput" -> "invalid_input"
      [] kind = "UnsupportedInput" -> "unsupported_input"
      [] kind = "UnsupportedCapability" -> "unsupported_capability"
      [] kind = "WorkerFailed" -> "worker_failed"
      [] kind = "Shutdown" -> "shutdown"
      [] kind = "Internal" -> "internal"
      [] OTHER -> "operation_failed"
error_kind_name(kind) == IF kind = "Trace" THEN "trace" ELSE swbt_error_kind_name(kind)
error_record(kind) == [event |-> "error", error_kind |-> kind]

adapters_listed_record == [event |-> "adapters_listed"]
adapter_opened_record == [event |-> "adapter_opened"]
connection_completed_record ==
    [event |-> "connection_completed", neutral_close |-> TRUE,
     profile_unchanged |-> tool.job.imu, adapter_reopened |-> tool.job.imu]
profile_inspected_record == [event |-> "profile_inspected"]
profile_verified_record == [event |-> "profile_verified"]
SuccessRecord(name) ==
    CASE name = "adapters" -> adapters_listed_record
      [] name = "open" -> adapter_opened_record
      [] name \in {"pair", "reconnect"} -> connection_completed_record
      [] name = "inspect" -> profile_inspected_record
      [] name = "verify" -> profile_verified_record

\* The record is written and the program ends; a success that cannot be
\* written is an error.
Exit(code, log) == tool' = [tool EXCEPT !.at = "done", !.exit = code, !.log = log]
main ==
    /\ tool.job.name # "none" /\ tool.at = "print" /\ dropped /\ UNCHANGED trace
    /\ IF tool.failed = "none"
       THEN \/ Exit(0, <<SuccessRecord(tool.job.name)>>)
            \/ Exit(1, <<error_record("output_write_failed")>>)
       ELSE Exit(1, <<error_record(error_kind_name(tool.failed))>>)

Start(arguments) ==
    /\ tool.at = "shell" /\ UNCHANGED <<world, trace>>
    /\ LET job == parse(arguments)
       IN  CASE job.name = "none" -> tool' = [Idle EXCEPT !.at = "done", !.exit = 2,
                                                !.log = <<error_record("usage")>>]
             [] job.name = "help" -> \E code \in {0, 1} : tool' = [Idle EXCEPT !.at = "done", !.exit = code]
             [] OTHER -> tool' = [Idle EXCEPT !.job = job, !.at = "start"]

(***************************************************************************)
(* Commands without a connection                                           *)
(***************************************************************************)

list_adapters ==
    /\ Doing("adapters", "start") /\ UNCHANGED <<world, trace>>
    /\ \E outcome \in {"Ok", "AdapterDiscovery"} : On(outcome, "print", "print")
\* A profile is inspected whatever controller it is for.
InspectResult(path) ==
    LET content == world.disk[path]
    IN  CASE content = Absent -> "ProfileNotFound"
          [] content = Unreadable -> "Internal"
          [] content = Empty -> "InvalidProfile"
          [] OTHER -> IF content.model = "none" THEN "InvalidProfile" ELSE "Ok"
inspect_profile ==
    /\ Doing("inspect", "start") \/ Doing("verify", "start")
    /\ On(InspectResult(tool.job.profile), "print", "print") /\ UNCHANGED <<world, trace>>
open_adapter ==
    /\ Doing("open", "start") /\ UNCHANGED trace
    /\ \E outcome \in Opens : opened("run", outcome) /\ On(outcome, "close", "print")
open_and_close ==
    /\ Doing("open", "close") /\ UNCHANGED trace
    /\ closed("run") /\ \E outcome \in {"Ok"} \cup CallErrors : On(outcome, "print", "print")

(***************************************************************************)
(* A connection                                                            *)
(***************************************************************************)

\* The trace is a file of its own, and its first record is the environment.
install ==
    /\ Connecting("start")
    /\ IF world.disk[tool.job.trace] = Absent
       THEN /\ world' = [world EXCEPT !.disk[tool.job.trace] = Empty]
            /\ \E writable \in BOOLEAN :
                trace' = Trace!event("clean", Trace!emit_environment(tool.job.model, tool.job.mode), writable)
            /\ Step(IF tool.job.name = "pair" THEN "create" ELSE "inspect")
       ELSE Keeps("Trace", "print") /\ UNCHANGED <<world, trace>>

pair ==
    /\ Connecting("create") /\ UNCHANGED trace
    /\ \E made \in Creations(tool.job.profile) :
        /\ created(tool.job.profile, tool.job.model, made[1], made[2])
        /\ On(made[1], "button", "finish")
Inspect ==
    /\ Connecting("inspect") /\ UNCHANGED <<world, trace>>
    /\ LET result == InspectResult(tool.job.profile)
       IN  IF result = "Ok"
           THEN tool' = [tool EXCEPT !.at = "build", !.before = <<world.disk[tool.job.profile]>>]
           ELSE Keeps(result, "finish")
Build ==
    /\ Connecting("build") /\ UNCHANGED <<world, trace>>
    /\ On(build(tool.job.profile, tool.job.model), "open", "finish")
Open ==
    /\ Connecting("open") /\ UNCHANGED trace
    /\ \E outcome \in Opens : opened("run", outcome) /\ On(outcome, "reconnect", "finish")
reconnect ==
    /\ Connecting("reconnect") /\ UNCHANGED trace
    /\ \E outcome \in Reconnects(tool.job.profile) :
        reconnected(tool.job.profile, outcome) /\ On(outcome, "button", "close")

\* A button this model does not have is refused before anything is sent.
ModelOf(name) == CASE name = "Pro" -> Pro [] name = "JoyConL" -> JoyConL [] name = "JoyConR" -> JoyConR
apply_button ==
    /\ Connecting("button") /\ UNCHANGED <<world, trace>>
    /\ LET next == IF tool.job.imu THEN "imu" ELSE "close"
       IN  CASE tool.job.button = "none" -> Step(next)
             [] OTHER ->
                IF ~supports_button(ModelOf(tool.job.model), tool.job.button)
                THEN Keeps("UnsupportedInput", "close")
                ELSE \E outcome \in Inputs(tool.job.mode, "tap") : On(outcome, next, "close")
\* The motion is applied, reported, held, and taken back, and that is reported.
run_periodic_imu ==
    /\ \E stage \in {<<"imu", "imu_wait">>, <<"imu_neutral", "imu_last">>} :
        /\ Connecting(stage[1])
        /\ \E outcome \in Inputs("Periodic", "apply") : On(outcome, stage[2], "close")
    /\ UNCHANGED <<world, trace>>
wait_for_periodic_report ==
    /\ \E stage \in {<<"imu_wait", "imu_neutral">>, <<"imu_last", "close">>} :
        /\ Connecting(stage[1])
        /\ \E outcome \in (IF world.linked THEN {"Ok", "WorkerFailed"} ELSE {"WorkerFailed"}) :
            On(outcome, stage[2], "close")
    /\ UNCHANGED <<world, trace>>

\* The controller is closed whatever happened; an earlier error is the one kept.
finish_connection ==
    /\ Connecting("close") /\ closed("run") /\ UNCHANGED trace /\ Status!WorkerJoined
    /\ \E outcome \in {"Ok"} \cup CallErrors :
        IF outcome # "Ok" THEN Keeps(outcome, "finish")
        ELSE tool' = [tool EXCEPT !.at = IF tool.failed = "none" /\ tool.job.imu
                                         THEN "compare" ELSE "finish",
                                  !.passed = @ \cup {"close"}]

\* read_profile_bytes and the comparison with what was read before
read_profile_bytes(path) ==
    CASE world.disk[path] = Absent -> "ProfileNotFound"
      [] world.disk[path] = Unreadable -> "InvalidProfile"
      [] OTHER -> IF world.disk[path] = tool.before[1] THEN "Ok" ELSE "InvalidProfile"
Compare ==
    /\ UNCHANGED <<world, trace>>
    /\ \/ /\ Connecting("compare")
          /\ On(read_profile_bytes(tool.job.profile), "reopen", "finish")
       \/ /\ Connecting("recompare")
          /\ On(read_profile_bytes(tool.job.profile), "finish", "finish")
reopen_after_connection ==
    /\ UNCHANGED trace
    /\ \/ /\ Connecting("reopen") /\ UNCHANGED world
          /\ On(build(tool.job.profile, tool.job.model), "reopen_open", "finish")
       \/ /\ Connecting("reopen_open")
          /\ \E outcome \in Opens : opened("reopen", outcome) /\ On(outcome, "reopen_close", "finish")
       \/ /\ Connecting("reopen_close") /\ closed("reopen")
          /\ \E outcome \in {"Ok"} \cup CallErrors :
                IF outcome = "Ok" THEN tool' = [tool EXCEPT !.at = "recompare", !.passed = @ \cup {"reopen"}]
                ELSE Keeps(outcome, "finish")

\* A trace that failed is the error of the run, whatever else was.
finish_trace ==
    /\ Connecting("finish") /\ dropped
    /\ \E flushed \in BOOLEAN :
        /\ trace' = IF trace = "clean" /\ ~flushed THEN "broken" ELSE trace
        /\ tool' = [tool EXCEPT !.at = "print",
                                !.failed = IF trace = "clean" /\ flushed THEN @ ELSE "Trace"]

(***************************************************************************)
(* The diagnostics of the connection                                       *)
(***************************************************************************)

\* The worker lives while the controller is open; its calls are shown at the button.
WorkerReports == Connecting("button") /\ Status!StatusNext /\ UNCHANGED <<tool, world, trace>>
Records(thread, writable) ==
    /\ Connecting("button") \/ Connecting("close")
    /\ Status!emit(thread) /\ UNCHANGED <<tool, world>>
    /\ trace' = Trace!event(trace, Status!to_value(Head(pending[thread])), writable)

ProbeSteps ==
    \/ main \/ list_adapters \/ inspect_profile \/ open_adapter \/ open_and_close
    \/ install \/ pair \/ Inspect \/ Build \/ Open \/ reconnect \/ apply_button
    \/ run_periodic_imu \/ wait_for_periodic_report \/ Compare
    \/ reopen_after_connection \/ finish_trace
=============================================================================
