-------------------------- MODULE DiagnosticEvents --------------------------
(* src/diagnostics/event.rs: the events of the runtime and the records they *)
(* become. A record is a function of its field names; numbers stand for      *)
(* themselves and a missing value is the text null.                          *)
EXTENDS Naturals

Schema == "swbt.diagnostics"
DiagnosticContext(controller_kind, reporting_kind, session_id) ==
    [controller_kind |-> controller_kind, reporting_kind |-> reporting_kind,
     session_id |-> session_id]

session_started(context) == [of |-> "SessionStarted", context |-> context]
lifecycle_changed(context, lifecycle) ==
    [of |-> "LifecycleChanged", context |-> context, lifecycle |-> lifecycle]
subcommand_observed(context, id) ==
    [of |-> "SubcommandObserved", context |-> context, subcommand_id |-> id]
report_tx_accepted(context, mode, imu, accepted) ==
    [of |-> "ReportTxAccepted", context |-> context, report_mode |-> mode,
     imu_mode |-> imu, accepted |-> accepted]
reply_tx_accepted(context, mode, imu, accepted) ==
    [of |-> "ReplyTxAccepted", context |-> context, report_mode |-> mode,
     imu_mode |-> imu, accepted |-> accepted]
session_ended(context, lifecycle, reason) ==
    [of |-> "SessionEnded", context |-> context, lifecycle |-> lifecycle, reason |-> reason]
worker_failed(context, category) ==
    [of |-> "WorkerFailed", context |-> context, category |-> category]
unsupported_button(context, button) ==
    [of |-> "UnsupportedButton", context |-> context, button |-> button]

reporting_name(kind) == IF kind = "Periodic" THEN "periodic" ELSE "direct"
lifecycle_name(state) ==
    CASE state = "Configured" -> "configured" [] state = "Open" -> "open"
      [] state = "Connecting" -> "connecting" [] state = "Ready" -> "ready"
      [] state = "Closing" -> "closing"       [] state = "Closed" -> "closed"
      [] state = "Failed" -> "failed"
category_name(category) ==
    CASE category = "Transport" -> "transport" [] category = "Wait" -> "wait"
      [] category = "CommandDelivery" -> "command_delivery"
      [] category = "Panicked" -> "panicked"
      [] category = "CompletionDisconnected" -> "completion_disconnected"
      [] category = "Internal" -> "internal"
button_name(kind) ==
    CASE kind = "A" -> "a" [] kind = "B" -> "b" [] kind = "X" -> "x" [] kind = "Y" -> "y"
      [] kind = "L" -> "l" [] kind = "R" -> "r" [] kind = "ZL" -> "zl" [] kind = "ZR" -> "zr"
      [] kind = "Plus" -> "plus" [] kind = "Minus" -> "minus" [] kind = "Home" -> "home"
      [] kind = "Capture" -> "capture" [] kind = "LeftStick" -> "left_stick"
      [] kind = "RightStick" -> "right_stick" [] kind = "SL" -> "sl" [] kind = "SR" -> "sr"
      [] kind = "DpadUp" -> "dpad_up" [] kind = "DpadDown" -> "dpad_down"
      [] kind = "DpadLeft" -> "dpad_left" [] kind = "DpadRight" -> "dpad_right"

record(context, event, extra) ==
    LET frame == [schema |-> Schema, schema_version |-> 1, event |-> event,
                  controller_kind |-> context.controller_kind,
                  reporting_kind |-> reporting_name(context.reporting_kind),
                  session_id |-> context.session_id]
    IN  [field \in DOMAIN frame \cup DOMAIN extra |->
            IF field \in DOMAIN frame THEN frame[field] ELSE extra[field]]
to_value(e) ==
    CASE e.of = "SessionStarted" -> record(e.context, "session_started", <<>>)
      [] e.of = "LifecycleChanged" ->
            record(e.context, "lifecycle_changed", [lifecycle |-> lifecycle_name(e.lifecycle)])
      [] e.of = "SubcommandObserved" ->
            record(e.context, "subcommand_observed", [subcommand_id |-> e.subcommand_id])
      [] e.of = "ReportTxAccepted" ->
            record(e.context, "report_tx_accepted",
                   [report_mode |-> e.report_mode, imu_mode |-> e.imu_mode,
                    input_reports_accepted |-> e.accepted])
      [] e.of = "ReplyTxAccepted" ->
            record(e.context, "reply_tx_accepted",
                   [report_mode |-> e.report_mode, imu_mode |-> e.imu_mode,
                    replies_accepted |-> e.accepted])
      [] e.of = "SessionEnded" ->
            record(e.context, "session_ended",
                   [lifecycle |-> lifecycle_name(e.lifecycle), disconnect_reason |-> e.reason])
      [] e.of = "WorkerFailed" ->
            record(e.context, "worker_failed", [failure_category |-> category_name(e.category)])
      [] e.of = "UnsupportedButton" ->
            record(e.context, "unsupported_button", [button_kind |-> button_name(e.button)])
=============================================================================
