----------------------------- MODULE ProbeTrace -----------------------------
(* tools/swbt-probe/src/trace.rs: what the trace takes of the diagnostics.   *)
EXTENDS Naturals, FiniteSets

TraceSchema == "swbt.diagnostics"
Frame == {"schema", "schema_version", "event"}

runtime_fields_unnumbered(extra) == Frame \cup {"controller_kind", "reporting_kind"} \cup extra
runtime_fields(extra) ==
    Frame \cup {"controller_kind", "reporting_kind", "session_id"} \cup extra
exact_fields(record, expected) == DOMAIN record = expected

\* A field that may be missing is there, with no value.
entry(record, field) ==
    [f \in DOMAIN record \cup {field} |-> IF f \in DOMAIN record THEN record[f] ELSE "null"]

Expected(event) ==
    CASE event = "environment" ->
            Frame \cup {"controller_kind", "reporting_kind", "package_version",
                        "target_os", "target_arch"}
      [] event = "session_started" -> runtime_fields({})
      [] event = "lifecycle_changed" -> runtime_fields({"lifecycle"})
      [] event = "subcommand_observed" -> runtime_fields({"subcommand_id"})
      [] event = "report_tx_accepted" ->
            runtime_fields({"report_mode", "imu_mode", "input_reports_accepted"})
      [] event = "reply_tx_accepted" ->
            runtime_fields({"report_mode", "imu_mode", "replies_accepted"})
      [] event = "session_ended" -> runtime_fields({"lifecycle", "disconnect_reason"})
      [] event = "worker_failed" -> runtime_fields({"failure_category"})
      [] event = "unsupported_button" -> runtime_fields({"button_kind"})
normalized(record) ==
    CASE record.event \in {"report_tx_accepted", "reply_tx_accepted"} -> entry(record, "report_mode")
      [] record.event = "session_ended" -> entry(record, "disconnect_reason")
      [] OTHER -> record
normalize_and_validate(record) ==
    /\ record.schema = TraceSchema /\ record.schema_version = 1
    /\ exact_fields(normalized(record), Expected(record.event))

emit_environment(controller_kind, reporting_kind) ==
    [schema |-> TraceSchema, schema_version |-> 1, event |-> "environment",
     controller_kind |-> controller_kind, reporting_kind |-> reporting_kind,
     package_version |-> "0", target_os |-> "os", target_arch |-> "arch"]

\* The state of the trace after a record: one that is not as documented, or
\* cannot be written, marks it for good.
event(trace, record, writable) ==
    CASE trace # "clean" -> trace
      [] ~normalize_and_validate(record) -> "refused"
      [] OTHER -> IF writable THEN "clean" ELSE "broken"
=============================================================================
