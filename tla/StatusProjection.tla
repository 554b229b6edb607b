-------------------------- MODULE StatusProjection --------------------------
(* src/runtime/status.rs: the status that the worker writes and the client   *)
(* reads, and the diagnostics both emit from it. A method changes the        *)
(* projection under the lock and emits what it made after the lock is free:  *)
(* between the two the other thread may run.                                 *)
EXTENDS DiagnosticEvents, Integers, Sequences, SequencesExt

CONSTANTS Kind, Reporting,          \* M::KIND, R::KIND
          MaxCount, MaxSessions,    \* bounds on reports of a worker and sessions
          Buttons                   \* buttons this model does not have

VARIABLES projection,   \* ProjectionState
          caller,       \* the worker thread that writes, and its sender's counts
          pending,      \* events a thread has made and not emitted yet
          heard         \* what the worker's part of the stream said so far

statusVars == <<projection, caller, pending, heard>>

configured ==
    [lifecycle |-> "Configured", connected |-> FALSE, session_id |-> 0, report_mode |-> "null",
     input_reports_accepted |-> 0, replies_accepted |-> 0, worker_failure |-> FALSE]

NoWorker == [at |-> "none", sessions |-> 0, inputs |-> 0, replies |-> 0]
Silent == [session |-> 0, ended |-> TRUE, inputs |-> 0]

StatusInit ==
    /\ projection = configured
    /\ caller = NoWorker
    /\ pending = [worker |-> <<>>, client |-> <<>>]
    /\ heard = Silent

diagnostic_context(session_id) == DiagnosticContext(Kind, Reporting, session_id)
HasContext(state) == state.session_id # 0
Context(state) == diagnostic_context(state.session_id)
WithContext(state, event) == IF HasContext(state) THEN <<event>> ELSE <<>>

\* A method of the worker: the projection, and the events it will emit.
Writes(state, events) ==
    /\ pending.worker = <<>>
    /\ projection' = state /\ pending' = [pending EXCEPT !.worker = events]
    /\ UNCHANGED heard

(***************************************************************************)
(* StatusPublisher, called by the worker                                   *)
(***************************************************************************)

set_lifecycle(lifecycle) ==
    IF projection.lifecycle = lifecycle THEN Writes(projection, <<>>)
    ELSE LET state == [projection EXCEPT !.lifecycle = lifecycle]
         IN  Writes(state, WithContext(state, lifecycle_changed(Context(state), lifecycle)))

begin_session(session_id, lifecycle) ==
    LET state == [projection EXCEPT
                    !.lifecycle = lifecycle, !.connected = FALSE, !.session_id = session_id,
                    !.report_mode = "null", !.worker_failure = FALSE]
    IN  Writes(state, <<session_started(Context(state)),
                        lifecycle_changed(Context(state), lifecycle)>>)

\* Only a count that grew is told.
SenderEventsRepeated(state, mode, inputs, replies) ==
    (IF inputs >= projection.input_reports_accepted
     THEN <<report_tx_accepted(Context(state), mode, 0, inputs)>> ELSE <<>>)
    \o (IF replies > projection.replies_accepted
        THEN <<reply_tx_accepted(Context(state), mode, 0, replies)>> ELSE <<>>)
SenderEvents(state, mode, inputs, replies) ==
    (IF inputs > projection.input_reports_accepted
     THEN <<report_tx_accepted(Context(state), mode, 0, inputs)>> ELSE <<>>)
    \o (IF replies > projection.replies_accepted
        THEN <<reply_tx_accepted(Context(state), mode, 0, replies)>> ELSE <<>>)
set_sender_state(mode, inputs, replies) ==
    LET state == [projection EXCEPT !.report_mode = mode, !.input_reports_accepted = inputs,
                                    !.replies_accepted = replies]
    IN  Writes(state, SenderEvents(state, mode, inputs, replies))

set_connected(connected) == Writes([projection EXCEPT !.connected = connected], <<>>)
record_subcommand(id) ==
    Writes(projection, WithContext(projection, subcommand_observed(Context(projection), id)))

end_session(lifecycle, reason) ==
    Writes([projection EXCEPT !.lifecycle = lifecycle, !.connected = FALSE,
                              !.session_id = 0, !.report_mode = "null"],
           WithContext(projection, session_ended(Context(projection), lifecycle, reason)))
close(lifecycle) ==
    Writes([projection EXCEPT !.lifecycle = lifecycle, !.connected = FALSE,
                              !.session_id = 0, !.report_mode = "null"],
           WithContext(projection, session_ended(Context(projection), lifecycle, "null")))
\* The first failure of a session is told, a later one is not.
fail(category) ==
    IF projection.worker_failure THEN Writes(projection, <<>>)
    ELSE Writes([projection EXCEPT !.lifecycle = "Failed", !.connected = FALSE,
                                   !.session_id = 0, !.report_mode = "null",
                                   !.worker_failure = TRUE],
                IF HasContext(projection)
                THEN <<worker_failed(Context(projection), category),
                       lifecycle_changed(Context(projection), "Failed"),
                       session_ended(Context(projection), "Failed", "null")>>
                ELSE <<>>)

(***************************************************************************)
(* The worker that calls                                                   *)
(***************************************************************************)

Calling(state) == caller.at = state
Moves(to) == caller' = [caller EXCEPT !.at = to]

\* A worker starts with a sender of its own.
WorkerStarts ==
    /\ caller.at \in {"none", "closed"} /\ set_lifecycle("Open")
    /\ caller' = [caller EXCEPT !.at = "open", !.inputs = 0, !.replies = 0]
\* The sender is reset, and publishes its counts, before the session begins.
SessionResets ==
    /\ Calling("open") /\ caller.sessions < MaxSessions /\ Moves("starting")
    /\ set_sender_state("null", caller.inputs, caller.replies)
SessionBegins ==
    /\ Calling("starting")
    /\ begin_session(caller.sessions + 1, "Connecting")
    /\ caller' = [caller EXCEPT !.at = "session", !.sessions = @ + 1]
Linked == Calling("session") /\ set_connected(TRUE) /\ UNCHANGED caller
Readies == Calling("session") /\ set_lifecycle("Ready") /\ UNCHANGED caller
Observes == Calling("session") /\ record_subcommand(2) /\ UNCHANGED caller
InputAccepted ==
    /\ Calling("session") /\ caller.inputs < MaxCount
    /\ \E mode \in {"null", "simple", "full"} : set_sender_state(mode, caller.inputs + 1, caller.replies)
    /\ caller' = [caller EXCEPT !.inputs = @ + 1]
ReplyAccepted ==
    /\ Calling("session") /\ caller.replies < MaxCount
    /\ \E mode \in {"null", "full"} : set_sender_state(mode, caller.inputs, caller.replies + 1)
    /\ caller' = [caller EXCEPT !.replies = @ + 1]
\* The neutral report of a close
NeutralAccepted ==
    /\ Calling("closing") /\ projection.connected /\ caller.inputs < MaxCount
    /\ set_sender_state(projection.report_mode, caller.inputs + 1, caller.replies)
    /\ caller' = [caller EXCEPT !.inputs = @ + 1]
SessionEnds ==
    /\ Calling("session") /\ Moves("open")
    /\ \E reason \in {"null", "remote"} : end_session("Open", reason)
Closing ==
    /\ caller.at \in {"open", "session"} /\ set_lifecycle("Closing")
    /\ Moves("closing")
Closes == Calling("closing") /\ close("Closed") /\ Moves("closed")
Fails ==
    /\ caller.at \in {"open", "session", "closing"} /\ Moves("closed")
    /\ \E category \in {"Transport", "Panicked"} : fail(category)

(***************************************************************************)
(* The client, and the stream                                              *)
(***************************************************************************)

\* Controller::button of a button the model does not have
record_unsupported_button(button) ==
    /\ pending.client = <<>> /\ HasContext(projection)
    /\ pending' = [pending EXCEPT !.client = <<unsupported_button(Context(projection), button)>>]
    /\ UNCHANGED <<projection, caller, heard>>

\* What the events of the worker say, one after the other.
Hear(e) ==
    CASE e.of = "SessionStarted" ->
            [session |-> e.context.session_id, ended |-> FALSE, inputs |-> 0]
      [] e.of = "SessionEnded" -> [heard EXCEPT !.ended = TRUE]
      [] e.of = "ReportTxAccepted" -> [heard EXCEPT !.inputs = e.accepted]
      [] OTHER -> heard
emit(thread) ==
    /\ pending[thread] # <<>>
    /\ pending' = [pending EXCEPT ![thread] = Tail(@)]
    /\ heard' = IF thread = "worker" THEN Hear(Head(pending.worker)) ELSE heard
    /\ UNCHANGED <<projection, caller>>

\* A close waits for the worker, and nobody looks at its status any more.
WorkerJoined ==
    /\ pending = [worker |-> <<>>, client |-> <<>>]
    /\ projection' = configured /\ heard' = Silent /\ caller' = NoWorker
    /\ UNCHANGED pending

StatusNext ==
    \/ WorkerStarts \/ SessionResets \/ SessionBegins \/ Linked \/ Readies \/ Observes
    \/ InputAccepted \/ ReplyAccepted \/ NeutralAccepted \/ SessionEnds \/ Closing \/ Closes \/ Fails
    \/ \E button \in Buttons : record_unsupported_button(button)

(***************************************************************************)
(* Properties                                                              *)
(***************************************************************************)

\* What the worker tells of a session comes after its start and before its
\* end, of this session alone, and no report is told twice: the events made
\* under the lock (status.rs:104-257) are emitted in the order of the calls.
StreamIsOrdered ==
    [][Len(pending'.worker) < Len(pending.worker) =>
       LET e == Head(pending.worker)
       IN  IF e.of = "SessionStarted" THEN heard.ended
           ELSE /\ ~heard.ended /\ e.context.session_id = heard.session
                /\ e.of = "ReportTxAccepted" => e.accepted > heard.inputs]_statusVars
=============================================================================
