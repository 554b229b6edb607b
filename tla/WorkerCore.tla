----------------------------- MODULE WorkerCore -----------------------------
(***************************************************************************)
(* The controller worker: WorkerCore::step_runtime of                      *)
(* src/runtime/worker.rs with the handshake, readiness gate, reporting     *)
(* policy, sender and status projection it drives, run in a loop by        *)
(* run_worker_loop of src/runtime/worker_thread.rs.  The client that       *)
(* enqueues commands, the owner that requests shutdown, the Bluetooth peer *)
(* and the clock are its environment.                                      *)
(*                                                                         *)
(* One action is one stretch of the step between two places where the      *)
(* worker looks at shared state: the command channel, the shutdown latch,  *)
(* the transport queue or the clock.  `check` is TRUE when the stretch     *)
(* just finished ends in shutdown.take().                                  *)
(*                                                                         *)
(* A few definitions stand below a faulty variant of themselves that       *)
(* nothing refers to (EagerTransmit before Transmit, say): a plausible     *)
(* mistake, which README.md pairs with the property that detects it.       *)
(***************************************************************************)
EXTENDS Scheduler, Sequences, FiniteSets

CONSTANTS
    Mode,             \* "Periodic" or "Direct", the reporting type parameter
    Buttons,          \* the buttons of the controller model
    Commands,         \* the commands a client may enqueue
    OutputReports,    \* the output reports the peer may send
    Period,           \* the report period of the Periodic policy
    ReplyHoldoff,     \* REPLY_HOLDOFF
    BootstrapRetry,   \* BOOTSTRAP_RETRY
    PollBatches,      \* WorkerBudget.poll_batches
    TimerModulus,     \* 256: the report timer is a u8
    SessionModulus,   \* 2^64: session numbers are u64
    Shutdowns,        \* the shutdown requests an owner may make
    Pipelined,        \* may a command be enqueued while one is in flight?
    StaleFailure,     \* did an earlier worker of this controller fail, with
                      \* every button held?
    MaxTime, MaxEvents, MaxCommands, MaxFaults, MaxQueue   \* bounds

Ops == {"pair", "reconnect", "press", "release", "apply", "neutral", "tap"}
Command == [op : Ops, buttons : SUBSET Buttons, time : Nat]
NoCommand == [op |-> "none", buttons |-> {}, time |-> 0]

Topology == {"link", "control", "interrupt"}
Outputs == {"malformed", "rumble", "invalid", "plain",
            "mode_full", "mode_other", "lights_on", "lights_off"}
Event == Topology \cup Outputs \cup {"disconnected"}
Requests == {"neutral", "plain", "dropped"}

ASSUME ModeAssumption == Mode \in {"Periodic", "Direct"}
ASSUME CommandsAssumption == Commands \subseteq Command
ASSUME OutputAssumption == OutputReports \subseteq Outputs
ASSUME TimingAssumption ==
    /\ Period \in Nat \ {0}
    /\ ReplyHoldoff \in Nat
    /\ BootstrapRetry \in Nat \ {0}
ASSUME ModulusAssumption ==
    /\ PollBatches \in Nat \ {0}
    /\ TimerModulus \in Nat \ {0, 1}
    /\ SessionModulus \in Nat \ {0, 1}
ASSUME BoundAssumption ==
    /\ {MaxTime, MaxEvents, MaxCommands, MaxFaults, MaxQueue} \subseteq Nat
    /\ {Pipelined, StaleFailure} \subseteq BOOLEAN
    /\ Shutdowns \subseteq Requests

VARIABLES
    \* the environment
    now, peer, discoverable, queue, shutdown, inbox, token, left,
    \* WorkerCore and CommandReceiver.in_flight
    lifecycle, connected, current, lastIssued, pending, conn, observed,
    sender, input, tap, sched, holdoff, inFlight,
    \* the StatusPublisher projection
    status,
    \* where the step is, and its StepProgress
    pc, check, batch, tag, polled, progress,
    \* history: the latest accepted report, the input the peer was shown,
    \* when a reply was last accepted, idle steps in a row without waiting
    wire, shown, repliedAt, idle

environment == <<now, peer, discoverable, queue, shutdown, inbox, token, left>>
session == <<lifecycle, connected, current, lastIssued, pending, conn>>
reporting == <<tap, sched, holdoff>>
output == <<sender, wire, shown>>
step == <<batch, tag, polled>>
vars == <<environment, session, observed, output, input, reporting, inFlight,
          status, pc, check, step, progress, repliedAt, idle>>

-----------------------------------------------------------------------------
(* Values *)

NoTime == -1
NoTap == [buttons |-> {}, released |-> {}, at |-> NoTime, rejected |-> FALSE]
NoConn == [session |-> 0, deadline |-> 0, topo |-> {}, retry |-> NoTime,
           accepted |-> FALSE, collected |-> FALSE]
NoWire == [kind |-> "none", session |-> 0, timer |-> 0]
FreshSender == [timer |-> 0, mode |-> "none", lights |-> "none"]
FreshProgress == [results |-> <<>>, immediate |-> FALSE, deadline |-> NoTime,
                  active |-> FALSE]

TapPending == tap.at # NoTime
Connecting == conn.session # 0
Ready == lifecycle = "Ready"

\* ProtocolSession::protocol_ready
protocol_ready(s) == s.mode = "full" /\ s.lights = "on"

\* Option<Duration>: minimum_deadline, and the maximum that next_deadline and
\* record_output_completion take.
minimum_deadline(a, b) ==
    IF a = NoTime THEN b ELSE IF b = NoTime THEN a ELSE IF a <= b THEN a ELSE b
Later(a, b) == IF a >= b THEN a ELSE b

\* The outcome of TransportPort::send_interrupt: accepted, SendRejected, or
\* an error of any other kind, which ends the worker.
Outcomes == {"ok", "rejected", "terminal"}
Afford(n) == left.faults >= n
Spend(n) == left' = [left EXCEPT !.faults = @ - n]
Cost(o) == IF o = "ok" THEN 0 ELSE 1

\* shutdown.take() would return a request here.
Claimed == check /\ shutdown \in Requests

\* StepProgress::record_command_progress of a Complete result.
Record(p, cond, r) == IF cond THEN [p EXCEPT !.results = Append(@, r)] ELSE p

-----------------------------------------------------------------------------
(* ReportSender::send_candidate: the timer and the protocol session advance *)
(* only when the transport accepted the report, and the status projection   *)
(* counts it under the session it knows.                                    *)

WideTimer == sender.timer + 1
NextTimer == (sender.timer + 1) % TimerModulus
EagerTransmit(kind, buttons, commit, ok) ==
    /\ sender' = [commit EXCEPT !.timer = NextTimer]
    /\ IF ok THEN /\ wire' = [kind |-> kind, session |-> status.session,
                              timer |-> sender.timer]
                  /\ shown' = IF kind = "reply" THEN shown ELSE buttons
             ELSE UNCHANGED <<wire, shown>>

Transmit(kind, buttons, commit, ok) ==
    IF ok
    THEN /\ sender' = [commit EXCEPT !.timer = NextTimer]
         /\ wire' = [kind |-> kind, session |-> status.session,
                     timer |-> sender.timer]
         /\ shown' = IF kind = "reply" THEN shown ELSE buttons
    ELSE UNCHANGED output

-----------------------------------------------------------------------------
(* Init: from_open_transport, before the first step of the loop.  The       *)
(* status still shows the input of an earlier worker: a new InputStateStore *)
(* starts neutral and publishes nothing.                                    *)

Init ==
    /\ now = 0 /\ peer = "down" /\ discoverable = FALSE /\ queue = <<>>
    /\ shutdown = "running" /\ inbox = NoCommand /\ token = FALSE
    /\ left = [events |-> MaxEvents, commands |-> MaxCommands,
               faults |-> MaxFaults]
    /\ lifecycle = "Open" /\ connected = FALSE
    /\ current = 0 /\ lastIssued = 0 /\ pending = FALSE /\ conn = NoConn
    /\ observed = FALSE /\ sender = FreshSender /\ input = {}
    /\ tap = NoTap /\ sched = NoTime /\ holdoff = NoTime /\ inFlight = FALSE
    /\ status = [lifecycle |-> "Open", connected |-> FALSE, session |-> 0,
                 mode |-> "none", failure |-> StaleFailure,
                 snapshot |-> IF StaleFailure THEN Buttons ELSE {}]
    /\ pc = "begin" /\ check = TRUE /\ batch = <<>> /\ tag = 0 /\ polled = 0
    /\ progress = FreshProgress
    /\ wire = NoWire /\ shown = {} /\ repliedAt = NoTime /\ idle = 0

-----------------------------------------------------------------------------
(* The environment.  The peer's events reach the worker only through poll   *)
(* and the activity token, and a command only at the start of a step, so    *)
(* they arrive while the worker waits or is about to poll.  A shutdown      *)
(* request is only made where the next thing the worker does is to take it, *)
(* so what happens around it after that cannot matter.                      *)

\* The clock.  It does not run past the horizon while a command is queued, so
\* that every deadline a command sets is reached; and it stands still where
\* the next stretch of the step does not read it, which changes nothing
\* because the tick may as well come after that stretch.
Tick ==
    /\ pc \notin {"poll", "finish", "fail", "done"} /\ shutdown = "running"
    /\ now < MaxTime
    /\ \A c \in Commands : inbox = c => now + c.time < MaxTime
    /\ now' = now + 1
    /\ idle' = 0
    /\ UNCHANGED <<peer, discoverable, queue, shutdown, inbox, token, left,
                   session, observed, output, input, reporting, inFlight,
                   status, pc, check, step, progress, repliedAt>>

\* ActivityNotifier::notify: a token in the activity channel of capacity one.
LostWakeup == UNCHANGED token
Notify == token' = TRUE

\* CommandClient::try_enqueue: a full slot is refused and changes nothing.
Enqueue(c) ==
    /\ pc \in {"wait", "begin"} /\ shutdown = "running"
    /\ left.commands > 0
    /\ inbox = NoCommand
    /\ ~Pipelined => ~inFlight
    /\ now + c.time <= MaxTime
    /\ inbox' = c
    /\ Notify
    /\ left' = [left EXCEPT !.commands = @ - 1]
    /\ UNCHANGED <<now, peer, discoverable, queue, shutdown, session, observed,
                   output, input, reporting, inFlight, status, pc, check, step,
                   progress, repliedAt, idle>>

\* PriorityShutdownClient::request: the first request wins, except that a
\* drop replaces an explicit one that was not taken yet.  The latch is read
\* only where `check` holds; a request at the start of a step is one that came
\* while the worker waited.
RequestShutdown(r) ==
    /\ pc \notin {"begin", "done"}
    /\ shutdown = "running" \/ (shutdown \in Requests \ {"dropped"} /\ r = "dropped")
    /\ check \/ pc = "wait"
    /\ shutdown' = r
    /\ Notify
    /\ UNCHANGED <<now, peer, discoverable, queue, inbox, left, session,
                   observed, output, input, reporting, inFlight, status, pc,
                   check, step, progress, repliedAt, idle>>

\* The transport queues an event of the peer and notifies the worker.
PeerEvent(e, p) ==
    /\ pc \in {"wait", "poll"} /\ shutdown = "running"
    /\ left.events > 0
    /\ Len(queue) < MaxQueue
    /\ peer' = p
    /\ queue' = Append(queue, e)
    /\ Notify
    /\ left' = [left EXCEPT !.events = @ - 1]
    /\ UNCHANGED <<now, discoverable, shutdown, inbox, session, observed,
                   output, input, reporting, inFlight, status, pc, check, step,
                   progress, repliedAt, idle>>

PeerConnect == peer = "down" /\ discoverable /\ PeerEvent("link", "linked")
PeerOpenControl == peer = "linked" /\ PeerEvent("control", "control")
PeerOpenInterrupt == peer = "control" /\ PeerEvent("interrupt", "open")
PeerOutput(o) == peer = "open" /\ PeerEvent(o, "open")
PeerDisconnect == peer # "down" /\ PeerEvent("disconnected", "down")

-----------------------------------------------------------------------------
(* Taking a command *)

Overtaking == inbox # NoCommand /\ ~pending
CanTake == inbox # NoCommand /\ ~pending /\ ~TapPending /\ ~inFlight

NoTake ==
    /\ pc = "begin" /\ ~Claimed /\ ~CanTake
    /\ pc' = "poll" /\ check' = FALSE
    /\ UNCHANGED <<environment, session, observed, output, input, reporting,
                   inFlight, status, step, progress, repliedAt, idle>>

\* The command moves into flight; `r` is its result, "pending" when it has
\* none yet, and a terminal error fails the worker after the latch is looked
\* at.
Take(c, r, terminal) ==
    /\ pc = "begin" /\ ~Claimed /\ CanTake /\ inbox = c
    /\ inbox' = NoCommand /\ inFlight' = TRUE
    /\ progress' = [Record(progress, r # "pending", r) EXCEPT
                        !.immediate = r # "pending", !.active = TRUE]
    /\ pc' = IF terminal THEN "fail" ELSE "poll"
    /\ check' = TRUE
    /\ UNCHANGED <<now, peer, queue, shutdown, token, lastIssued, step, idle>>

\* ConnectionSessions::prepare_next: session numbers wrap and are never 0.
ZeroSession == (lastIssued + 1) % SessionModulus
prepare_next == LET n == (lastIssued + 1) % SessionModulus IN IF n = 0 THEN 1 ELSE n

\* start_pairing or start_reconnect, then begin_connection.  The transport is
\* asked to start before the lifecycle is looked at.
ConnectRefused(c, ok) ==
    /\ c.op \in {"pair", "reconnect"}
    /\ ok => lifecycle # "Open"
    /\ ~ok => Afford(1)
    /\ Spend(IF ok THEN 0 ELSE 1)
    /\ discoverable' = (discoverable \/ ok)
    /\ Take(c, "err", FALSE)
    /\ UNCHANGED <<lifecycle, connected, current, pending, conn, observed,
                   output, input, reporting, status, repliedAt>>

ConnectBegun(c) ==
    /\ c.op \in {"pair", "reconnect"}
    /\ lifecycle = "Open"
    /\ pc = "begin" /\ ~Claimed /\ CanTake /\ inbox = c
    /\ inbox' = NoCommand /\ inFlight' = TRUE
    /\ discoverable' = TRUE
    /\ lifecycle' = "Connecting" /\ connected' = FALSE /\ pending' = TRUE
    /\ lastIssued' = prepare_next /\ current' = prepare_next
    /\ conn' = [NoConn EXCEPT !.session = prepare_next,
                              !.deadline = deadline_after(now, c.time)]
    /\ sender' = FreshSender /\ observed' = FALSE /\ input' = {}
    /\ tap' = tap /\ sched' = NoTime /\ holdoff' = NoTime
    /\ status' = [lifecycle |-> "Connecting", connected |-> FALSE,
                  session |-> prepare_next, mode |-> "none",
                  snapshot |-> {}, failure |-> FALSE]
    /\ wire' = NoWire /\ shown' = {} /\ repliedAt' = NoTime
    /\ progress' = [progress EXCEPT !.active = TRUE]
    /\ pc' = "poll" /\ check' = TRUE
    /\ UNCHANGED <<now, peer, queue, shutdown, token, left, step, idle>>

\* press_candidate, release_candidate and the whole-state commands; input.rs
\* refuses an empty button list.
Candidate(c) ==
    CASE c.op = "press" -> input \cup c.buttons
      [] c.op = "release" -> input \ c.buttons
      [] OTHER -> c.buttons
InvalidInput(c) == c.op \in {"press", "release", "tap"} /\ c.buttons = {}
NeedsReady(c) == Mode = "Direct" \/ c.op = "tap"

InputRefused(c) ==
    /\ c.op \notin {"pair", "reconnect"}
    /\ InvalidInput(c) \/ (NeedsReady(c) /\ ~Ready)
    /\ Take(c, "err", FALSE)
    /\ UNCHANGED <<discoverable, left, lifecycle, connected, current, pending,
                   conn, observed, output, input, reporting, status, repliedAt>>

\* Periodic commands commit locally, whether or not a session is up.
PeriodicInput(c) ==
    /\ Mode = "Periodic"
    /\ c.op \in {"press", "release", "apply", "neutral"}
    /\ ~InvalidInput(c)
    /\ input' = Candidate(c)
    /\ status' = [status EXCEPT !.snapshot = Candidate(c)]
    /\ Take(c, "ok", FALSE)
    /\ UNCHANGED <<discoverable, left, lifecycle, connected, current, pending,
                   conn, observed, output, reporting, repliedAt>>

CommitDirectAlways(ok) == TRUE
CommitDirect(ok) == ok

\* Direct commands commit what the transport accepted.
DirectInput(c, o) ==
    /\ Mode = "Direct" /\ Ready
    /\ c.op \in {"press", "release", "apply", "neutral"}
    /\ ~InvalidInput(c)
    /\ Afford(Cost(o)) /\ Spend(Cost(o))
    /\ Transmit("direct", Candidate(c), sender, o = "ok")
    /\ input' = IF CommitDirect(o = "ok") THEN Candidate(c) ELSE input
    /\ status' = [status EXCEPT !.snapshot = input', !.mode = sender'.mode]
    /\ Take(c, IF o = "ok" THEN "ok" ELSE "err", o = "terminal")
    /\ UNCHANGED <<discoverable, lifecycle, connected, current, pending, conn,
                   observed, reporting, repliedAt>>

\* begin_tap: Periodic commits the pressed state first and remembers a
\* rejection; Direct commits it only once accepted and otherwise gives up.
TapBegins(o) == o = "ok" \/ (Mode = "Periodic" /\ o = "rejected")
BeginTap(c, o) ==
    /\ c.op = "tap" /\ Ready /\ ~InvalidInput(c)
    /\ Afford(Cost(o)) /\ Spend(Cost(o))
    /\ Transmit(IF Mode = "Direct" THEN "direct" ELSE "tap",
                input \cup c.buttons, sender, o = "ok")
    /\ input' = IF Mode = "Periodic" \/ CommitDirect(o = "ok")
                THEN input \cup c.buttons ELSE input
    /\ status' = [status EXCEPT !.snapshot = input', !.mode = sender'.mode]
    /\ tap' = IF TapBegins(o)
              THEN [buttons |-> c.buttons,
                    released |-> (input \cup c.buttons) \ c.buttons,
                    at |-> deadline_after(now, c.time),
                    rejected |-> o = "rejected"]
              ELSE tap
    /\ Take(c, IF TapBegins(o) THEN "pending" ELSE "err", o = "terminal")
    /\ UNCHANGED <<discoverable, lifecycle, connected, current, pending, conn,
                   observed, sched, holdoff, repliedAt>>

-----------------------------------------------------------------------------
(* Transport events *)

Poll ==
    /\ pc = "poll" /\ ~Claimed
    /\ IF queue = <<>>
       THEN /\ tag' = 0 /\ polled' = 0
            /\ pc' = "drive" /\ check' = FALSE /\ UNCHANGED <<queue, batch>>
       ELSE /\ batch' = queue /\ queue' = <<>> /\ tag' = current
            /\ polled' = polled + 1
            /\ pc' = "event" /\ check' = FALSE
    /\ UNCHANGED <<now, peer, discoverable, shutdown, inbox, token, left,
                   session, observed, output, input, reporting, inFlight,
                   status, progress, repliedAt, idle>>

PollError ==
    /\ pc = "poll" /\ ~Claimed
    /\ Afford(1) /\ Spend(1)
    /\ pc' = "fail" /\ check' = TRUE
    /\ UNCHANGED <<now, peer, discoverable, queue, shutdown, inbox, token,
                   session, observed, output, input, reporting, inFlight,
                   status, step, progress, repliedAt, idle>>

\* Where the step goes when `rest` of the batch is left, and the budget rule:
\* a last batch that was not empty makes the next step immediate.
Exhausted(rest) == rest = <<>> /\ polled = PollBatches
AfterEvent(rest) ==
    IF rest # <<>> THEN "event" ELSE IF Exhausted(rest) THEN "drive" ELSE "poll"

AnySession == tag # 0
UntaggedToo == tag = current
Current == tag # 0 /\ tag = current
Handling == pc = "event" /\ ~Claimed
EventStep(p) ==
    /\ batch' = Tail(batch)
    /\ progress' = [p EXCEPT !.active = TRUE,
                             !.immediate = @ \/ Exhausted(Tail(batch))]
    /\ check' = TRUE
    /\ UNCHANGED <<now, peer, discoverable, queue, shutdown, inbox, token,
                   lastIssued, inFlight, tag, polled, idle>>

\* take_current: the session the event was polled in has ended.
EventDropped ==
    /\ Handling /\ ~Current
    /\ EventStep(progress) /\ pc' = AfterEvent(Tail(batch))
    /\ UNCHANGED <<left, lifecycle, connected, current, pending, conn, observed,
                   output, input, reporting, status, repliedAt>>

EventTopology ==
    /\ Handling /\ Current /\ Head(batch) \in Topology
    /\ EventStep(progress) /\ pc' = "event_drive"
    /\ connected' = (connected \/ Head(batch) = "link")
    /\ status' = [status EXCEPT !.connected = @ \/ Head(batch) = "link"]
    /\ conn' = IF Connecting /\ ~conn.collected
               THEN [conn EXCEPT !.topo = @ \cup {Head(batch)}] ELSE conn
    /\ UNCHANGED <<left, lifecycle, current, pending, observed, output, input,
                   reporting, repliedAt>>

\* handle_output for a report that sends no reply: malformed, rumble only, or
\* a subcommand whose reply cannot be prepared (which is observed all the
\* same).
EventSilentOutput ==
    /\ Handling /\ Current /\ Head(batch) \in {"malformed", "rumble", "invalid"}
    /\ EventStep(progress) /\ pc' = AfterEvent(Tail(batch))
    /\ observed' = (observed \/ Head(batch) = "invalid")
    /\ UNCHANGED <<left, lifecycle, connected, current, pending, conn, output,
                   input, reporting, status, repliedAt>>

\* try_prepare_stateful_reply: the session the reply would establish.
next_session(s, e) ==
    CASE e = "mode_full" -> [s EXCEPT !.mode = "full"]
      [] e = "mode_other" -> [s EXCEPT !.mode = "other"]
      [] e = "lights_on" -> [s EXCEPT !.lights = "on"]
      [] e = "lights_off" -> [s EXCEPT !.lights = "off"]
      [] OTHER -> s

HoldoffInDirect(o) == IF o = "ok" THEN Later(holdoff, now + ReplyHoldoff) ELSE holdoff

\* PeriodicPolicy::record_output_completion; the holdoff runs from the time
\* the reply was accepted and is only ever extended.
record_output_completion(o) ==
    IF o = "ok" /\ Mode = "Periodic"
    THEN Later(holdoff, now + ReplyHoldoff) ELSE holdoff

EventOutput(o) ==
    /\ Handling /\ Current /\ Head(batch) \in Outputs \ {"malformed", "rumble", "invalid"}
    /\ Afford(Cost(o)) /\ Spend(Cost(o))
    /\ EventStep(progress)
    /\ pc' = IF o = "terminal" THEN "fail" ELSE AfterEvent(Tail(batch))
    /\ observed' = TRUE
    /\ Transmit("reply", IF protocol_ready(sender) THEN input ELSE {},
                next_session(sender, Head(batch)), o = "ok")
    /\ status' = [status EXCEPT !.mode = sender'.mode]
    /\ holdoff' = record_output_completion(o)
    /\ repliedAt' = IF o = "ok" /\ Mode = "Periodic" THEN now ELSE repliedAt
    /\ UNCHANGED <<lifecycle, connected, current, pending, conn, input, tap,
                   sched>>

\* StatusPublisher::end_session and StatusPublisher::close.
LingeringStatus(l) == [status EXCEPT !.lifecycle = l, !.session = 0, !.mode = "none"]
EndedStatus(l) == [status EXCEPT !.lifecycle = l, !.connected = FALSE,
                                 !.session = 0, !.mode = "none"]

\* stop_session of the reporting policies.
StopTimersOnly == tap' = tap /\ sched' = NoTime /\ holdoff' = NoTime
StopReporting == tap' = NoTap /\ sched' = NoTime /\ holdoff' = NoTime

\* What end_connection and abort_connection leave behind: no session, no
\* reporting work, lifecycle Open.
EndSession ==
    /\ current' = 0 /\ connected' = FALSE /\ conn' = NoConn
    /\ pending' = (pending /\ ~Connecting)
    /\ lifecycle' = IF lifecycle \in {"Connecting", "Ready"} THEN "Open" ELSE lifecycle
    /\ StopReporting
    /\ status' = EndedStatus(lifecycle')

\* The interrupted tap and the connection command are each told, and the next
\* step follows at once.
ForgottenTap(p) ==
    [Record(p, Connecting /\ pending, "err") EXCEPT !.immediate = TRUE]
QuietInterrupted(p) ==
    Record(Record(p, TapPending, "err"), Connecting /\ pending, "err")
Interrupted(p) ==
    LET lost == TapPending \/ (Connecting /\ pending)
    IN  [Record(Record(p, TapPending, "err"), Connecting /\ pending, "err")
            EXCEPT !.immediate = @ \/ lost]

EventDisconnected ==
    /\ Handling /\ Current /\ Head(batch) = "disconnected"
    /\ EventStep(Interrupted(progress)) /\ pc' = AfterEvent(Tail(batch))
    /\ EndSession
    /\ UNCHANGED <<left, observed, output, input, repliedAt>>

-----------------------------------------------------------------------------
(* drive_connection: after a topology event, and once after the polls *)

Driving == pc \in {"event_drive", "drive"} /\ ~Claimed
AfterDrive == IF pc = "drive" THEN "due" ELSE AfterEvent(batch)

DriveNothing ==
    /\ Driving /\ ~Connecting
    /\ pc' = AfterDrive /\ check' = TRUE
    /\ UNCHANGED <<environment, session, observed, output, input, reporting,
                   inFlight, status, step, progress, repliedAt, idle>>

\* ReadinessGate::ensure_active
Active == current = conn.session /\ now < conn.deadline

DriveAbort ==
    /\ Driving /\ Connecting /\ ~Active
    /\ progress' = [Record(progress, pending, "err") EXCEPT
                        !.immediate = @ \/ pending, !.active = TRUE]
    /\ EndSession
    /\ pc' = AfterDrive /\ check' = TRUE
    /\ UNCHANGED <<environment, lastIssued, observed, output, input, inFlight,
                   step, repliedAt, idle>>

\* Handshake::step
CompletionCondition ==
    IF Mode = "Periodic" THEN observed ELSE protocol_ready(sender)
topology_ready == conn.topo = Topology
Bootstrapping ==
    /\ ~conn.collected /\ topology_ready
    /\ ~(conn.accepted /\ CompletionCondition)
AttemptDue == Bootstrapping /\ (conn.retry = NoTime \/ now >= conn.retry)
RetryDeadline ==
    IF conn.retry = NoTime
    THEN StartDeadline(now, BootstrapRetry)
    ELSE StepDeadline(now, conn.retry, BootstrapRetry)

\* The handshake is collected as soon as it stops: a bootstrap report was
\* accepted and the completion condition holds.
UnprovenHandshake(o) == conn.collected \/ (topology_ready /\ CompletionCondition)
HandshakeDone(o) ==
    \/ conn.collected
    \/ /\ topology_ready
       /\ conn.accepted \/ (AttemptDue /\ o = "ok")
       /\ CompletionCondition

\* PeriodicPolicy::start_when_unheld, from evaluate_periodic
Unheld == holdoff = NoTime \/ now >= holdoff
StartsReporting(o) ==
    Mode = "Periodic" /\ HandshakeDone(o) /\ sender.mode = "full" /\ Unheld

\* evaluate_direct and evaluate_periodic
BecomesReady(o) ==
    /\ HandshakeDone(o) /\ protocol_ready(sender)
    /\ Mode = "Periodic" => StartsReporting(o)

DriveHandshake(o) ==
    /\ Driving /\ Connecting /\ Active
    /\ o # "ok" => AttemptDue
    /\ Afford(Cost(o)) /\ Spend(Cost(o))
    /\ IF AttemptDue THEN Transmit("bootstrap", {}, sender, o = "ok")
                     ELSE UNCHANGED output
    /\ LET failed == o = "terminal" \/ (BecomesReady(o) /\ lifecycle # "Connecting")
           ready == ~failed /\ BecomesReady(o)
           kept == [conn EXCEPT !.retry = IF AttemptDue THEN RetryDeadline ELSE @,
                                !.accepted = @ \/ (AttemptDue /\ o = "ok")]
       IN  /\ conn' = IF ready THEN NoConn
                      ELSE IF o # "terminal" /\ HandshakeDone(o)
                           THEN [kept EXCEPT !.collected = TRUE, !.retry = NoTime]
                           ELSE kept
           /\ sched' = IF o # "terminal" /\ StartsReporting(o) /\ sched = NoTime
                       THEN StartDeadline(now, Period) ELSE sched
           /\ lifecycle' = IF ready THEN "Ready" ELSE lifecycle
           /\ status' = [status EXCEPT !.mode = sender'.mode,
                            !.lifecycle = IF ready THEN "Ready" ELSE @]
           /\ pending' = (pending /\ ~ready)
           /\ progress' =
                [Record(progress, ready /\ pending, "ok") EXCEPT
                    !.immediate = @ \/ (ready /\ pending),
                    !.active = @ \/ AttemptDue \/ ready,
                    !.deadline = IF Bootstrapping /\ ~AttemptDue
                                 THEN minimum_deadline(@, conn.retry) ELSE @]
           /\ pc' = IF failed THEN "fail" ELSE AfterDrive
    /\ check' = TRUE
    /\ UNCHANGED <<now, peer, discoverable, queue, shutdown, inbox, token,
                   connected, current, lastIssued, observed, input, tap,
                   holdoff, inFlight, step, repliedAt, idle>>

-----------------------------------------------------------------------------
(* run_due: a due tap release, otherwise the automatic report *)

Eligible == Ready \/ (lifecycle = "Connecting" /\ sched # NoTime)
TapDue == TapPending /\ now >= tap.at
HeldAutoDue == sched # NoTime /\ IsDue(now, sched)
AutoDue == sched # NoTime /\ Unheld /\ IsDue(now, sched)

DueNothing ==
    /\ pc = "due" /\ ~Claimed
    /\ Eligible => ~TapDue /\ ~AutoDue
    /\ pc' = "finish" /\ check' = Eligible
    /\ UNCHANGED <<environment, session, observed, output, input, reporting,
                   inFlight, status, step, progress, repliedAt, idle>>

DueStep(o) ==
    /\ pc = "due" /\ ~Claimed /\ Eligible
    /\ pc' = IF o = "terminal" THEN "fail" ELSE "finish"
    /\ check' = TRUE
    /\ UNCHANGED <<now, peer, discoverable, queue, shutdown, inbox, token,
                   session, observed, holdoff, inFlight, step, repliedAt, idle>>

\* PendingPeriodicTap::finish commits the release and reports the first error;
\* PendingDirectTap::finish keeps the pressed state when it is not accepted.
TapRelease(o) ==
    /\ TapDue /\ DueStep(o)
    /\ Afford(Cost(o)) /\ Spend(Cost(o))
    /\ Transmit(IF Mode = "Direct" THEN "direct" ELSE "tap", tap.released,
                sender, o = "ok")
    /\ input' = IF Mode = "Periodic" \/ CommitDirect(o = "ok")
                THEN tap.released ELSE input
    /\ status' = [status EXCEPT !.snapshot = input', !.mode = sender'.mode]
    /\ tap' = NoTap
    /\ progress' = [Record(progress, TRUE, IF o = "ok" /\ ~tap.rejected
                                           THEN "ok" ELSE "err")
                        EXCEPT !.immediate = TRUE, !.active = TRUE]
    /\ UNCHANGED sched

\* send_due: the deadline is consumed even when there is no capacity, in which
\* case nothing is sent and no action is counted.
AutomaticReport(o) ==
    /\ ~TapDue /\ AutoDue /\ DueStep(o)
    /\ sched' = StepDeadline(now, sched, Period)
    /\ Afford(Cost(o)) /\ Spend(Cost(o))
    /\ Transmit("auto", input, sender, o = "ok")
    /\ status' = [status EXCEPT !.mode = sender'.mode]
    /\ progress' = [progress EXCEPT !.active = TRUE]
    /\ UNCHANGED <<input, tap>>

Backpressured ==
    /\ ~TapDue /\ AutoDue /\ DueStep("ok")
    /\ sched' = StepDeadline(now, sched, Period)
    /\ Afford(1) /\ Spend(1)
    /\ UNCHANGED <<output, status, progress, input, tap>>

-----------------------------------------------------------------------------
(* The end of the step, the delivery of its result, and the wait *)

PolicyDeadline == IF sched # NoTime THEN Later(sched, holdoff) ELSE holdoff
ForgetfulDeadline == IF Connecting THEN conn.deadline ELSE PolicyDeadline
next_deadline ==
    minimum_deadline(
        minimum_deadline(PolicyDeadline, tap.at),
        IF Connecting
        THEN minimum_deadline(conn.deadline,
                              IF conn.collected THEN NoTime ELSE conn.retry)
        ELSE NoTime)

\* deliver_progress: a result nobody is waiting for fails the worker.
Finish ==
    /\ pc = "finish" /\ ~Claimed
    /\ progress' = [progress EXCEPT
                        !.deadline = minimum_deadline(@, next_deadline),
                        !.results = IF inFlight THEN <<>> ELSE @]
    /\ inFlight' = (inFlight /\ progress.results = <<>>)
    /\ pc' = IF progress.results # <<>> /\ ~inFlight THEN "fail" ELSE "wait"
    /\ check' = FALSE
    /\ UNCHANGED <<environment, session, observed, output, input, reporting,
                   status, step, repliedAt, idle>>

\* wait_for_next_iteration
DeadlinePassed == progress.deadline # NoTime /\ progress.deadline <= now
NoWait == progress.immediate \/ DeadlinePassed
Restart ==
    /\ pc = "wait"
    /\ pc' = "begin" /\ check' = TRUE
    /\ batch' = <<>> /\ tag' = 0 /\ polled' = 0
    /\ progress' = FreshProgress
    /\ UNCHANGED <<now, peer, discoverable, queue, shutdown, inbox, left,
                   session, observed, output, input, reporting, inFlight,
                   status, repliedAt>>

Proceed ==
    /\ NoWait /\ Restart
    /\ idle' = IF progress.active THEN 0 ELSE IF idle < 2 THEN idle + 1 ELSE 2
    /\ UNCHANGED token

Wake ==
    /\ ~NoWait /\ token /\ Restart
    /\ token' = FALSE /\ idle' = 0

-----------------------------------------------------------------------------
(* Leaving the loop *)

\* Both cleanups stop the reporting work, end the session, disconnect and
\* close the transport.
Shut ==
    /\ pc' = "done" /\ check' = FALSE
    /\ lifecycle' = "Closing" /\ connected' = FALSE /\ current' = 0
    /\ pending' = FALSE /\ conn' = NoConn
    /\ StopReporting
    /\ peer' = "down" /\ discoverable' = FALSE /\ queue' = <<>>
    /\ UNCHANGED <<now, inbox, token, lastIssued, observed, input, step,
                   repliedAt, idle>>

\* close: the connection command and the tap are answered, and an explicit
\* close with neutral releases every button if the link is up.
SilentClose == progress
ClosedProgress == Record(Record(progress, pending, "err"), TapPending, "err")
Close(o) ==
    /\ Claimed
    /\ shutdown' = "taken"
    /\ IF shutdown = "neutral" /\ connected
       THEN Transmit("close", {}, sender, o = "ok")
       ELSE o = "ok" /\ UNCHANGED output
    /\ Afford(Cost(o)) /\ Spend(Cost(o))
    /\ progress' = ClosedProgress
    /\ inFlight' = (inFlight /\ ClosedProgress.results = <<>>)
    /\ status' = EndedStatus("Closed")
    /\ Shut

\* StatusPublisher::fail keeps the first failure it was told of.
ClosedInstead == EndedStatus("Closed")
FailedStatus == IF status.failure THEN status
                ELSE [EndedStatus("Failed") EXCEPT !.failure = TRUE]

\* fail, then complete_worker_failure: a tap in flight is not answered, its
\* client learns of the failure when the channel is dropped.
Fail ==
    /\ pc = "fail" /\ ~Claimed
    /\ progress' = Record(progress, pending, "err")
    /\ inFlight' = (inFlight /\ progress'.results = <<>>)
    /\ status' = FailedStatus
    /\ Shut
    /\ UNCHANGED <<shutdown, left, output>>

Ended == pc = "done" /\ UNCHANGED vars

-----------------------------------------------------------------------------
Client == \E c \in Commands : Enqueue(c)
Owner == \E r \in Shutdowns : RequestShutdown(r)
Peer ==
    \/ PeerConnect \/ PeerOpenControl \/ PeerOpenInterrupt \/ PeerDisconnect
    \/ \E o \in OutputReports : PeerOutput(o)

TakeCommand ==
    \E c \in Commands :
        \/ \E ok \in BOOLEAN : ConnectRefused(c, ok)
        \/ ConnectBegun(c)
        \/ InputRefused(c)
        \/ PeriodicInput(c)
        \/ \E o \in Outcomes : DirectInput(c, o) \/ BeginTap(c, o)

HandleEvent ==
    \/ EventDropped \/ EventTopology \/ EventSilentOutput \/ EventDisconnected
    \/ \E o \in Outcomes : EventOutput(o)

Drive == DriveNothing \/ DriveAbort \/ \E o \in Outcomes : DriveHandshake(o)

Due ==
    \/ DueNothing \/ Backpressured
    \/ \E o \in Outcomes : TapRelease(o) \/ AutomaticReport(o)

Worker ==
    \/ NoTake \/ TakeCommand \/ Poll \/ PollError \/ HandleEvent \/ Drive
    \/ Due \/ Finish \/ Proceed \/ Wake \/ Fail
    \/ \E o \in Outcomes : Close(o)

Next == Tick \/ Client \/ Owner \/ Peer \/ Worker \/ Ended

Spec == Init /\ [][Next]_vars

\* The scheduler of the operating system runs the worker thread, and the
\* monotonic clock advances.  Nothing is assumed of the client, the owner or
\* the peer.
FairSpec == Spec /\ WF_vars(Worker) /\ WF_vars(Tick)

-----------------------------------------------------------------------------
(* Properties *)

Time == Nat \cup {NoTime}
Modes == {"none", "full", "other"}
SessionIds == 0..(SessionModulus - 1)

BudgetType == [events : Nat, commands : Nat, faults : Nat]
ConnType == [session : SessionIds, deadline : Nat, topo : SUBSET Topology,
             retry : Time, accepted : BOOLEAN, collected : BOOLEAN]
TapType == [buttons : SUBSET Buttons, released : SUBSET Buttons, at : Time,
            rejected : BOOLEAN]
SenderType == [timer : 0..(TimerModulus - 1), mode : Modes,
               lights : {"none", "on", "off"}]
StatusType == [lifecycle : {"Open", "Connecting", "Ready", "Closed", "Failed"},
               connected : BOOLEAN, session : SessionIds, mode : Modes,
               snapshot : SUBSET Buttons, failure : BOOLEAN]
Sent == {"bootstrap", "auto", "tap", "direct", "reply", "close"}
WireType == [kind : Sent \cup {"none"}, session : SessionIds,
             timer : 0..(TimerModulus - 1)]
ProgressType == [results : Seq({"ok", "err"}), immediate : BOOLEAN,
                 deadline : Time, active : BOOLEAN]

EnvironmentTypeOK ==
    /\ now \in Nat
    /\ peer \in {"down", "linked", "control", "open"}
    /\ discoverable \in BOOLEAN
    /\ queue \in Seq(Event)
    /\ shutdown \in Requests \cup {"running", "taken"}
    /\ inbox \in Commands \cup {NoCommand}
    /\ token \in BOOLEAN
    /\ left \in BudgetType

SessionTypeOK ==
    /\ lifecycle \in {"Open", "Connecting", "Ready", "Closing"}
    /\ connected \in BOOLEAN
    /\ current \in SessionIds /\ lastIssued \in SessionIds
    /\ pending \in BOOLEAN
    /\ conn \in ConnType
    /\ observed \in BOOLEAN

OutputTypeOK ==
    /\ sender \in SenderType
    /\ input \in SUBSET Buttons
    /\ status \in StatusType
    /\ wire \in WireType
    /\ shown \in SUBSET Buttons

ReportingTypeOK ==
    /\ tap \in TapType
    /\ sched \in Time /\ holdoff \in Time /\ repliedAt \in Time

StepTypeOK ==
    /\ inFlight \in BOOLEAN
    /\ pc \in {"begin", "poll", "event", "event_drive", "drive", "due",
               "finish", "wait", "fail", "done"}
    /\ check \in BOOLEAN
    /\ batch \in Seq(Event) /\ tag \in SessionIds /\ polled \in Nat
    /\ progress \in ProgressType
    /\ idle \in 0..2

TypeOK ==
    EnvironmentTypeOK /\ SessionTypeOK /\ OutputTypeOK /\ ReportingTypeOK /\ StepTypeOK

\* The session bookkeeping agrees with itself across every path that starts or
\* ends a connection: a session is current exactly while the lifecycle is
\* Connecting or Ready, readiness work belongs to that session and lasts
\* exactly as long as Connecting does, only it can hold a connection command,
\* a tap needs Ready, and the reporting timers need a session.
SessionCoherent ==
    /\ current # 0 <=> lifecycle \in {"Connecting", "Ready"}
    /\ Connecting <=> lifecycle = "Connecting"
    /\ Connecting => conn.session = current
    /\ pending => Connecting
    /\ connected => current # 0
    /\ TapPending => Ready
    /\ sched # NoTime \/ holdoff # NoTime => current # 0
    /\ Mode = "Periodic" /\ Ready => sched # NoTime

\* While the worker runs, a reader of the status projection sees the worker's
\* own state, although the projection is written piece by piece.  What an
\* earlier worker left is seen at most until the first session begins, and only
\* as its input while this worker has none.
EarlierInput ==
    StaleFailure /\ lastIssued = 0 /\ input = {} /\ status.snapshot = Buttons
StatusCoherent ==
    pc # "done" =>
        /\ status.lifecycle = lifecycle
        /\ status.session = current
        /\ status.connected = connected
        /\ current # 0 => status.mode = sender.mode
        /\ status.snapshot = input \/ EarlierInput
Coherent == SessionCoherent /\ StatusCoherent

\* record_command_progress panics on a second result in one step: whatever
\* mix of completions, disconnects and shutdown falls into one step, there is
\* at most one, and its client is waiting for it (no MissingResponse).
OneResult ==
    /\ Len(progress.results) <= 1
    /\ progress.results # <<>> /\ pc # "done" => inFlight

\* StatusPublisher::set_sender_state panics ("active session context") when a
\* report is accepted and the projection has no session.
AcceptedInSession == wire.kind # "none" => wire.session # 0

\* Between steps the worker owes an answer exactly while it has the work that
\* will produce one, so no client waits on a forgotten command.
OwedIsPending ==
    pc \in {"wait", "begin"} => (inFlight <=> (pending \/ TapPending))

\* The two together: no answer is doubled and none is forgotten.
AnswersAreOwed == OneResult /\ OwedIsPending

\* After an orderly close every command that was taken has been answered.
ClosedAnswersAll == pc = "done" /\ shutdown = "taken" => ~inFlight

\* The worker never sleeps past something it has to do: the wait ends no later
\* than the connection timeout, the bootstrap retry, the tap release, the end
\* of the reply holdoff that the first start of reporting waits for, and the
\* automatic report.
WakesInTime ==
    LET covers(t) == t # NoTime => progress.immediate
                       \/ (progress.deadline # NoTime /\ progress.deadline <= t)
    IN  pc = "wait" =>
            /\ Connecting => covers(conn.deadline)
            /\ Connecting /\ Bootstrapping => covers(conn.retry)
            /\ covers(tap.at)
            /\ Connecting /\ conn.collected /\ sched = NoTime => covers(holdoff)
            /\ sched # NoTime => covers(Later(sched, holdoff))

\* Nothing that arrived is slept on: when the worker is about to wait with a
\* transport event, a shutdown request or a command it could take left over,
\* the activity token is still in the channel or the next step is immediate.
\* The token is one for all senders and a command that had to stay behind an
\* earlier one has already had its token consumed.
ArrivalsAreNoticed ==
    pc = "wait" =>
        /\ queue # <<>> \/ shutdown \in Requests => token \/ NoWait
        /\ inbox # NoCommand /\ ~inFlight => token \/ NoWait

\* While a tap is held, the committed input is the pressed state it set: no
\* other command slips in between press and release.
TapOwnsInput ==
    TapPending => tap.buttons \subseteq input /\ tap.released = input \ tap.buttons

\* Direct reporting is transactional: the committed input is what the peer was
\* last shown by an accepted input report of this session, whatever was
\* rejected in between.
DirectShowsCommitted == Mode = "Direct" /\ current # 0 => input = shown

\* What is held is what was asked for, and in Direct what the peer saw.
InputIsHeld == TapOwnsInput /\ DirectShowsCommitted

\* An endpoint that believes the link is up is right, or the disconnection is
\* still on its way to it.
ConnectedIsReal ==
    connected => \/ peer # "down"
                 \/ \E i \in 1..Len(queue) : queue[i] = "disconnected"
                 \/ \E i \in 1..Len(batch) : batch[i] = "disconnected"

\* A failed worker is seen as Failed.
FailureIsVisible == pc = "done" /\ shutdown # "taken" => status.lifecycle = "Failed"

\* What the worker believes of the link and what it shows of its end: reports
\* are accepted within a session only, the link it believes in is there, and a
\* worker that failed is seen to have failed.
LinkIsReal == AcceptedInSession /\ ConnectedIsReal /\ FailureIsVisible

\* The worker does not run through step after step without waiting and without
\* anything to do while the clock stands still.
NoBusyLoop == idle < 2

\* The worker neither sleeps on what arrived nor spins on nothing.
SleepsAndWakes == ArrivalsAreNoticed /\ NoBusyLoop

\* Consecutive accepted reports of one session carry consecutive timers: a
\* rejected or backpressured report consumes none.
TimersConsecutive ==
    [][wire' # wire /\ wire'.kind # "none"
         => wire'.timer = IF wire.kind = "none" THEN 0
                          ELSE (wire.timer + 1) % TimerModulus]_vars

\* No automatic report leaves within REPLY_HOLDOFF of an accepted reply, even
\* one accepted in the same step.
HoldoffRespected ==
    [][wire' # wire /\ wire'.kind = "auto"
         => repliedAt = NoTime \/ now >= repliedAt + ReplyHoldoff]_vars

\* What a console sees of the reports of one session: a timer without a gap, and
\* quiet after every reply.
ReportsAreSpaced == TimersConsecutive /\ HoldoffRespected

\* Ready is earned in this session and before the operation deadline: link and
\* both channels were observed, a bootstrap report was accepted, not only the
\* replies that carry the peer's choice of mode 0x30 and non-zero lights, and
\* Periodic reporting is armed.
ReadyIsEarned ==
    [][Ready' /\ ~Ready
         => /\ conn.topo = Topology
            /\ now < conn.deadline
            /\ conn.accepted \/ (wire' # wire /\ wire'.kind = "bootstrap")
            /\ protocol_ready(sender)
            /\ Mode = "Periodic" => sched' # NoTime /\ Unheld]_vars

\* Every command that was taken is answered, or the worker ends.
EveryCommandAnswered == inFlight ~> (~inFlight \/ pc = "done")

\* A shutdown request ends the worker, wherever it finds it.
ShutdownCompletes == (shutdown \in Requests) ~> (pc = "done")

\* Neither a client nor an owner waits for ever.
NobodyWaitsForever == EveryCommandAnswered /\ ShutdownCompletes
=============================================================================
