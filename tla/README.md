# swbt-rs in TLA+

`swbt-rs` lets a program act as a Nintendo Switch controller over Bluetooth: a
`Controller` opens a worker thread, the worker owns the Bluetooth transport,
and client calls become commands the worker executes while it keeps talking to
the console. This directory holds TLA+ models of that runtime, the TLC runs
that check them on small instances, and TLAPS proofs for all values of the
constants; it also models the programs of `tools/`, which use the library from
outside. The code is the reference: each definition in `PROJECT.json`'s `map`
names the lines it translates.

## 1. The system

### Components, state and operations

| Component | State | Operations | What makes it correct |
|---|---|---|---|
| Report scheduler (`runtime/scheduler.rs`, `clock.rs`) | period, next deadline | `start`, `step` | deadlines stay on the phase of the start; an overrun yields one decision; arithmetic never wraps |
| Worker core (`runtime/worker.rs`) | all of the below, the connection command, the status publisher | `step_runtime`, `close`, `fail` | every command taken is answered once; every path that ends a session ends all of it; the next wake-up covers every deadline |
| Connection sessions (`session.rs`, `connection.rs`) | current and last issued session number | `prepare_next`, `tag_current`, `take_current`, `end` | nothing tagged for one session acts on another |
| Lifecycle (`lifecycle.rs`) | Open, Connecting, Ready, Closing, Closed, Failed | guarded transitions | agrees with the session and the readiness work |
| Handshake and readiness gate (`handshake.rs`, `readiness.rs`) | observed topology, bootstrap attempt and retry, deadline | `observe_*`, `step`, `record_bootstrap_attempt`, `evaluate_*` | Ready is earned, and only before the deadline |
| Periodic policy (`periodic.rs`) | scheduler, reply holdoff, pending tap | `start_when_unheld`, `send_due`, `begin_tap`, `finish` | no automatic report inside the holdoff; a tap is released |
| Direct policy (`direct.rs`) | pending tap | `send_candidate`, tap press and release | input is committed exactly when the peer saw it |
| Report sender (`sender.rs`) | timer, protocol session | `send_input`, `send_reply`, `send_neutral` | a rejected report consumes nothing |
| Output handling (`output.rs`), protocol core (`swbt-core/protocol`) | report mode, lights, IMU mode, vibration | parse, prepare a stateful reply, read the virtual flash | the session changes only with an accepted reply; a reply is one the console can use |
| Input, models (`swbt-core/input`, `model`) | the IMU orientation | button, stick and motion encoding | the console decodes what was asked for |
| Status projection (`status.rs`), diagnostics (`diagnostics/`) | lifecycle, session, connected, mode, snapshot, counters, failure | `begin_session`, `end_session`, `set_*`, `close`, `fail` | what is published is what the worker is; events come in session order |
| Errors (`command.rs`, `worker.rs`, `controller/mod.rs`) | the first failure, the related ones | `map_*_error`, `WorkerOutcome`, `CommandExecution` | every failure is told to whom it concerns, with its cause |
| Command channel (`command.rs`) | a slot of capacity one, the command in flight | `try_enqueue`, `try_next`, `deliver_completion` | one result per command |
| Worker thread (`worker_thread.rs`) | shutdown latch, thread handle | `run_worker_loop`, `PriorityShutdownClient::request`, `finish_*`, drop | a request ends the worker |
| Cleanup (`cleanup.rs`) | phase results | guard, neutral report, drain, disconnect, close | later phases run whatever failed earlier |
| Transport port (`transport/`) | event queue, activity token, capacity | `start_pairing`, `start_reconnect`, `poll`, `send_interrupt` | no arrival without a token |
| Controller facade (`controller/`) | the worker owner, the shared status publisher | open, commands, close, reopen | a reopened controller shows its own state |
| Profile store, key store (`profile/`, `transport/profile_key_store.rs`) | files | create, load, update, parse, replace a bond | a crash leaves the old or the new document; a bond stays with its address |
| Builder, adapter selection (`builder.rs`, `transport/bumble.rs`) | what is claimed | `build`, `open`, `pair`, `reconnect`, `connect` | an error names its cause; the adapter is held while a worker lives |
| Hardware runner (`tools/swbt-hardware-runner`) | evidence file, profile copy | three scenarios | success is earned, failure is named, files are kept |
| Probe (`tools/swbt-probe`) | trace file | adapters, open, profile, pair, reconnect | the record names the first error; the trace takes every event |
| Test harnesses (`runtime_measurement.rs`, fakes, clocks) | (not modelled) | | |

### How they interact

The client's thread calls a `Controller`, which puts one command into a
channel of capacity one, notifies the activity channel (capacity one as well)
and blocks for the result. The worker thread runs `step_runtime` in a loop:
take a command if nothing is pending, poll the transport and handle each event,
drive the readiness gate, do the reporting that is due, compute the next
deadline; then deliver the results and wait for the activity token or the
deadline. Between these stretches it looks at the shutdown latch, which the
owner sets from another thread. The transport's callbacks enqueue events and
notify the same activity channel. The worker writes the status projection,
which any thread reads; both threads emit diagnostics, after they gave back the
projection's lock. Below the transport port are the Bluetooth stack (a
dependency) and the profile, which the stack's key store reads and writes during a
pairing while the client's thread may validate it. The tools are clients of
all this, one call after another.

### What is hard

Four threads of control meet in one step: client, owner, Bluetooth peer, clock.
The difficult behaviours are the arrival of a shutdown request at each of the
latch's look-ups; the peer disconnecting in the middle of a batch of polled
events; late events of a session that has ended; a handshake that completes as
its deadline passes; rejected sends after a report was prepared; one
activity token for three kinds of arrival; a wait computed from five sources;
a reply that holds off the automatic report of the same step; the wrap of
the report timer and of session numbers; and a second failure while the first is
being told. `PROJECT.json` lists them as
`hazards`, each at its line with the property that watches it, and those no
property watches yet with the reason.

## 2. Modules

| Module | Models |
|---|---|
| `Scheduler` | the arithmetic of `ReportScheduler`, with `Duration`'s range (`MaxInstant`) and the `u64` skip count (`MaxSkipped`) as parameters |
| `SchedulerMachine` | a scheduler driven by a clock that jumps |
| `WorkerCore` | the worker, its policies and its environment; uses `Scheduler` |
| `ControllerCalls` | what a controller promises its caller: the abstract specification |
| `ControllerRuntime` | a controller and its worker thread: calls, channels, latch, cleanup, join; implements `ControllerCalls` |
| `AtomicProfile` | what a profile store promises: the abstract specification |
| `ProfileStore` | the profile file: creation and updates as file operations, with failures, kills and power failures; implements `AtomicProfile` |
| `CommandErrors` | the errors of the worker as values, their sources, and the public `Error` made of them |
| `WorkerErrors` | the worker's handlers, each taken whole, and what becomes of every failure; uses `CommandErrors` |
| `ControllerModels` | the tables of the three models |
| `InputReports` | input values, sticks, IMU samples and orientation, and their bytes |
| `Subcommands` | output reports, the protocol session, the virtual flash, subcommand replies |
| `ReportPath` | scheduler, sender, output handler and protocol against a console; uses `SchedulerMachine`, `Subcommands` |
| `ProfileDocument` | the document: texts, checks, conversions, replacement of keys |
| `TransportErrors` | how a failure below becomes an `ErrorKind` |
| `Transport` | building, opening, pairing, reconnecting over adapters, consoles and a profile; uses the two above |
| `DiagnosticEvents`, `StatusProjection` | the events and their records; the projection, its lock and who emits what |
| `ToolLibrary` | the library as the tools' calls see it |
| `HardwareSupport`, `ProProfile`, `ProPeriodic`, `JoyConProfile`, `HardwareRunner` | the runner's arguments and evidence, its three scenarios, the choice between them |
| `Probe`, `ProbeTrace` | the probe's commands; the trace's closed list of fields |
| `Tools` | a program of `tools/` with its disk, console and worker |
| `MCWorker`, `MCWorkerErrors`, `MCProfileStore`, `MCReportPath`, `MCTransport`, `MCTools` | the constants for TLC |
| `WorkerProofs` | the safety properties of `WorkerCore`: sessions, status, answers, timing; what it believes of its link, and that it sleeps on nothing |
| `WorkerErrorsProofs` | which errors end a worker, what a tap leaves, and who is told of which failure, of `WorkerErrors` |
| `ReportPathProofs` | theorems about `SchedulerMachine`; the path implements it; what the console believes and is answered; the bytes on the wire and what they decode to; the orientation |
| `ControllerRuntimeProofs` | the safety properties of `ControllerRuntime`, and the refinement |
| `ProfileStoreProofs` | the same of `ProfileStore` |
| `TransportProofs` | adapters, profile, bonds and errors of `Transport`, with the documents' round trip |
| `ToolsProofs` | the adapter, the files, the diagnostics stream and the probe's cause of `Tools` |
| `ToolsEvidenceProofs` | what a scenario exits with is what its evidence says |

The same code appears in several modules, seen for different questions: a handler of
`worker.rs` is several actions of `WorkerCore` (where may a request, an event or
time come between?), one action of `WorkerErrors` (which error reaches whom?), and
a call's answer in `Transport` (which bond, which adapter?). What one module takes as
nondeterministic, another computes.

`WorkerCore` and `ControllerRuntime` meet at `step_runtime`. `WorkerCore` has
all of a step and of the peer, and takes the thread around it as simple as it
can; `ControllerRuntime` has all of the thread, of its owner and of the channels
between them, and takes the step as an action that may answer the command in
flight, fail, panic or go on. What one assumes of the other, the other shows: that a
step answers the command in flight in the end (`EveryCommandAnswered` of
`worker_live` for `SF_vars(Answers)`), that a requested shutdown is taken, that a command
comes alone.

### How `WorkerCore` follows the code

`pc` is the place in `step_runtime`: `begin` (command), `poll`, `event`,
`event_drive`, `drive`, `due`, `finish`, `wait`, and `fail`, `done`. One action
is the stretch between two looks at shared state (command channel, latch,
transport queue, clock). `check` says that the stretch just finished ends at a
`shutdown.take()`; `Claimed` is that call returning a request, and the step
then goes to `Close`. The commands are the disjuncts of `TakeCommand`, the
events of `HandleEvent`, the readiness drive of `Drive`, the policies' due work
of `Due`, and `run_worker_loop` is `Finish`, `Proceed`, `Wake`, `Close`, `Fail`.

The state corresponds to the code's as follows: `conn` is the
`ConnectionInProgress` with its handshake and gate (`topo`, `retry`, `accepted`,
`collected`); `tap` the pending tap of either policy; `sched` the next deadline
of the `ReportScheduler`, if any; `holdoff` is `reply_holdoff_until`; `sender`
the timer with the protocol session; `input` the input state store; `status`
the projection; `inFlight` the `CommandReceiver`'s request; `queue` and `token`
the transport queue and the activity channel; `shutdown` the latch. `wire`,
`shown`, `repliedAt` and `idle` are history that only properties read.

Abstractions, each named where it is made:

- A send has three outcomes: accepted, rejected (`SendRejected`), terminal (any
  other error). At most `MaxFaults` of a behaviour are not accepted.
- An input is a set of buttons; an output report is one of malformed, rumble
  only, unsupported subcommand, plain subcommand, and the subcommands that set
  the mode or the lights. `ReportPath` has the bytes, the IMU and the other settings,
  `StatusProjection` the counters.
- Time is an integer, and the clock may pass between any two stretches. The
  bounds `MaxTime`, `MaxEvents`, `MaxCommands`, `MaxFaults`, `MaxQueue` limit
  the environment and nothing else.
- `Pipelined = FALSE` is the client the `Controller` is: it borrows itself
  mutably and blocks for each result. `TRUE` is all that the channel permits:
  a second command behind the one in flight.
- `try_enqueue` and the notification after it are one step. Enqueue, latch and
  peer events are otherwise separate steps of separate threads.
- The cleanup sequence is one step here: only its guard, its neutral report and
  the end state matter to these properties (`ControllerRuntime` has its phases).
  A tap it interrupts is answered with the results of the step.
- Clock overflow errors are in `Scheduler` and `SchedulerMachine`; the worker
  model has instants large enough never to meet them. Panics
  are in `ControllerRuntime`.
- Branches that the code has and no state reaches (the lifecycle refusing
  `mark_ready`, a result without a request) go to `fail`, so that reaching
  them would show.
- `StaleFailure` lets the worker start on a status publisher whose earlier
  worker failed, or left an input in it, which is what reopening a controller does.
  `StatusCoherent` allows that input until the first session begins, and no longer.

### How `ControllerRuntime` follows the code

Two threads take steps. `client` is where the program's thread is in a call:
`enqueue`, `notify`, `response` of a command (command.rs), `latch`, `wake` of a
shutdown request, `completion`, `joining` of `finish_explicit`,
`finish_terminal` and the drop (worker_thread.rs), `idle` between calls, `gone`
after a drop. `worker` is where the worker's thread is: `take`, `look`, `work`,
`deliver`, `wait` of `run_worker_loop`, `answer` in `complete_worker_failure`,
`guard`, the four phases and `settle` of the cleanup, `panicked` in
`catch_unwind`'s handler, `teardown`, `publish`, `release`, `exited` at the end of
`run_started_worker`.

Between them are `slot`, `receiver`, `inFlight`, `response` (the command channel
with its one place, and the result channel of the caller), `token` (the activity
channel), `latch` (`ShutdownState`), `completion` and `listening` (the channel
of the `CloseCompletion`). `cause` and `failure` are the outcome being built,
`payload` the panic the join will report, `closing` the lifecycle's side of the
cleanup's guard, `status` the part of the projection this is about. `outcome`
is the latest call that returned with its errors in the order in which the
code reports or relates them; `phases` is history.

A call is a chain of actions, so that every step of the worker may come
between two of them: try_enqueue and notify, latch and notify, completion and
join, and, in the worker, publish, dropping the receiver and exiting.
`create_profile` is `open` followed by a pairing, with the code's three ways to end a
worker that did not pair: await a worker that failed or is lost, shut down
any other, and report the errors of either as related to the pairing's.

Abstractions: a command is one kind, its result `ok`, `err` or the
`failed` of a core that ends; a phase does well, fails or panics (the bound
`MaxFaults` counts failures, failing steps and panics); a transport whose open
failed before a worker owned it is `OpenRefused`; time is left out, so the
worker's deadline and the drop's timeout may come at any moment; a failed wait
(every activity sender gone while the owner lives) is left out.

Some definitions stand below a faulty variant that nothing refers to. The
variant is a plausible mistake, and `PROJECT.json`'s `mutants` pairs it with
the property that detects it: an eager commit (`EagerTransmit`) with
`ReportsAreSpaced`, a deadline that forgets the tap release
(`ForgetfulDeadline`) with `WakesInTime`, a token lost by a full channel
(`LostWakeup`) with `NobodyWaitsForever`, and so on.

### How `ProfileStore` follows the code

Each thread is in one call at a time, and `pc` says which file operation comes
next. `create_new` is `temporary`, `fill`, `link`, `unlink`, `settle`, with
`discard` after a failure; `upsert` is `load`, `stage`, `commit`, `settle`. Every
one of them may fail, and between any two the process may be killed or the power
may fail. `target` is what the path names now. `disk` is the set of what it may
name after a power failure: a link or a rename adds its file to it (cut short,
if that file was not synchronised), and only the synchronisation of the
directory reduces it to the present one.

A profile maps a namespace (the address of the local adapter) to one key, the peer
and its bond together, because `replace_pairing_keys` clears the other peers of
the namespace; everything else in the document never changes. `Foreign` is
anything else at the path: another program's file, a directory, a document that
does not parse. The code supports one live writer, so a second upsert does not
begin while one is under way; creations may race.

The model assumes a directory that can be synchronised, which the code has on Unix
only, and that a synchronisation which reports success did its work. Left out: the
randomly named file `AtomicWriteFile` leaves behind when it is killed. The
contents of the document and the choice of its namespace are in `ProfileDocument`
and `Transport`, where a write of the file is one step.

### How `WorkerErrors` follows the code

An action is a whole handler of `worker.rs` with the results of the sends and
phases it makes as parameters, so that two failures in one handler are told apart:
an error is a value with its kind, the place where it happened and its source.
`answer` is what the client was told, `ending` why the worker stops, `outcome` the
`WorkerOutcome`, `failure` the status; `met`, `fatal`, `shutting` and `cut` are
history (failures met during a command, fatal ones, those of the cleanup, what cut
a command short). Time is a choice: `TimesOut` or what comes before it.

Its environment is the worker's channel, which permits more than `Controller` does:
a shutdown during a command in flight needs a second owner, and `Controller`'s
`&mut` API has none. Left out because no caller reaches them: a failed wait, the
causes of a command that could not be delivered, and the scheduler's overflows.

### How `ReportPath` follows the code

`Subcommands` and `InputReports` are operators on byte sequences, translated from
`swbt-core`; the 36-byte IMU block is a set of bit places, as `put_bits` fills it.
`ReportPath` is a Periodic worker reduced to its sends: `sender` holds the timer and
the protocol session, `wire` the latest accepted report and what it was made `of`,
`motion` is the history of the turned angle that a quaternion must show. The
console asks for settings, believes what is acknowledged (`host`), repeats what is not
and may have one request open. Its decoder (`HostLayout`, `Field`) is written from
the layout, independently of the encoder.

Floating point is integers in a fixed unit (`StickUnit`, 1/8192 G, 1/1000 degree
per second). The controller turns about one axis, so that an orientation is one angle,
and sines are a table exact to 2^-30; rounding is that of the code.

### How `Transport` follows the code

`call` is the client's call under way with its phase; `session` is the backend's, `claimed`
the adapters it holds, `file` the profile, `trusted` what the consoles remember,
`owed` the bond paired last under each local address. `build` and `create` validate,
`open` selects an adapter on the present `bus` (by its index, bus location or
identity), `pair`, `reconnect` and `connect` begin a session, and the backend
answers with a bond or an error that goes through `TransportErrors` to the
caller. Others may replace the file, plug adapters, and make a console forget.

### How `Tools` follows the code

`tool` is the program: its job (the parsed arguments), where it is (`at`), its
evidence `log`, the results of its `calls`, the profile it found (`before`) and its exit code.
`world` is the disk, the adapters held and the link, `trace` the probe's file.
Argument vectors are the program's; a scenario's steps are taken from its list of
operations in order. The library's calls are `ToolLibrary`: each returns a result of the
kinds the other modules show it can. `StatusProjection` runs with them: the worker and
the client change the projection under the lock and emit what they made when
they are out of it, and `ProbeTrace` takes each record or refuses it.

`pro-profile` and `pro-periodic` look at fewer fields of the status than
`joycon-profile` does; the model follows each. Text formatting, time stamps and the
run identifiers are left out.

## 3. What is checked

| Run | Instance | Question |
|---|---|---|
| `report_path` | all three models, four states of the session, 7 inputs, 28 output reports, periods 1 and 2, 2 client or console actions, any send refused | what the console decodes is what was asked for; settings are the ones acknowledged; replies can be used; reports keep their phase |
| `worker_periodic` | Periodic, fresh or stale publisher, one button, pair/press/tap, 6 events, 2 commands, 1 fault, time 0..4 | session and status agree, answers are owed and given, wake-ups, spacing of reports, readiness |
| `worker_direct` | Direct, reconnect/press/release/tap queued behind one another, sessions modulo 3, 6 events, 3 commands, 1 fault, time 0..3 | nothing is slept on, an orderly close answers all, taps and input are transactional, nothing of an old session reaches a new one |
| `worker_live` | Direct, pair/tap, under fairness | every command taken is answered; every shutdown request ends the worker |
| `worker_spin` | as `worker_periodic` | violation: see finding 1 |
| `controller` | 2 opens or creates, 2 commands, 2 faults, closes and drops without bound, under fairness | no call finds a full channel or waits for ever; completion, cleanup, errors and status of every ending; implementation of `ControllerCalls` |
| `controller_reopened` | as `controller` | violation: see finding 2 |
| `profile_store` | 2 threads, 2 namespaces, 2 keys, 2 attempts at a temporary name, 3 calls, 1 fault, 2 crashes | no profile is cut short, created twice, replaced or lost; implementation of `AtomicProfile` |
| `profile_exists` | as `profile_store` | violation: see finding 3 |
| `transport` | 2 buses with a hub, a blank and an unreadable adapter, 2 consoles, 3 files of other programs, 4 calls, 1 fault, 1 outside change | bonds stay where they were paired, errors name their cause, the adapter is held while a worker lives, pairing needs leave |
| `tools` | 17 argument vectors of the runner, 13 of the probe, 14 disks, a console that refuses and goes away, one outside write | verdicts are earned, evidence names the cause, files are kept, the adapter is free, the trace takes every event |
| `errors` | both policies, 2 buttons, 3 commands, 3 faults of every kind | what each failure becomes for the client, the status, the outcome and the next opening |

Several properties are conjunctions of named parts, each a claim of its own:

| Property | Parts |
|---|---|
| `Coherent` | `SessionCoherent`, `StatusCoherent` |
| `AnswersAreOwed` | `OneResult`, `OwedIsPending` |
| `InputIsHeld` | `TapOwnsInput`, `DirectShowsCommitted` |
| `LinkIsReal` | `AcceptedInSession`, `ConnectedIsReal`, `FailureIsVisible` |
| `SleepsAndWakes` | `ArrivalsAreNoticed`, `NoBusyLoop` |
| `ReportsAreSpaced` | `TimersConsecutive`, `HoldoffRespected` |
| `NobodyWaitsForever` | `EveryCommandAnswered`, `ShutdownCompletes` |
| `OneAtATime` | `NeverFull`, `ClosedIsOver` |
| `TerminalIsTerminal` | `TerminalFinishIsTerminal`, `LostIsPublished` |
| `CleanupIsWhole` | `CleanedOnce`, `PhasesComplete` |
| `FailuresAreSeen` | `CloseTellsAll`, `FailureIsRecorded` |
| `EveryoneGetsAway` | `CallsReturn`, `DropReleases` |
| `Paced` | `Punctual`, `NoBurst` (of `SchedulerMachine`, here inside `ReportPath`) |
| `ToldIsTrue` | `CreatedOnce`, `KeysAreKept` |
| `ProfileIsKept` | `RemembersPairings`, `OnlyItsBond` |
| `FailuresAreTold` | `CallersAreTold`, `EndsAreTold` |
| `ExitTellsTheEvidence` | `SuccessIsEarned`, `FailureIsNamed` |
| `StreamIsTraceable` | `TraceAccepts`, `StreamIsOrdered` |

**Why the bounds are enough.** Six events are the three of a connection and
three output reports, which is what readiness needs (a mode and the lights) with
one to spare, or a connection that is lost and begun again. Two commands are a
connection and a tap; three
let one wait behind another or a third session begin, with which session
numbers modulo 3 (1, 2, then 1 again, 0 being skipped) wrap. The timer is
modulo 4, so a handful of reports wrap it. One fault is enough because every
faulty send ends the worker or leaves it in a state a faultless run reaches;
what several faults of one handler do to each other is the question of `errors`, whose
three are a rejected press, a fatal release and a failing cleanup.
`ReplyHoldoff` 1, `Period` 2 and `BootstrapRetry` 2 keep the order of the
code's constants where they meet: the holdoff is shorter than the retry. Two
poll batches meet the budget. Time reaches past a timeout, a tap's release, a
holdoff and a retry. For the controller, two opens are a worker and the
one opened after it, on the same status; two commands let one be left behind by an
answer that raced it; two faults are a failure or panic and another one in the
cleanup it starts, the deepest nesting the code handles.

For the profile, three calls are a creation and an upsert in
each namespace, or two creations that race and an upsert; two crashes let a power
failure follow a kill that left a temporary file behind; one
fault is a failed operation or another program at the path; two attempts at a name
are a retry and the last one. The threads are symmetric.

In `report_path` the byte values are the code's (clamps, 12-bit sticks, 16-bit samples,
21- and 19-bit quaternion fields); the two inputs beyond them are refused by the
code. The sessions begin where a console had just connected or had chosen a mode and turned by
210 degrees, so that two actions reach the wrap of an angle. Four calls of `transport` are
build or create, open, a pairing and what follows it; one replug or foreign write between any
two. A vector of arguments of `tools` stands for each check of the parsers and each path of a
scenario; one outside write meets every check that is made before a file is used.

**Fairness.** The worker's `FairSpec` assumes weak fairness of the worker thread's steps and
of the clock. The operating system schedules a thread that can run, and every
wait of the worker has a bound or a token; nothing is assumed of the client, the
owner or the peer, who may stop for ever. In the bounded instance the clock
stops at `MaxTime`, which lies beyond every deadline the instance can have.

The controller's `FairSpec` assumes weak fairness of the program's thread
inside a call (not of its decision to make one), of the worker's steps and of
its wake-up by the token. Its wake-up by a deadline is fair only with a command
in flight, which always has a deadline: an idle worker may have none, so that
a missing notification leaves it asleep (the mutants `SilentNotify` and
`SilentWake`). That a step answers in the end is strong fairness of `Answers`,
because the worker goes round its loop meanwhile; it is what `worker_live` shows
of the core. The other models have no liveness: their calls return by the
controller's, and their steps are the client's choice.

### Findings

1. `worker_spin`. `Periodic::next_deadline` (worker.rs:1405) falls back to the
   reply holdoff while no scheduler exists, also after the holdoff has passed.
   A peer that gets one reply and then does nothing makes the worker run
   without waiting until its operation deadline.
   `spec/initial/architecture.md:447` forbids busy loops. `NoBusyLoop` holds in
   Direct mode, which has no such fallback.
2. `controller_reopened`. `StatusPublisher::fail` (status.rs:237) keeps the first
   failure and returns, and only `begin_session` clears it. When a controller is
   reopened after a failed worker, `from_open_transport` sets the lifecycle to
   Open, and a second worker that fails before any session leaves it there: `close()`
   returns, no worker exists, and the status says Open, where
   `architecture.md:638` and the notes of unit 018 have Failed. With a fresh
   publisher a failing worker shows Failed (`FailureIsVisible`, in
   `LinkIsReal` of `worker_direct`); the failure itself is never lost
   (`FailuresAreSeen`, proved).

3. `profile_exists`. `create_profile` reports every `AlreadyExists` of
   `create_new` as `ProfileAlreadyExists` (create.rs:63), and `create_new` returns
   that kind without a profile in two cases: a regular file stands where the
   parent directory should be (store.rs:23, the shortest trace), or files left by
   killed processes with this process's number take all of `create_temporary`'s
   attempts (store.rs:112; the number comes back easily where process
   numbers are small, and the counter starts at 0 each time). The
   documentation of the error says that a profile exists at the destination.

Smaller observations, not claims of the list above: `diagnostics.rs:42` speaks of the
accepted counters as counting during the controller's lifetime, and they are the report
sender's (`sender.rs:25`), so that they start again with each worker a controller is opened with; an error of an output report that is followed by a request to close is not in the
outcome of that close (`WorkerErrors` has it that way, and `EndsAreTold` counts only the
failures that ended a worker).

## 4. What is proved

All proofs are checked by TLAPS (Z3, Zenon, LS4). Their assumptions are the
named `ASSUME`s of the modules: a period and a bootstrap retry of at least 1, a
timer modulus and a session modulus of at least 2, well-formed commands, set-up
sessions that are sessions, output reports and a device address made of bytes, four colors of
three bytes, inputs as the API's types allow them (sticks of two axes or of one direction and an amount, one motion sample or three),
an orientation last reported no later than the instant the clock starts at,
a report timer of at most a byte, and natural-number bounds of any size; and, of `Transport` and `Tools`:

- `BackendAssumption` and `DataAssumption`: which operation of the backend can return
  which error, and that addresses are six octets and the files others leave are
  texts the reader can hold (any of them: wrong schema, wrong kind, not deserializable);
- `DisksAssumption` and `ErrorsAssumption`: a disk says of every path what is there, and the
  value `"none"`, the absence of an error, is not the name of one.

A theorem that needs more (a fresh status, Direct
reporting) says so in its `ASSUME`.

- **`WorkerProofs`**. First `TypeIsCorrect` and `SessionsAreCoherent`:
  `IInv` is `TypeOK`, `SessionCoherent` and `BatchInHand`. The parts need each
  other: that a disconnection leaves a lifecycle the status can show needs the
  session to have been open, and the rest of a batch is a sequence only if the
  step handling an event has one. One lemma per action keeps `IInv`.
  Each property below is proved on top of it, with what it needs besides; `SessionAndStatusAgree`, `EveryAnswerIsOwed`,
  `InputIsHeldAsAsked` and `SpacingIsKept` put them together as the properties the runs check:
  - `StatusIsCoherent`: `EarlierInput`, that an input of an earlier worker is in
    the status only while the store is neutral and no session has begun, and
    `Final`, that an ended worker has no session and no step left that looks at
    the latch, so that nothing happens after the end;
  - `TimersAreConsecutive`: `TimerInv`, that the sender's timer is the one after
    the latest accepted report's, or 0 in a session that has none;
  - `AcceptedReportsHaveASession`: status coherence, since a report carries the
    published session;
  - `HoldoffIsRespected`: `HoldoffInv`, that while a session exists the
    holdoff reaches `ReplyHoldoff` past its latest accepted reply;
  - `ReadinessIsEarned`: `CollectedInv`, that a collected handshake saw the
    whole topology and an accepted bootstrap report;
  - `AtMostOneResult`, `OwedWorkIsPending`, `OrderlyCloseAnswersAll`: one
    invariant, `Accounts`: a command in flight is owed an answer or has it in
    the step's results, never both and never two; no result outlives its step;
    an orderly close leaves nothing in flight;
  - `WorkerWakesInTime` and `TapsOwnTheInput`: inductive with `IInv`;
  - `DirectIsTransactional`: `DirectInv`: the automatic report is never armed, and
    the input is neutral until the session is ready.

  And what the worker believes of the world outside it, on top of the same invariants:
  - `LinkIsThere` (`ConnectedIsReal`): `LinkInv` says that every link event in the
    queue or in the batch in hand has the peer's link up or a disconnection behind it, that
    the batch belongs to the current session or to one that has ended and is empty between
    polls, and hence that a link believed in and gone has its end in one of the two;
  - `LinkAndItsEndAreReal` (`LinkIsReal`) adds `FailureInv`: on a publisher without an
    earlier failure nothing but the end of this worker sets one;
  - `NothingIsSleptOn` (`ArrivalsAreNoticed`): `NoticeInv`, one part for each thing that can
    arrive (request, event, command), says in which stages of the step it is still
    going to be looked for and from which on the token must be set or the step may
    not wait; that a command in the channel is owed its answer (`Accounts`) makes
    the step that takes it the step that looks for it;
  - `DirectSleepsAndWakes` (`SleepsAndWakes`): `QuietInv` follows a step that finds nothing
    through its stages and knows that the deadline it will wait for is ahead. In
    Direct no report and no holdoff is armed, and a retry is only set once the
    topology is complete (`RetryInv`). Periodic is the finding `worker_spin`.

- **`WorkerErrorsProofs`**: `TerminalErrorsEnd` and `TapsLetGo`, from `ErrorsInv`: a running
  worker is healthy, or has met exactly one terminal error and is about to end with it; an
  ended one has the error as its cause; the error a tap carries is a rejected
  send, without which a tap could end the worker with the wrong one of its two errors; and
  in Direct what is held is what the peer was shown. The lemmas `OperationEnds`, `CommandEnds`
  and `TapEnds` are the classification of the three families of errors.

  `FailuresReachTheirCallers` (`FailuresAreTold`) adds two invariants. `CallInv` follows a
  command from its start to its answer: a command is in flight exactly while the worker
  holds its work (`FlightInv`); until then what was met on its behalf is the error its tap
  carries, if any, and once it is answered the answer `Explains` what was met (`AnswerInv`). `EndInv`
  follows the worker to its end: what it told last is an error of its transport (`FatalShape`), a
  refused opening names what refused it before what its cleanup met (`RefusedInv`), and the outcome
  keeps the first failure of the cleanup and the status names the outcome's cause (`OutcomeInv`,
  `StatusInv`). The first failure of a cleanup is the least index of the phases' results
  that failed, so that no filtered sequence has to be reasoned about.

- **`ReportPathProofs`**: of the scheduler, `PhaseIsKept`, `DeadlineIsOnTime` and
  `OverrunsDoNotBurst`, from an invariant that bounds the deadline by the clock;
  `PathSchedules`, that the path implements `SchedulerMachine`, so
  that what is proved there holds of the automatic reports (`ReportsArePaced`); and
  `BeliefIsTrue` (`SettingsAreAcknowledged`), from `AckInv`: whatever is on its way to
  the device is the one request the console asks, any number of times, or would change nothing
  any more, and the device has carried it out exactly if an answer is on its way back. It
  rests on `AnswerEffect`, that a reply which can be prepared carries the session its request
  asks for and names the request, and on `AcknowledgedTwice`, that repeating is harmless.

  Two theorems are about the bytes. `RepliesAreUsable` (`RepliesAnswer`) says for every model,
  address, set of colors and output report what a reply holds: `ReplyBytes` places the
  header, the acknowledgement and the data in the 50 bytes, `StatelessAnswers` and `NextSession`
  say for each subcommand how long its data is and what it starts with, `FlashIsFactory` that the
  flash the device answers from (`byte_at`) is the factory's table, byte for byte, and
  `Fits` that a read which is answered fits the reply. The sequences are hidden behind
  `IsSeq`, `Places` and `Part`, which say where a byte of a concatenation comes from. `PathTypesAreCorrect`
  (`PathTypeOK`) shows that all that is accepted on the wire is bytes, from `WireInv`: the
  input in store can be encoded (`InState`: raw sticks between 0 and 4095, three integer samples), since every
  conversion of an input a client can ask for ends there (`ConvertedInState`: what is scaled
  and rounded to an axis stays within its calibration), the timer fits a byte, and a request
  sets only integers (`EstablishedType`).

  Two more are about what the bytes mean, for every input, model and orientation.
  `ReportsAreDecoded` (`ReportsDecode`) rests on `DecodeInv`: the input in store is what the
  last request `Meant`. `ConvertedMeant` is the rounding: a stick stays within half a step of what was
  asked for, a sample within half a unit. `ButtonsDecoded` shows that every button has a bit and no
  two share one, `StickShown` that two axes of 12 bits come out of three bytes as they
  went in, and `WordRead` that two bytes are the 16-bit number whose bits are `put` at their place
  in the block (`Holds`, `Carries`), signed as the encoder means it (`StandardWords`,
  `QuaternionWords`). None unfolds a recursion: a byte is the sum of eight bits, a word of sixteen.
  `OrientationsAreShown` (`OrientationIsShown`) adds `TurnInv`: the orientation the session goes on from is
  what an observer of the accepted reports adds up (`Turns`), and it was reported no
  later than now, so that the next delta is not negative. `TurnIsShown` is the encoding: a largest component
  exists (`LargestExists`), the other three are at most its size and so fit 21 bits
  (`Sines`, `QuaternionComponents`), and every field holds the bits
  of what was put there, the last component over two of them (`PackedHolds`).

- **`ControllerRuntimeProofs`**: the properties below (`CallsDoNotOverlap`,
  `TerminalIsCertain` and `NoFailureIsLost` join them as they are checked) and `Refinement`, that
  `ControllerRuntime` implements `ControllerCalls`, from one inductive invariant
  of nine parts, each kept by a lemma with one step per action:
  - `OwnerInv`: a worker is owned from open to the join or the timeout of a drop,
    and has given up its session when it is over; with `ChannelInv`, that a
    command is on its way only while its caller waits, it gives
    `ChannelNeverFull` and `CloseIsOver`;
  - `LatchInv` (a shutdown is requested once, by a call that then waits) and `EndInv` (only
    a core whose loop is over answers `failed`) give `TerminalFinishes`;
  - `CompletionInv`, that the completion is the outcome in the worker's hands, gives
    `LossIsPublished`;
  - `CleanupInv` ranks the phases: the history is increasing and the cleanup
    begins once, hence `CleanupOnce`;
  - `HistoryInv`, on top of these, gives `CleanupRunsWhole` (`CleanupIsWhole`): without a
    panic the failure in the worker's hands is that of the first phase that failed, every
    phase the worker has passed was attempted, and the drain exactly if the end calls for it;
  - `PanicInv` and `OutcomeInv`, that a caught panic is the cause and that an orderly
    end without a first failure had none, give `FailuresAreRecorded` and
    `CloseIsHonest`.

  `Refinement` maps each action to one of `ControllerCalls` or to no step. The one
  that needs the invariant most is the answer of an orderly close to the command it
  interrupted: a single caller cannot have both a command and a close under way, so
  it is no step at all.

- `ProfileStore`, for all sets of threads, namespaces and keys and all bounds:
  `TypeIsCorrect` (no `Torn` at the path, ever), `CreationIsUnique` and
  `KeysSurvive` (together `ReturnsAreHonest`), and `Refinement`. `TypeOK` alone is not inductive. `StageInv` adds
  that a file is synchronised before it is published and that a thread past its
  publication has a profile at the path; `UpsertInv` that the one upsert carries the
  very profile it will replace; `CreateInv` that one creation at a time is past
  its link and none once one has succeeded; `DiskInv` that once a call has
  succeeded everything the disk may hold is a profile, with keys that are owed. In the
  refinement a link is a creation, a rename puts one key, the
  synchronisation of the directory settles, a power failure crashes, and all else is no step.

- **`TransportProofs`**. `WrittenIsRead`: the text a valid document is written as is
  read back as that document, for every identity, namespace and key. It is what makes
  the inductive invariant close: the file the key store wrote is the file it opens next. The
  invariant `IInv` has ten parts: `StoredOK` (the file is absent or a text the reader can hold),
  `AdaptersOK`, `ControllerOK`, `RuntimeOK`, `SessionOK` and `CallOK` (the shapes of the bus, the
  controller, its runtime, its session with the backend and the call under way: which phase
  goes with which runtime, and that a session's address is what its adapter answers now),
  `Unpaired` (a creation has not paired before its worker is told to), `Held` (the backend's
  claim is the live session's adapter, and a session lives exactly while the runtime runs),
  `CountersOK`, and `RemembersPairings` (what is owed to the consoles is in the profile). The
  parts need each other: that an upsert keeps the other namespaces needs the file to be
  readable, that it stays so needs the session's address to be six octets, and that
  needs the adapter not to have been given another address while it is held. On top of it:
  - `AdaptersAreReleased` (`PortReleased`) follows from `Held`;
  - `ProfilesAreKept` (`ProfileIsKept`): a step that changes the file is an upsert, which
    replaces one peer of one namespace (`replace_pairing_keys`), a creation, or another program;
  - `ErrorsTellTheCause` (`ErrorTellsCause`) goes through every way out of a call, with `Honest`,
    that a new result names its cause (`Told`) and that a bond is denied only where there is none,
    as what each must show; `Unpaired` is what keeps a creation's failure from being one of the
    bond store;
  - `PairingIsLastResort` (`PairsOnlyWithoutBond`) is the other half of `Honest`.

- **`ToolsProofs`**.
  - `AdapterIsFree` and `FilesStay`: who holds the adapter is a function of the place the
    program is at (`HeldInv`), and every step that touches the disk makes a file that was absent
    or refreshes the key of the profile a reconnection uses (`AllKept`).
  - `StreamsAreTraceable`: `StreamInv` follows the events from the projection's lock to the
    subscriber. The queue of what was made and not heard `Leads` from what the trace heard last to
    what the projection holds, one event after the other, and the sender's counters are the
    status' within a session; the record each event becomes has exactly the fields
    the trace lists for its name and context (`FieldsAreTaken`, `EventsAreTaken`).
  - `ProbeNamesItsCause`: `CauseInv`: while a connection is under way the error kept is the first of
    the calls that failed (`Named`); the places that compare the profile or open the adapter
    again are only reached without one and after a close with neutral; a connection that
    reaches its end without one is `Sound`; and what is printed is one of the three ways
    `Printed` lists.

- **`ToolsEvidenceProofs`**: `ExitIsTold` (`ExitTellsTheEvidence`), for any arguments, disks and
  errors. The evidence only grows, so that a place in it keeps its rank
  (`Positions`, `Rank`), and `Completed` says of a list which operations are complete
  without filtering it. `EvidenceInv` says where a scenario stands: the first n operations of
  its sequence have completed, in order and once, and either something in the evidence `Tells`
  against it or what it has passed (close, reopening, the profile compared) is there exactly
  as often as a success needs. `Unprinted` says that no scenario is at the place where the probe prints. The three scenarios have a lemma for each way
  they write, fail, begin, close and end.

So every invariant and every action property of the passing runs is a theorem here, two of them
with a hypothesis. Only model-checked are the liveness properties (`NobodyWaitsForever`, `EveryoneGetsAway`), which are out of the prover's
reach. `LinkIsReal` is proved for a fresh publisher and
`SleepsAndWakes` for Direct: with an earlier failure, and in Periodic, they are what the
findings 2 and 1 refute.

## 5. What is not modelled, and the plan

Not modelled: the measurement harness (`runtime_measurement.rs`), the fake transports and the
manual clocks, which are the tests' environment (the models have a nondeterministic one in
their place); the Bluetooth stack, a dependency; the text of messages, help and
documents; floating-point rounding beyond what the fixed units show; rotations about more
than one axis; and the branches no caller reaches that section 2 names. The
lifecycle's internal Failed state is left for Closing in the same step and is not kept apart,
so that the component counts as partly modelled.

What a proof could still add: rotations about several axes at once, which need the
products of quaternions the models leave out, and the liveness
properties, for a prover with fairness in reach.
