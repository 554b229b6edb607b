------------------------------- MODULE Tools -------------------------------
(* The programs of tools/ over one adapter and one disk: a scenario of the  *)
(* hardware runner or a command of the probe, among other programs that      *)
(* store profiles and a console that may go away.                           *)
EXTENDS Probe

CONSTANTS RunnerArguments, ProbeArguments, Disks

\* A disk has something, or nothing, at every path.
ASSUME DisksAssumption == \A disk \in Disks : DOMAIN disk = Paths
\* The kinds of errors name an error; a program that has none says so.
ASSUME ErrorsAssumption == "none" \notin ConnectionErrors \cup CallErrors

Runner == INSTANCE HardwareRunner

statusVars == <<projection, caller, pending, heard>>
vars == <<tool, world, trace, statusVars>>

Init ==
    /\ tool = Idle /\ trace = "closed" /\ Status!StatusInit
    /\ \E disk \in Disks :
        world = [disk |-> disk, held |-> {}, linked |-> FALSE, outside |-> 0]

Scenario ==
    /\ \/ \E arguments \in RunnerArguments : Runner!run(arguments)
       \/ Runner!run_hardware
       \/ Runner!write_event
    /\ UNCHANGED <<trace, statusVars>>
ProbeRuns ==
    \/ /\ \/ \E arguments \in ProbeArguments : Start(arguments)
          \/ ProbeSteps
       /\ UNCHANGED statusVars
    \/ finish_connection
Outside ==
    /\ \/ LinkLost
       \/ \E path \in Paths, content \in Written : Stores(path, content)
    /\ UNCHANGED <<trace, statusVars>>
Ended == tool.at = "done" /\ UNCHANGED vars

Next ==
    \/ Scenario \/ ProbeRuns \/ Outside \/ Ended \/ WorkerReports
    \/ \E thread \in {"worker", "client"}, writable \in BOOLEAN : Records(thread, writable)

Spec == Init /\ [][Next]_vars

(***************************************************************************)
(* Properties                                                              *)
(***************************************************************************)

Job == tool.job
IsScenario == Job.name \in Runner!Scenarios
ToolEnds(code) == tool.at = "done" /\ tool.exit = code

\* Where an event is in the evidence, and how many of it come up to one of them.
Positions(log, event) == {i \in DOMAIN log : log[i].event = event}
Rank(log, event, i) == Cardinality({j \in Positions(log, event) : j <= i})

Findings == {"profile_exists", "profile_unchanged", "controller_model_valid",
             "opposite_model_rejected", "target_unchanged"}
\* An event that says why a scenario did not succeed
Tells(e) ==
    \/ e.event = "operation_failure"
    \/ e.event = "direct_idle_complete" /\ e.input_reports_accepted_delta > 0
    \/ e.event = "profile_postflight" /\ \E f \in Findings \cap DOMAIN e : ~e[f]
Operations(job) ==
    CASE job.name = "joycon-profile" -> Runner!JoyCon!run_input_sequence(job)
      [] job.name = "pro-profile" ->
            IF Runner!Profile!expects_connection(job)
            THEN Runner!Profile!run_input_sequence(job.mode) ELSE <<>>
      [] job.name = "pro-periodic" -> Runner!Periodic!run_input_sequence

\* The first n operations have completed, in their order, and no others.
Completed(log, operations, n) ==
    LET places == Positions(log, "operation_complete")
    IN  /\ Cardinality(places) = n
        /\ \A i \in places :
            log[i].operation = operations[Rank(log, "operation_complete", i)].name

\* A scenario exits with 0 only after every operation of its sequence, a close
\* and a reopening, with nothing in the evidence that speaks against it and
\* the profile as it was found (the success of run_hardware).
SuccessIsEarned ==
    IsScenario /\ ToolEnds(0) =>
        /\ \A i \in DOMAIN tool.log : ~Tells(tool.log[i])
        /\ Completed(tool.log, Operations(Job), Len(Operations(Job)))
        /\ Cardinality(Positions(tool.log, "close_complete")) = 1
        /\ Cardinality(Positions(tool.log, "adapter_reopen_complete")) = 1
        /\ tool.before # <<>> => world.disk[Job.profile] = tool.before[1]

\* A scenario that exits with 1 has said why in its evidence, and completed it:
\* no path through run_hardware ends silently.
FailureIsNamed ==
    IsScenario /\ ToolEnds(1) =>
        /\ \E i \in DOMAIN tool.log : Tells(tool.log[i])
        /\ Last(tool.log).event = "runner_complete" /\ ~Last(tool.log).success

\* What a scenario exits with is what its evidence says.
ExitTellsTheEvidence == SuccessIsEarned /\ FailureIsNamed

\* No program opens the adapter while a controller of its own still holds it,
\* and none ends with the adapter held: every path closes first.
OpensFreeAdapter ==
    /\ tool.at \in {"open", "pair", "reopen_open"} => world.held = {}
    /\ tool.at = "done" => world.held = {}

\* No program writes over a file it finds: a profile changes only when the
\* console gives a new key, and the source of a stale copy never does.
FilesAreKept ==
    [][\A path \in Paths : world.disk[path] # Absent /\ world'.disk[path] # world.disk[path] =>
        /\ tool.at = "reconnect" /\ path = Job.profile
        /\ world'.disk[path] = [world.disk[path] EXCEPT !.key = "f"]]_vars

\* A connection of the probe that exits with 0 was closed with neutral, its
\* trace is complete, and after motion the profile is as before and the
\* adapter opened again; one that fails names its first error, unless the
\* trace is what failed (finish_connection, finish_trace).
ProbeTellsTheCause ==
    Job.name \in {"pair", "reconnect"} /\ tool.at = "done" =>
        /\ tool.exit = 0 =>
            /\ trace = "clean" /\ "close" \in tool.passed /\ tool.calls = <<>>
            /\ Job.imu => "reopen" \in tool.passed /\ world.disk[Job.profile] = tool.before[1]
        /\ tool.exit = 1 =>
            LET said == Head(tool.log).error_kind
            IN  \/ said = "output_write_failed" /\ tool.calls = <<>>
                \/ said = "trace" /\ trace # "clean"
                \/ tool.calls # <<>> /\ said = error_kind_name(Head(tool.calls)) /\ trace = "clean"

\* The trace takes every diagnostic the library emits and the environment: the
\* two declarations of the schema, event.rs and trace.rs, agree.
TraceAccepts == trace # "refused"
StreamIsOrdered == Status!StreamIsOrdered

\* What a controller emits is a stream of sessions in order, and the probe's
\* trace can hold all of it.
StreamIsTraceable == [][TraceAccepts']_vars /\ StreamIsOrdered
=============================================================================
