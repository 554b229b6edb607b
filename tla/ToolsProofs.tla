---------------------------- MODULE ToolsProofs ----------------------------
(***************************************************************************)
(* The programs of tools/, for any arguments, disks, paths and errors: what *)
(* they leave of the adapter and the disk, that every diagnostics event    *)
(* they receive fits the trace they write, and that the error they print   *)
(* is the first one they met.                                              *)
(***************************************************************************)
EXTENDS Tools, SequenceTheorems, TLAPS

-----------------------------------------------------------------------------
(* Who holds the adapter is told by where the program is                    *)

Connected ==
    {"reconnect", "ready", "idle", "input", "operation", "close", "close_failed",
     "close_unexpected", "close_expected", "button", "imu", "imu_wait", "imu_neutral",
     "imu_last"}
Holder(at) ==
    IF at \in Connected THEN {"run"} ELSE IF at = "reopen_close" THEN {"reopen"} ELSE {}

Shape ==
    /\ DOMAIN world = {"disk", "held", "linked", "outside"}
    /\ DOMAIN world.disk = Paths
    /\ DOMAIN tool = {"job", "at", "todo", "calls", "log", "before", "passed", "failed", "exit"}
HeldInv == Shape /\ world.held = Holder(tool.at)

\* What a step may do to the disk: fill what is absent, or refresh a key.
Kept(path) ==
    world.disk[path] # Absent /\ world'.disk[path] # world.disk[path] =>
        /\ tool.at = "reconnect" /\ path = Job.profile
        /\ world'.disk[path] = [world.disk[path] EXCEPT !.key = "f"]
AllKept == \A path \in Paths : Kept(path)

\* A step that leaves the disk alone.
LEMMA Moves ==
    ASSUME HeldInv, DOMAIN tool' = DOMAIN tool, DOMAIN world' = DOMAIN world,
           world'.disk = world.disk, world'.held = Holder(tool'.at)
    PROVE  HeldInv' /\ AllKept
BY DEF HeldInv, Shape, AllKept, Kept

\* A step that makes a file.
LEMMA Makes ==
    ASSUME HeldInv, DOMAIN tool' = DOMAIN tool, DOMAIN world' = DOMAIN world,
           world'.held = Holder(tool'.at), NEW at, NEW content,
           world'.disk = [world.disk EXCEPT ![at] = content],
           world.disk[at] = Absent \/ content = world.disk[at]
    PROVE  HeldInv' /\ AllKept
BY DEF HeldInv, Shape, AllKept, Kept

\* A step that touches nothing, and one that drops the controllers.
LEMMA Rests ==
    ASSUME HeldInv, DOMAIN tool' = DOMAIN tool, UNCHANGED world,
           Holder(tool'.at) = Holder(tool.at)
    PROVE  HeldInv' /\ AllKept
BY Moves DEF HeldInv

LEMMA Drops ==
    ASSUME HeldInv, DOMAIN tool' = DOMAIN tool, Holder(tool'.at) = {},
           world' = [world EXCEPT !.held = {}, !.linked = FALSE]
    PROVE  HeldInv' /\ AllKept
<1>1. /\ DOMAIN world' = DOMAIN world /\ world'.disk = world.disk
      /\ world'.held = Holder(tool'.at)
  BY DEF HeldInv, Shape
<1> QED
  BY <1>1, Moves

\* A controller is opened, and closed.
LEMMA Takes ==
    ASSUME HeldInv, DOMAIN tool' = DOMAIN tool, world.held = {}, NEW who,
           Holder(tool'.at) = {who}, world' = [world EXCEPT !.held = @ \cup {who}]
    PROVE  HeldInv' /\ AllKept
<1>1. /\ DOMAIN world' = DOMAIN world /\ world'.disk = world.disk
      /\ world'.held = {who}
  BY DEF HeldInv, Shape
<1> QED
  BY <1>1, Moves

LEMMA Gives ==
    ASSUME HeldInv, DOMAIN tool' = DOMAIN tool, NEW who, world.held \ {who} = {},
           Holder(tool'.at) = {}, world' = [world EXCEPT !.held = @ \ {who}, !.linked = FALSE]
    PROVE  HeldInv' /\ AllKept
<1>1. /\ DOMAIN world' = DOMAIN world /\ world'.disk = world.disk
      /\ world'.held = {}
  BY DEF HeldInv, Shape
<1> QED
  BY <1>1, Moves

\* A profile that is made, and one whose key may be new.
LEMMA Creates ==
    ASSUME HeldInv, DOMAIN tool' = DOMAIN tool, world.held = {},
           NEW at, NEW model, NEW outcome, NEW content,
           world.disk[at] # Absent => outcome # "Ok",
           Holder(tool'.at) = IF outcome = "Ok" THEN {"run"} ELSE {},
           world' = [world EXCEPT
                !.disk[at] = IF outcome = "Ok" \/ (content \notin {Absent, Unreadable} /\ @ = Absent)
                             THEN [content EXCEPT !.model = model] ELSE @,
                !.held = IF outcome = "Ok" THEN @ \cup {"run"} ELSE @,
                !.linked = outcome = "Ok"]
    PROVE  HeldInv' /\ AllKept
<1>1. DOMAIN world' = DOMAIN world /\ world'.held = Holder(tool'.at)
  BY DEF HeldInv, Shape
<1>2. PICK new : /\ world'.disk = [world.disk EXCEPT ![at] = new]
                 /\ world.disk[at] = Absent \/ new = world.disk[at]
  BY DEF HeldInv, Shape
<1> QED
  BY <1>1, <1>2, Makes

LEMMA Refreshes ==
    ASSUME HeldInv, DOMAIN tool' = DOMAIN tool, tool.at = "reconnect",
           Holder(tool'.at) = {"run"}, NEW content, NEW linked,
           content = world.disk[Job.profile]
           \/ content = [world.disk[Job.profile] EXCEPT !.key = "f"],
           world' = [world EXCEPT !.disk[Job.profile] = content, !.linked = linked]
    PROVE  HeldInv' /\ AllKept
<1>1. /\ DOMAIN world' = DOMAIN world /\ world'.held = world.held
      /\ world'.disk = [world.disk EXCEPT ![Job.profile] = content]
  BY DEF HeldInv, Shape
<1>2. HeldInv'
  BY <1>1 DEF HeldInv, Shape, Holder, Connected
<1>3. AllKept
  BY <1>1 DEF HeldInv, Shape, AllKept, Kept
<1> QED
  BY <1>2, <1>3

-----------------------------------------------------------------------------
(* The steps of the scenarios                                               *)

LEMMA JoyConSteps ==
    ASSUME HeldInv, Runner!JoyCon!run_hardware
    PROVE  HeldInv' /\ AllKept
<1> USE DEF Runner!JoyCon!Here, Runner!JoyCon!At, Runner!JoyCon!Goes, Runner!JoyCon!Passes,
            Runner!JoyCon!Complete, Runner!JoyCon!Completes
<1>1. CASE Runner!JoyCon!prepare_profile
  <2>1. /\ tool.at = "start" /\ DOMAIN tool' = DOMAIN tool
        /\ \/ tool'.at \in {"pair", "build"} /\ UNCHANGED world
           \/ tool'.at = "done" /\ Runner!JoyCon!dropped
    BY <1>1 DEF Runner!JoyCon!prepare_profile, HeldInv, Shape
  <2>2. Holder(tool.at) = {} /\ Holder(tool'.at) = {}
    BY <2>1 DEF Holder, Connected
  <2> QED
    BY <2>1, <2>2, Rests, Drops DEF Runner!JoyCon!dropped
<1>2. CASE Runner!JoyCon!create_paired
  <2> PICK made \in Runner!JoyCon!Creations(tool.job.profile) :
        /\ Runner!JoyCon!created(tool.job.profile, tool.job.model, made[1], made[2])
        /\ IF made[1] = "Ok" THEN Runner!JoyCon!Goes("ready", <<>>)
           ELSE Runner!JoyCon!Goes("late_postflight",
                                   <<Runner!JoyCon!ControllerFailure("connection", made[1])>>)
    BY <1>2 DEF Runner!JoyCon!create_paired
  <2>1. /\ tool.at = "pair" /\ DOMAIN tool' = DOMAIN tool
        /\ tool'.at = IF made[1] = "Ok" THEN "ready" ELSE "late_postflight"
    BY <1>2 DEF Runner!JoyCon!create_paired, HeldInv, Shape
  <2>2. world.disk[tool.job.profile] # Absent => made[1] # "Ok"
    BY DEF Runner!JoyCon!Creations
  <2>3. /\ Holder(tool'.at) = IF made[1] = "Ok" THEN {"run"} ELSE {}
        /\ world.held = {}
    BY <2>1 DEF Holder, Connected, HeldInv
  <2> QED
    BY <2>1, <2>2, <2>3, Creates DEF Runner!JoyCon!created, Runner!JoyCon!IsFile
<1>3. CASE Runner!JoyCon!BuildRun
  <2>1. /\ tool.at = "build" /\ DOMAIN tool' = DOMAIN tool
        /\ \/ tool'.at = "open" /\ UNCHANGED world
           \/ tool'.at = "done" /\ Runner!JoyCon!dropped
    BY <1>3 DEF Runner!JoyCon!BuildRun, HeldInv, Shape
  <2>2. Holder(tool.at) = {} /\ Holder(tool'.at) = {}
    BY <2>1 DEF Holder, Connected
  <2> QED
    BY <2>1, <2>2, Rests, Drops DEF Runner!JoyCon!dropped
<1>4. CASE Runner!JoyCon!open
  <2>1. /\ tool.at = "open" /\ DOMAIN tool' = DOMAIN tool
        /\ \/ tool'.at = "reconnect" /\ Runner!JoyCon!opened("run", "Ok")
           \/ tool'.at = "done" /\ Runner!JoyCon!dropped
    BY <1>4 DEF Runner!JoyCon!open, HeldInv, Shape
  <2>2. world.held = {} /\ Holder("reconnect") = {"run"} /\ Holder("done") = {}
    BY <2>1 DEF Holder, Connected, HeldInv
  <2>3. CASE tool'.at = "reconnect" /\ Runner!JoyCon!opened("run", "Ok")
    BY <2>1, <2>2, <2>3, Takes DEF Runner!JoyCon!opened
  <2>4. CASE tool'.at = "done" /\ Runner!JoyCon!dropped
    BY <2>1, <2>2, <2>4, Drops DEF Runner!JoyCon!dropped
  <2> QED
    BY <2>1, <2>3, <2>4
<1>5. CASE Runner!JoyCon!reconnect
  <2>1. /\ tool.at = "reconnect" /\ DOMAIN tool' = DOMAIN tool
        /\ tool'.at \in {"ready", "close_failed"}
        /\ \E outcome : Runner!JoyCon!reconnected(tool.job.profile, outcome)
    BY <1>5 DEF Runner!JoyCon!reconnect, HeldInv, Shape
  <2>2. Holder(tool'.at) = {"run"}
    BY <2>1 DEF Holder, Connected
  <2>3. PICK content, linked :
            /\ content = world.disk[Job.profile]
               \/ content = [world.disk[Job.profile] EXCEPT !.key = "f"]
            /\ world' = [world EXCEPT !.disk[Job.profile] = content, !.linked = linked]
    BY <2>1, ZenonT(40) DEF Runner!JoyCon!reconnected, Runner!JoyCon!Refreshed, Job
  <2> QED
    BY <2>1, <2>2, <2>3, Refreshes
<1>6. CASE Runner!JoyCon!close_without_neutral \/ Runner!JoyCon!close_controller
  <2>1. /\ tool.at \in {"close_failed", "close"} /\ DOMAIN tool' = DOMAIN tool
        /\ tool'.at \in {"late_postflight", "reopen"} /\ Runner!JoyCon!closed("run")
    BY <1>6 DEF Runner!JoyCon!close_without_neutral, Runner!JoyCon!close_controller,
                HeldInv, Shape
  <2>2. Holder(tool'.at) = {} /\ world.held \ {"run"} = {}
    BY <2>1 DEF Holder, Connected, HeldInv
  <2> QED
    BY <2>1, <2>2, Gives DEF Runner!JoyCon!closed
<1>7. CASE Runner!JoyCon!verify_pre_input_idle \/ Runner!JoyCon!verify_direct_idle
           \/ Runner!JoyCon!operation_start \/ Runner!JoyCon!OperationCall
           \/ Runner!JoyCon!run_operation \/ Runner!JoyCon!InputDone
  <2>1. /\ UNCHANGED world /\ DOMAIN tool' = DOMAIN tool
        /\ tool.at \in Connected /\ tool'.at \in Connected
    BY <1>7 DEF Runner!JoyCon!verify_pre_input_idle, Runner!JoyCon!verify_direct_idle,
                Runner!JoyCon!operation_start, Runner!JoyCon!OperationCall,
                Runner!JoyCon!run_operation, Runner!JoyCon!InputDone, HeldInv, Shape, Connected
  <2> QED
    BY <2>1, Rests DEF Holder
<1>8. CASE Runner!JoyCon!VerifyReopen
  <2>1. DOMAIN tool' = DOMAIN tool
        /\ \/ tool.at = "reopen" /\ tool'.at \in {"reopen_open", "postflight"} /\ UNCHANGED world
           \/ tool.at = "reopen_open" /\ tool'.at = "postflight" /\ UNCHANGED world
           \/ /\ tool.at = "reopen_open" /\ tool'.at = "reopen_close"
              /\ Runner!JoyCon!opened("reopen", "Ok")
           \/ tool.at = "reopen_close" /\ tool'.at = "postflight" /\ Runner!JoyCon!closed("reopen")
    BY <1>8 DEF Runner!JoyCon!VerifyReopen, Runner!JoyCon!verify_adapter_reopen,
                Runner!JoyCon!reopen_build, Runner!JoyCon!reopen_open,
                Runner!JoyCon!reopen_close, Runner!JoyCon!opened, HeldInv, Shape
  <2>2. /\ Holder("reopen") = {} /\ Holder("reopen_open") = {} /\ Holder("postflight") = {}
        /\ Holder("reopen_close") = {"reopen"}
    BY DEF Holder, Connected
  <2>3. CASE tool.at \in {"reopen", "reopen_open"} /\ tool'.at \in {"reopen_open", "postflight"}
             /\ UNCHANGED world
    BY <2>1, <2>2, <2>3, Rests
  <2>4. CASE tool.at = "reopen_open" /\ tool'.at = "reopen_close"
             /\ Runner!JoyCon!opened("reopen", "Ok")
    BY <2>1, <2>2, <2>4, Takes DEF Runner!JoyCon!opened, HeldInv
  <2>5. CASE tool.at = "reopen_close" /\ tool'.at = "postflight" /\ Runner!JoyCon!closed("reopen")
    BY <2>1, <2>2, <2>5, Gives DEF Runner!JoyCon!closed, HeldInv
  <2> QED
    BY <2>1, <2>3, <2>4, <2>5
<1>9. CASE Runner!JoyCon!verify_profile_postflight
  <2>1. DOMAIN tool' = DOMAIN tool /\ tool'.at = "done" /\ Runner!JoyCon!dropped
    BY <1>9 DEF Runner!JoyCon!verify_profile_postflight, HeldInv, Shape
  <2> QED
    BY <2>1, Drops DEF Runner!JoyCon!dropped, Holder, Connected
<1> QED
  BY <1>1, <1>2, <1>3, <1>4, <1>5, <1>6, <1>7, <1>8, <1>9 DEF Runner!JoyCon!run_hardware

LEMMA ProfileSteps ==
    ASSUME HeldInv, Runner!Profile!run_hardware
    PROVE  HeldInv' /\ AllKept
<1> USE DEF Runner!Profile!Here, Runner!Profile!At, Runner!Profile!Goes, Runner!Profile!Passes,
            Runner!Profile!Complete, Runner!Profile!Completes
<1>1. CASE Runner!Profile!prepare_profile
  <2>1. /\ tool.at = "start" /\ DOMAIN tool' = DOMAIN tool
        /\ \/ tool'.at = "done" /\ Runner!Profile!dropped
           \/ tool'.at = "build" /\ UNCHANGED world
           \/ /\ tool'.at = "build" /\ world.disk[tool.job.profile] = Absent
              /\ \E stale : world' = [world EXCEPT !.disk[tool.job.profile] = stale]
    BY <1>1 DEF Runner!Profile!prepare_profile, Runner!Profile!PreflightFault, HeldInv, Shape
  <2>2. /\ Holder("start") = {} /\ Holder("done") = {} /\ Holder("build") = {}
    BY DEF Holder, Connected
  <2>3. CASE tool'.at = "done" /\ Runner!Profile!dropped
    BY <2>1, <2>2, <2>3, Drops DEF Runner!Profile!dropped
  <2>4. CASE tool'.at = "build" /\ UNCHANGED world
    BY <2>1, <2>2, <2>4, Rests
  <2>5. ASSUME tool'.at = "build", world.disk[tool.job.profile] = Absent,
               NEW stale, world' = [world EXCEPT !.disk[tool.job.profile] = stale]
        PROVE  HeldInv' /\ AllKept
    <3>1. /\ DOMAIN world' = DOMAIN world /\ world'.held = world.held
          /\ world'.disk = [world.disk EXCEPT ![tool.job.profile] = stale]
      BY <2>5 DEF HeldInv, Shape
    <3>2. world'.held = Holder(tool'.at)
      BY <3>1, <2>1, <2>2, <2>5 DEF HeldInv
    <3> QED
      BY <2>1, <2>5, <3>1, <3>2, Makes
  <2> QED
    BY <2>1, <2>3, <2>4, <2>5
<1>2. CASE Runner!Profile!StaleCopyFails
  <2>1. /\ DOMAIN tool' = DOMAIN tool /\ tool'.at = "done"
        /\ world.disk[tool.job.profile] = Absent
    BY <1>2 DEF Runner!Profile!StaleCopyFails, Runner!Profile!PreflightFault, HeldInv, Shape
  <2>2. /\ DOMAIN world' = DOMAIN world /\ world'.held = {}
        /\ world'.disk = [world.disk EXCEPT ![tool.job.profile] = Empty]
    BY <1>2 DEF Runner!Profile!StaleCopyFails, HeldInv, Shape
  <2>3. world'.held = Holder(tool'.at)
    BY <2>1, <2>2 DEF Holder, Connected
  <2> QED
    BY <2>1, <2>2, <2>3, Makes
<1>3. CASE Runner!Profile!BuildRun
  <2>1. /\ tool.at = "build" /\ DOMAIN tool' = DOMAIN tool
        /\ \/ tool'.at = "open" /\ UNCHANGED world
           \/ tool'.at = "done" /\ Runner!Profile!dropped
    BY <1>3 DEF Runner!Profile!BuildRun, HeldInv, Shape
  <2>2. Holder(tool.at) = {} /\ Holder(tool'.at) = {}
    BY <2>1 DEF Holder, Connected
  <2> QED
    BY <2>1, <2>2, Rests, Drops DEF Runner!Profile!dropped
<1>4. CASE Runner!Profile!open
  <2>1. /\ tool.at = "open" /\ DOMAIN tool' = DOMAIN tool
        /\ \/ tool'.at = "reconnect" /\ Runner!Profile!opened("run", "Ok")
           \/ tool'.at = "done" /\ Runner!Profile!dropped
    BY <1>4 DEF Runner!Profile!open, HeldInv, Shape
  <2>2. world.held = {} /\ Holder("reconnect") = {"run"} /\ Holder("done") = {}
    BY <2>1 DEF Holder, Connected, HeldInv
  <2>3. CASE tool'.at = "reconnect" /\ Runner!Profile!opened("run", "Ok")
    BY <2>1, <2>2, <2>3, Takes DEF Runner!Profile!opened
  <2>4. CASE tool'.at = "done" /\ Runner!Profile!dropped
    BY <2>1, <2>2, <2>4, Drops DEF Runner!Profile!dropped
  <2> QED
    BY <2>1, <2>3, <2>4
<1>5. CASE Runner!Profile!reconnect
  <2>1. /\ tool.at = "reconnect" /\ DOMAIN tool' = DOMAIN tool
        /\ tool'.at \in {"idle", "close_unexpected", "close_failed", "close_expected"}
        /\ \E outcome : Runner!Profile!reconnected(tool.job.profile, outcome)
    BY <1>5 DEF Runner!Profile!reconnect, Runner!Profile!AfterReconnect, HeldInv, Shape
  <2>2. Holder(tool'.at) = {"run"}
    BY <2>1 DEF Holder, Connected
  <2>3. PICK content, linked :
            /\ content = world.disk[Job.profile]
               \/ content = [world.disk[Job.profile] EXCEPT !.key = "f"]
            /\ world' = [world EXCEPT !.disk[Job.profile] = content, !.linked = linked]
    BY <2>1, ZenonT(40) DEF Runner!Profile!reconnected, Runner!Profile!Refreshed, Job
  <2> QED
    BY <2>1, <2>2, <2>3, Refreshes
<1>6. CASE Runner!Profile!UnexpectedSuccess \/ Runner!Profile!close_without_neutral
           \/ Runner!Profile!Postflight
  <2>1. DOMAIN tool' = DOMAIN tool /\ tool'.at = "done" /\ Runner!Profile!dropped
    BY <1>6 DEF Runner!Profile!UnexpectedSuccess, Runner!Profile!close_without_neutral,
                Runner!Profile!Postflight, HeldInv, Shape
  <2> QED
    BY <2>1, Drops DEF Runner!Profile!dropped, Holder, Connected
<1>7. CASE Runner!Profile!close_controller
  <2>1. /\ tool.at \in {"close", "close_expected"} /\ DOMAIN tool' = DOMAIN tool
        /\ tool'.at = "reopen" /\ Runner!Profile!closed("run")
    BY <1>7 DEF Runner!Profile!close_controller, HeldInv, Shape
  <2>2. Holder(tool'.at) = {} /\ world.held \ {"run"} = {}
    BY <2>1 DEF Holder, Connected, HeldInv
  <2> QED
    BY <2>1, <2>2, Gives DEF Runner!Profile!closed
<1>8. CASE Runner!Profile!verify_direct_idle
           \/ Runner!Profile!operation_start \/ Runner!Profile!OperationCall
           \/ Runner!Profile!run_operation \/ Runner!Profile!InputDone
  <2>1. /\ UNCHANGED world /\ DOMAIN tool' = DOMAIN tool
        /\ tool.at \in Connected /\ tool'.at \in Connected
    BY <1>8 DEF Runner!Profile!verify_direct_idle,
                Runner!Profile!operation_start, Runner!Profile!OperationCall,
                Runner!Profile!run_operation, Runner!Profile!InputDone, HeldInv, Shape, Connected
  <2> QED
    BY <2>1, Rests DEF Holder
<1>9. CASE Runner!Profile!VerifyReopen
  <2>1. DOMAIN tool' = DOMAIN tool
        /\ \/ tool.at = "reopen" /\ tool'.at \in {"reopen_open", "postflight"} /\ UNCHANGED world
           \/ tool.at = "reopen_open" /\ tool'.at = "postflight" /\ UNCHANGED world
           \/ /\ tool.at = "reopen_open" /\ tool'.at = "reopen_close"
              /\ Runner!Profile!opened("reopen", "Ok")
           \/ tool.at = "reopen_close" /\ tool'.at = "postflight" /\ Runner!Profile!closed("reopen")
    BY <1>9 DEF Runner!Profile!VerifyReopen, Runner!Profile!verify_adapter_reopen,
                Runner!Profile!reopen_build, Runner!Profile!reopen_open,
                Runner!Profile!reopen_close, Runner!Profile!opened, HeldInv, Shape
  <2>2. /\ Holder("reopen") = {} /\ Holder("reopen_open") = {} /\ Holder("postflight") = {}
        /\ Holder("reopen_close") = {"reopen"}
    BY DEF Holder, Connected
  <2>3. CASE tool.at \in {"reopen", "reopen_open"} /\ tool'.at \in {"reopen_open", "postflight"}
             /\ UNCHANGED world
    BY <2>1, <2>2, <2>3, Rests
  <2>4. CASE tool.at = "reopen_open" /\ tool'.at = "reopen_close"
             /\ Runner!Profile!opened("reopen", "Ok")
    BY <2>1, <2>2, <2>4, Takes DEF Runner!Profile!opened, HeldInv
  <2>5. CASE tool.at = "reopen_close" /\ tool'.at = "postflight"
             /\ Runner!Profile!closed("reopen")
    BY <2>1, <2>2, <2>5, Gives DEF Runner!Profile!closed, HeldInv
  <2> QED
    BY <2>1, <2>3, <2>4, <2>5
<1> QED
  BY <1>1, <1>2, <1>3, <1>4, <1>5, <1>6, <1>7, <1>8, <1>9 DEF Runner!Profile!run_hardware

LEMMA PeriodicSteps ==
    ASSUME HeldInv, Runner!Periodic!run_hardware
    PROVE  HeldInv' /\ AllKept
<1> USE DEF Runner!Periodic!Here, Runner!Periodic!At, Runner!Periodic!Goes,
            Runner!Periodic!Passes, Runner!Periodic!Complete, Runner!Periodic!Completes
<1>1. CASE Runner!Periodic!Preflight
  <2>1. /\ tool.at = "start" /\ DOMAIN tool' = DOMAIN tool
        /\ \/ tool'.at = "pair" /\ UNCHANGED world
           \/ tool'.at = "done" /\ Runner!Periodic!dropped
    BY <1>1 DEF Runner!Periodic!Preflight, HeldInv, Shape
  <2>2. Holder(tool.at) = {} /\ Holder(tool'.at) = {}
    BY <2>1 DEF Holder, Connected
  <2> QED
    BY <2>1, <2>2, Rests, Drops DEF Runner!Periodic!dropped
<1>2. CASE Runner!Periodic!create_profile
  <2> PICK made \in Runner!Periodic!Creations(tool.job.profile) :
        /\ Runner!Periodic!created(tool.job.profile, "Pro", made[1], made[2])
        /\ DOMAIN tool' = DOMAIN tool
        /\ tool'.at = IF made[1] = "Ok" THEN "input" ELSE "validate"
    BY <1>2 DEF Runner!Periodic!create_profile, HeldInv, Shape
  <2>2. world.disk[tool.job.profile] # Absent => made[1] # "Ok"
    BY DEF Runner!Periodic!Creations
  <2>3. /\ Holder(tool'.at) = IF made[1] = "Ok" THEN {"run"} ELSE {}
        /\ world.held = {}
    BY <1>2 DEF Runner!Periodic!create_profile, Holder, Connected, HeldInv
  <2> QED
    BY <2>2, <2>3, Creates DEF Runner!Periodic!created, Runner!Periodic!IsFile
<1>3. CASE Runner!Periodic!close_controller
  <2>1. /\ tool.at = "close" /\ DOMAIN tool' = DOMAIN tool
        /\ tool'.at = "validate" /\ Runner!Periodic!closed("run")
    BY <1>3 DEF Runner!Periodic!close_controller, HeldInv, Shape
  <2>2. Holder(tool'.at) = {} /\ world.held \ {"run"} = {}
    BY <2>1 DEF Holder, Connected, HeldInv
  <2> QED
    BY <2>1, <2>2, Gives DEF Runner!Periodic!closed
<1>4. CASE Runner!Periodic!operation_start \/ Runner!Periodic!OperationCall
           \/ Runner!Periodic!run_operation \/ Runner!Periodic!InputDone
  <2>1. /\ UNCHANGED world /\ DOMAIN tool' = DOMAIN tool
        /\ tool.at \in Connected /\ tool'.at \in Connected
    BY <1>4 DEF Runner!Periodic!operation_start, Runner!Periodic!OperationCall,
                Runner!Periodic!run_operation, Runner!Periodic!InputDone, HeldInv, Shape,
                Connected
  <2> QED
    BY <2>1, Rests DEF Holder
<1>5. CASE Runner!Periodic!validate_profile
  <2>1. /\ tool.at = "validate" /\ tool'.at \in {"reopen", "complete"}
        /\ UNCHANGED world /\ DOMAIN tool' = DOMAIN tool
    BY <1>5 DEF Runner!Periodic!validate_profile, HeldInv, Shape
  <2>2. Holder(tool.at) = {} /\ Holder(tool'.at) = {}
    BY <2>1 DEF Holder, Connected
  <2> QED
    BY <2>1, <2>2, Rests
<1>6. CASE Runner!Periodic!VerifyReopen
  <2>1. DOMAIN tool' = DOMAIN tool
        /\ \/ tool.at = "reopen" /\ tool'.at \in {"reopen_open", "complete"} /\ UNCHANGED world
           \/ tool.at = "reopen_open" /\ tool'.at = "complete" /\ UNCHANGED world
           \/ /\ tool.at = "reopen_open" /\ tool'.at = "reopen_close"
              /\ Runner!Periodic!opened("reopen", "Ok")
           \/ tool.at = "reopen_close" /\ tool'.at = "complete" /\ Runner!Periodic!closed("reopen")
    BY <1>6 DEF Runner!Periodic!VerifyReopen, Runner!Periodic!verify_adapter_reopen,
                Runner!Periodic!reopen_build, Runner!Periodic!reopen_open,
                Runner!Periodic!reopen_close, Runner!Periodic!opened, HeldInv, Shape
  <2>2. /\ Holder("reopen") = {} /\ Holder("reopen_open") = {} /\ Holder("complete") = {}
        /\ Holder("reopen_close") = {"reopen"}
    BY DEF Holder, Connected
  <2>3. CASE tool.at \in {"reopen", "reopen_open"} /\ tool'.at \in {"reopen_open", "complete"}
             /\ UNCHANGED world
    BY <2>1, <2>2, <2>3, Rests
  <2>4. CASE tool.at = "reopen_open" /\ tool'.at = "reopen_close"
             /\ Runner!Periodic!opened("reopen", "Ok")
    BY <2>1, <2>2, <2>4, Takes DEF Runner!Periodic!opened, HeldInv
  <2>5. CASE tool.at = "reopen_close" /\ tool'.at = "complete"
             /\ Runner!Periodic!closed("reopen")
    BY <2>1, <2>2, <2>5, Gives DEF Runner!Periodic!closed, HeldInv
  <2> QED
    BY <2>1, <2>3, <2>4, <2>5
<1>7. CASE Runner!Periodic!Finish
  <2>1. DOMAIN tool' = DOMAIN tool /\ tool'.at = "done" /\ Runner!Periodic!dropped
    BY <1>7 DEF Runner!Periodic!Finish, HeldInv, Shape
  <2> QED
    BY <2>1, Drops DEF Runner!Periodic!dropped, Holder, Connected
<1> QED
  BY <1>1, <1>2, <1>3, <1>4, <1>5, <1>6, <1>7 DEF Runner!Periodic!run_hardware

-----------------------------------------------------------------------------
(* The steps of the probe                                                   *)

\* Steps that touch neither the adapter nor the disk.
LEMMA ProbeRests ==
    ASSUME HeldInv,
           \/ list_adapters \/ inspect_profile \/ Inspect \/ Build \/ apply_button
           \/ run_periodic_imu \/ wait_for_periodic_report \/ Compare
    PROVE  HeldInv' /\ AllKept
<1> USE DEF On, Step, Keeps, Doing, Connecting
<1>1. CASE list_adapters \/ inspect_profile \/ Inspect \/ Build \/ Compare
  <2>1. /\ UNCHANGED world /\ DOMAIN tool' = DOMAIN tool
        /\ tool.at \in {"start", "inspect", "build", "compare", "recompare"}
        /\ tool'.at \in {"print", "build", "finish", "open", "reopen"}
    BY <1>1 DEF list_adapters, inspect_profile, Inspect, Build, Compare, HeldInv, Shape
  <2>2. Holder(tool.at) = {} /\ Holder(tool'.at) = {}
    BY <2>1 DEF Holder, Connected
  <2> QED
    BY <2>1, <2>2, Rests
<1>2. CASE apply_button \/ run_periodic_imu \/ wait_for_periodic_report
  <2>1. /\ UNCHANGED world /\ DOMAIN tool' = DOMAIN tool
        /\ tool.at \in {"button", "imu", "imu_neutral", "imu_wait", "imu_last"}
        /\ tool'.at \in {"imu", "close", "imu_wait", "imu_last", "imu_neutral"}
    <3>1. CASE apply_button
      <4>1. CASE tool.job.button = "none"
        BY <3>1, <4>1 DEF apply_button, HeldInv, Shape
      <4>2. CASE tool.job.button # "none"
        BY <3>1, <4>2 DEF apply_button, HeldInv, Shape
      <4> QED
        BY <4>1, <4>2
    <3>2. CASE run_periodic_imu
      <4> PICK stage \in {<<"imu", "imu_wait">>, <<"imu_neutral", "imu_last">>} :
            /\ tool.at = stage[1] /\ UNCHANGED world
            /\ \E outcome : On(outcome, stage[2], "close")
        BY <3>2 DEF run_periodic_imu
      <4>1. stage[1] \in {"imu", "imu_neutral"} /\ stage[2] \in {"imu_wait", "imu_last"}
        OBVIOUS
      <4> QED
        BY <4>1 DEF HeldInv, Shape
    <3>3. CASE wait_for_periodic_report
      <4> PICK stage \in {<<"imu_wait", "imu_neutral">>, <<"imu_last", "close">>} :
            /\ tool.at = stage[1] /\ UNCHANGED world
            /\ \E outcome : On(outcome, stage[2], "close")
        BY <3>3 DEF wait_for_periodic_report
      <4>1. stage[1] \in {"imu_wait", "imu_last"} /\ stage[2] \in {"imu_neutral", "close"}
        OBVIOUS
      <4> QED
        BY <4>1 DEF HeldInv, Shape
    <3> QED
      BY <1>2, <3>1, <3>2, <3>3
  <2>2. Holder(tool'.at) = Holder(tool.at)
    BY <2>1 DEF Holder, Connected
  <2> QED
    BY <2>1, <2>2, Rests
<1> QED
  BY <1>1, <1>2

LEMMA ProbeMoves ==
    ASSUME HeldInv, ProbeSteps \/ finish_connection
    PROVE  HeldInv' /\ AllKept
<1> USE DEF On, Step, Keeps, Doing, Connecting
<1>1. CASE main \/ finish_trace
  <2>1. DOMAIN tool' = DOMAIN tool /\ tool'.at \in {"done", "print"} /\ dropped
    BY <1>1 DEF main, finish_trace, Exit, HeldInv, Shape
  <2> QED
    BY <2>1, Drops DEF dropped, Holder, Connected
<1>2. CASE open_adapter \/ Open
  <2>1. /\ tool.at \in {"start", "open"} /\ DOMAIN tool' = DOMAIN tool
        /\ \/ tool'.at \in {"close", "reconnect"} /\ opened("run", "Ok")
           \/ tool'.at \in {"print", "finish"} /\ UNCHANGED world
    BY <1>2 DEF open_adapter, Open, opened, HeldInv, Shape
  <2>2. /\ Holder(tool.at) = {} /\ Holder("print") = {} /\ Holder("finish") = {}
        /\ Holder("close") = {"run"} /\ Holder("reconnect") = {"run"}
    BY <2>1 DEF Holder, Connected
  <2>3. CASE tool'.at \in {"close", "reconnect"} /\ opened("run", "Ok")
    BY <2>1, <2>2, <2>3, Takes DEF opened, HeldInv
  <2>4. CASE tool'.at \in {"print", "finish"} /\ UNCHANGED world
    BY <2>1, <2>2, <2>4, Rests
  <2> QED
    BY <2>1, <2>3, <2>4
<1>3. CASE open_and_close \/ finish_connection
  <2>1. /\ tool.at = "close" /\ DOMAIN tool' = DOMAIN tool
        /\ tool'.at \in {"print", "finish", "compare"} /\ closed("run")
    BY <1>3 DEF open_and_close, finish_connection, HeldInv, Shape
  <2>2. Holder(tool'.at) = {} /\ world.held \ {"run"} = {}
    BY <2>1 DEF Holder, Connected, HeldInv
  <2> QED
    BY <2>1, <2>2, Gives DEF closed
<1>4. CASE install
  <2>1. /\ tool.at = "start" /\ DOMAIN tool' = DOMAIN tool
        /\ \/ /\ tool'.at \in {"create", "inspect"} /\ world.disk[tool.job.trace] = Absent
              /\ world' = [world EXCEPT !.disk[tool.job.trace] = Empty]
           \/ tool'.at = "print" /\ UNCHANGED world
    BY <1>4 DEF install, HeldInv, Shape
  <2>2. Holder(tool.at) = {} /\ Holder(tool'.at) = {}
    BY <2>1 DEF Holder, Connected
  <2>3. CASE tool'.at = "print" /\ UNCHANGED world
    BY <2>1, <2>2, <2>3, Rests
  <2>4. CASE /\ world.disk[tool.job.trace] = Absent
             /\ world' = [world EXCEPT !.disk[tool.job.trace] = Empty]
    <3>1. /\ DOMAIN world' = DOMAIN world /\ world'.held = world.held
          /\ world'.disk = [world.disk EXCEPT ![tool.job.trace] = Empty]
      BY <2>4 DEF HeldInv, Shape
    <3>2. world'.held = Holder(tool'.at)
      BY <3>1, <2>2 DEF HeldInv
    <3> QED
      BY <2>1, <2>4, <3>1, <3>2, Makes
  <2> QED
    BY <2>1, <2>3, <2>4
<1>5. CASE pair
  <2> PICK made \in Creations(tool.job.profile) :
        /\ created(tool.job.profile, tool.job.model, made[1], made[2])
        /\ DOMAIN tool' = DOMAIN tool
        /\ tool'.at = IF made[1] = "Ok" THEN "button" ELSE "finish"
    BY <1>5 DEF pair, HeldInv, Shape
  <2>2. world.disk[tool.job.profile] # Absent => made[1] # "Ok"
    BY DEF Creations
  <2>3. /\ Holder(tool'.at) = IF made[1] = "Ok" THEN {"run"} ELSE {}
        /\ world.held = {}
    BY <1>5 DEF pair, Holder, Connected, HeldInv
  <2> QED
    BY <2>2, <2>3, Creates DEF created, IsFile
<1>6. CASE reconnect
  <2>1. /\ tool.at = "reconnect" /\ DOMAIN tool' = DOMAIN tool
        /\ tool'.at \in {"button", "close"}
        /\ \E outcome : reconnected(tool.job.profile, outcome)
    BY <1>6 DEF reconnect, HeldInv, Shape
  <2>2. Holder(tool'.at) = {"run"}
    BY <2>1 DEF Holder, Connected
  <2>3. PICK content, linked :
            /\ content = world.disk[Job.profile]
               \/ content = [world.disk[Job.profile] EXCEPT !.key = "f"]
            /\ world' = [world EXCEPT !.disk[Job.profile] = content, !.linked = linked]
    BY <2>1, ZenonT(40) DEF reconnected, Refreshed, Job
  <2> QED
    BY <2>1, <2>2, <2>3, Refreshes
<1>7. CASE reopen_after_connection
  <2>1. DOMAIN tool' = DOMAIN tool
        /\ \/ tool.at = "reopen" /\ tool'.at \in {"reopen_open", "finish"} /\ UNCHANGED world
           \/ tool.at = "reopen_open" /\ tool'.at = "finish" /\ UNCHANGED world
           \/ tool.at = "reopen_open" /\ tool'.at = "reopen_close" /\ opened("reopen", "Ok")
           \/ tool.at = "reopen_close" /\ tool'.at \in {"recompare", "finish"} /\ closed("reopen")
    BY <1>7 DEF reopen_after_connection, opened, HeldInv, Shape
  <2>2. /\ Holder("reopen") = {} /\ Holder("reopen_open") = {} /\ Holder("finish") = {}
        /\ Holder("recompare") = {} /\ Holder("reopen_close") = {"reopen"}
    BY DEF Holder, Connected
  <2>3. CASE tool.at \in {"reopen", "reopen_open"} /\ tool'.at \in {"reopen_open", "finish"}
             /\ UNCHANGED world
    BY <2>1, <2>2, <2>3, Rests
  <2>4. CASE tool.at = "reopen_open" /\ tool'.at = "reopen_close" /\ opened("reopen", "Ok")
    BY <2>1, <2>2, <2>4, Takes DEF opened, HeldInv
  <2>5. CASE tool.at = "reopen_close" /\ tool'.at \in {"recompare", "finish"} /\ closed("reopen")
    BY <2>1, <2>2, <2>5, Gives DEF closed, HeldInv
  <2> QED
    BY <2>1, <2>3, <2>4, <2>5
<1> QED
  BY <1>1, <1>2, <1>3, <1>4, <1>5, <1>6, <1>7, ProbeRests DEF ProbeSteps

-----------------------------------------------------------------------------
(* The steps of all                                                         *)

LEMMA HeldInit == ASSUME Init PROVE HeldInv
<1>1. tool = Idle /\ world.held = {} /\ DOMAIN world.disk = Paths
      /\ DOMAIN world = {"disk", "held", "linked", "outside"}
  BY DisksAssumption DEF Init
<1>2. tool.at = "shell"
      /\ DOMAIN tool = {"job", "at", "todo", "calls", "log", "before", "passed", "failed", "exit"}
  BY <1>1 DEF Idle
<1> QED
  BY <1>1, <1>2 DEF HeldInv, Shape, Holder, Connected

\* A program that starts, and one whose evidence cannot be written.
LEMMA Starts ==
    ASSUME HeldInv, NEW arguments, Runner!run(arguments) \/ Start(arguments)
    PROVE  HeldInv' /\ AllKept
<1>1. /\ tool.at = "shell" /\ UNCHANGED world /\ tool'.at \in {"done", "start"}
      /\ DOMAIN tool' = DOMAIN Idle
  <2>1. DOMAIN Idle = {"job", "at", "todo", "calls", "log", "before", "passed", "failed", "exit"}
    BY DEF Idle
  <2>2. CASE Runner!run(arguments)
    BY <2>1, <2>2 DEF Runner!run, Runner!write, Runner!Exits, Runner!Idle, Idle
  <2>3. CASE Start(arguments)
    BY <2>1, <2>3 DEF Start, Idle
  <2> QED
    BY <2>2, <2>3
<1>2. DOMAIN Idle = DOMAIN tool
  BY DEF Idle, HeldInv, Shape
<1>3. Holder(tool'.at) = Holder(tool.at)
  BY <1>1 DEF Holder, Connected
<1> QED
  BY <1>1, <1>2, <1>3, Rests

LEMMA Others ==
    ASSUME HeldInv, Outside
    PROVE  HeldInv' /\ AllKept
<1>1. CASE LinkLost
  <2>1. /\ tool' = tool /\ DOMAIN world' = DOMAIN world /\ world'.disk = world.disk
        /\ world'.held = world.held
    BY <1>1 DEF LinkLost, HeldInv, Shape
  <2> QED
    BY <2>1, Moves DEF HeldInv
<1>2. ASSUME NEW path, NEW content, Stores(path, content) PROVE HeldInv' /\ AllKept
  <2>1. /\ tool' = tool /\ DOMAIN world' = DOMAIN world
        /\ world'.disk = [world.disk EXCEPT ![path] = content]
        /\ world'.held = world.held /\ world.disk[path] = Absent
    BY <1>2 DEF Stores, HeldInv, Shape
  <2>2. world'.held = Holder(tool'.at)
    BY <2>1 DEF HeldInv
  <2> QED
    BY <2>1, <2>2, Makes
<1> QED
  BY <1>1, <1>2 DEF Outside

LEMMA HeldNext ==
    ASSUME HeldInv, [Next]_vars
    PROVE  HeldInv' /\ AllKept
<1>1. CASE Scenario
  <2>1. CASE Runner!write_event
    <3>1. DOMAIN tool' = DOMAIN tool /\ tool'.at = "done" /\ Runner!dropped
      BY <2>1 DEF Runner!write_event, HeldInv, Shape
    <3> QED
      BY <3>1, Drops DEF Runner!dropped, Holder, Connected
  <2> QED
    BY <1>1, <2>1, Starts, JoyConSteps, ProfileSteps, PeriodicSteps
    DEF Scenario, Runner!run_hardware
<1>2. CASE ProbeRuns
  BY <1>2, Starts, ProbeMoves DEF ProbeRuns
<1>3. CASE Outside
  BY <1>3, Others
<1>4. CASE Ended \/ WorkerReports \/ UNCHANGED vars
           \/ \E thread \in {"worker", "client"}, writable \in BOOLEAN : Records(thread, writable)
  <2>1. tool' = tool /\ world' = world
    BY <1>4 DEF Ended, WorkerReports, Records, vars
  <2> QED
    BY <2>1, Rests
<1> QED
  BY <1>1, <1>2, <1>3, <1>4 DEF Next

LEMMA HeldAlways == Spec => []HeldInv
BY HeldInit, HeldNext, PTL DEF Spec

\* No program opens the adapter while a controller of its own holds it, and none
\* ends with the adapter held.
THEOREM AdapterIsFree == Spec => []OpensFreeAdapter
<1>1. HeldInv => OpensFreeAdapter
  BY DEF HeldInv, OpensFreeAdapter, Holder, Connected
<1> QED
  BY <1>1, HeldAlways, PTL

\* No program writes over a file it finds: only a reconnection changes one, and
\* only the key of the profile of its own job.
THEOREM FilesStay == Spec => FilesAreKept
<1>1. HeldInv /\ [Next]_vars
      => [\A path \in Paths :
            world.disk[path] # Absent /\ world'.disk[path] # world.disk[path] =>
              /\ tool.at = "reconnect" /\ path = Job.profile
              /\ world'.disk[path] = [world.disk[path] EXCEPT !.key = "f"]]_vars
  BY HeldNext DEF AllKept, Kept
<1> QED
  BY <1>1, HeldAlways, PTL DEF Spec, FilesAreKept

-----------------------------------------------------------------------------
(* The diagnostics of a connection, in order and as the trace takes them    *)

\* What the worker and the client tell of, and what the trace heard.
Lifecycles == {"Configured", "Open", "Connecting", "Ready", "Closing", "Closed", "Failed"}
Modes == {"null", "simple", "full"}
Reasons == {"null", "remote"}
Categories == {"Transport", "Panicked"}
Contexts == [controller_kind : {Kind}, reporting_kind : {Reporting}, session_id : Nat]
Events ==
    [of : {"SessionStarted"}, context : Contexts]
    \cup [of : {"LifecycleChanged"}, context : Contexts, lifecycle : Lifecycles]
    \cup [of : {"SubcommandObserved"}, context : Contexts, subcommand_id : Nat]
    \cup [of : {"ReportTxAccepted", "ReplyTxAccepted"}, context : Contexts,
          report_mode : Modes, imu_mode : Nat, accepted : Nat]
    \cup [of : {"SessionEnded"}, context : Contexts, lifecycle : Lifecycles, reason : Reasons]
    \cup [of : {"WorkerFailed"}, context : Contexts, category : Categories]
    \cup [of : {"UnsupportedButton"}, context : Contexts, button : Buttons]
Streams == [session : Nat, ended : BOOLEAN, inputs : Nat]

\* An event that may follow what was heard, and what is heard with it.
Follows(h, e) ==
    IF e.of = "SessionStarted" THEN h.ended
    ELSE /\ ~h.ended /\ e.context.session_id = h.session
         /\ e.of = "ReportTxAccepted" => e.accepted > h.inputs
Hears(h, e) ==
    IF e.of = "SessionStarted"
    THEN [session |-> e.context.session_id, ended |-> FALSE, inputs |-> 0]
    ELSE IF e.of = "SessionEnded" THEN [h EXCEPT !.ended = TRUE]
    ELSE IF e.of = "ReportTxAccepted" THEN [h EXCEPT !.inputs = e.accepted]
    ELSE h

\* The events of a queue follow one another, from a first state to a last.
Leads(queue, first, last) ==
    \E told \in [0 .. Len(queue) -> Streams] :
        /\ told[0] = first /\ told[Len(queue)] = last
        /\ \A i \in 1 .. Len(queue) :
            Follows(told[i - 1], queue[i]) /\ told[i] = Hears(told[i - 1], queue[i])

LEMMA HearsStreams ==
    ASSUME NEW h \in Streams, NEW e \in Events
    PROVE  Hears(h, e) \in Streams
BY DEF Hears, Streams, Events, Contexts

LEMMA LeadsNowhere ==
    ASSUME NEW h \in Streams
    PROVE  Leads(<<>>, h, h)
<1> DEFINE told == [i \in 0 .. 0 |-> h]
<1>1. told \in [0 .. Len(<<>>) -> Streams] /\ told[0] = h /\ Len(<<>>) = 0
  OBVIOUS
<1> HIDE DEF told
<1> QED
  BY <1>1 DEF Leads

LEMMA LeadsOne ==
    ASSUME NEW h \in Streams, NEW e \in Events, Follows(h, e)
    PROVE  Leads(<<e>>, h, Hears(h, e))
<1> DEFINE told == [i \in 0 .. 1 |-> IF i = 0 THEN h ELSE Hears(h, e)]
<1>1. told \in [0 .. Len(<<e>>) -> Streams]
  BY HearsStreams
<1>2. told[0] = h /\ told[1] = Hears(h, e) /\ Len(<<e>>) = 1
  OBVIOUS
<1> HIDE DEF told
<1>3. \A i \in 1 .. Len(<<e>>) : Follows(told[i - 1], <<e>>[i]) /\ told[i] = Hears(told[i - 1], <<e>>[i])
  <2> TAKE i \in 1 .. Len(<<e>>)
  <2>1. i = 1
    BY <1>2
  <2> QED
    BY <2>1, <1>2
<1> QED
  BY <1>1, <1>2, <1>3 DEF Leads

\* One more event before those of a queue, and the first one taken.
LEMMA LeadsTwo ==
    ASSUME NEW h \in Streams, NEW d \in Events, NEW e \in Events,
           Follows(h, d), Follows(Hears(h, d), e)
    PROVE  Leads(<<d, e>>, h, Hears(Hears(h, d), e))
<1> DEFINE told == [i \in 0 .. 2 |-> IF i = 0 THEN h ELSE IF i = 1 THEN Hears(h, d)
                                     ELSE Hears(Hears(h, d), e)]
<1>1. told \in [0 .. Len(<<d, e>>) -> Streams]
  BY HearsStreams
<1>2. /\ told[0] = h /\ told[1] = Hears(h, d) /\ told[2] = Hears(Hears(h, d), e)
      /\ Len(<<d, e>>) = 2
  OBVIOUS
<1> HIDE DEF told
<1>3. \A i \in 1 .. Len(<<d, e>>) :
        Follows(told[i - 1], <<d, e>>[i]) /\ told[i] = Hears(told[i - 1], <<d, e>>[i])
  <2> TAKE i \in 1 .. Len(<<d, e>>)
  <2>1. CASE i = 1
    BY <2>1, <1>2
  <2>2. CASE i = 2
    BY <2>2, <1>2
  <2> QED
    BY <2>1, <2>2, <1>2
<1> QED
  BY <1>1, <1>2, <1>3 DEF Leads

LEMMA LeadsThree ==
    ASSUME NEW h \in Streams, NEW c \in Events, NEW d \in Events, NEW e \in Events,
           Follows(h, c), Follows(Hears(h, c), d), Follows(Hears(Hears(h, c), d), e)
    PROVE  Leads(<<c, d, e>>, h, Hears(Hears(Hears(h, c), d), e))
<1> DEFINE told == [i \in 0 .. 3 |-> IF i = 0 THEN h ELSE IF i = 1 THEN Hears(h, c)
                                     ELSE IF i = 2 THEN Hears(Hears(h, c), d)
                                     ELSE Hears(Hears(Hears(h, c), d), e)]
<1>1. told \in [0 .. Len(<<c, d, e>>) -> Streams]
  BY HearsStreams
<1>2. /\ told[0] = h /\ told[1] = Hears(h, c) /\ told[2] = Hears(Hears(h, c), d)
      /\ told[3] = Hears(Hears(Hears(h, c), d), e) /\ Len(<<c, d, e>>) = 3
  OBVIOUS
<1> HIDE DEF told
<1>3. \A i \in 1 .. Len(<<c, d, e>>) :
        Follows(told[i - 1], <<c, d, e>>[i]) /\ told[i] = Hears(told[i - 1], <<c, d, e>>[i])
  <2> TAKE i \in 1 .. Len(<<c, d, e>>)
  <2>1. CASE i = 1
    BY <2>1, <1>2
  <2>2. CASE i = 2
    BY <2>2, <1>2
  <2>3. CASE i = 3
    BY <2>3, <1>2
  <2> QED
    BY <2>1, <2>2, <2>3, <1>2
<1> QED
  BY <1>1, <1>2, <1>3 DEF Leads

LEMMA LeadsOn ==
    ASSUME NEW queue \in Seq(Events), queue # <<>>, NEW h, NEW last, Leads(queue, h, last)
    PROVE  /\ Head(queue) \in Events /\ Tail(queue) \in Seq(Events)
           /\ Follows(h, Head(queue))
           /\ Leads(Tail(queue), Hears(h, Head(queue)), last)
<1> PICK told \in [0 .. Len(queue) -> Streams] :
        /\ told[0] = h /\ told[Len(queue)] = last
        /\ \A i \in 1 .. Len(queue) :
            Follows(told[i - 1], queue[i]) /\ told[i] = Hears(told[i - 1], queue[i])
  BY DEF Leads
<1>1. /\ Head(queue) = queue[1] /\ Head(queue) \in Events /\ Tail(queue) \in Seq(Events)
      /\ Len(queue) \in Nat \ {0} /\ Len(Tail(queue)) = Len(queue) - 1
      /\ \A i \in 1 .. Len(Tail(queue)) : Tail(queue)[i] = queue[i + 1]
  OBVIOUS
<1> DEFINE rest == [i \in 0 .. Len(Tail(queue)) |-> told[i + 1]]
<1>2. rest \in [0 .. Len(Tail(queue)) -> Streams]
  BY <1>1
<1>3. rest[0] = Hears(h, Head(queue)) /\ rest[Len(Tail(queue))] = last
  BY <1>1
<1>4. ASSUME NEW i \in 1 .. Len(Tail(queue))
      PROVE  Follows(rest[i - 1], Tail(queue)[i]) /\ rest[i] = Hears(rest[i - 1], Tail(queue)[i])
  <2>1. rest[i - 1] = told[i] /\ rest[i] = told[i + 1] /\ Tail(queue)[i] = queue[i + 1]
    BY <1>1
  <2>2. Follows(told[(i + 1) - 1], queue[i + 1]) /\ told[i + 1] = Hears(told[(i + 1) - 1], queue[i + 1])
    BY <1>1
  <2>3. (i + 1) - 1 = i
    OBVIOUS
  <2> QED
    BY <2>1, <2>2, <2>3
<1>5. Follows(h, Head(queue))
  <2>1. Follows(told[1 - 1], queue[1])
    BY <1>1
  <2> QED
    BY <2>1, <1>1
<1> HIDE DEF rest
<1> QED
  BY <1>1, <1>2, <1>3, <1>4, <1>5 DEF Leads

\* The worker and what it wrote: a session is told of while it is open, with the
\* counts of the sender as they are.
Projections ==
    [lifecycle : Lifecycles, connected : BOOLEAN, session_id : Nat, report_mode : Modes,
     input_reports_accepted : Nat, replies_accepted : Nat, worker_failure : BOOLEAN]
Places == {"none", "open", "starting", "session", "closing", "closed"}
Callers == [at : Places, sessions : Nat, inputs : Nat, replies : Nat]
StatusTypes ==
    /\ projection \in Projections /\ caller \in Callers /\ heard \in Streams
    /\ pending \in [worker : Seq(Events), client : Seq(Events)]
Counts ==
    /\ caller.inputs = projection.input_reports_accepted
    /\ caller.replies = projection.replies_accepted
CallerInv ==
    /\ projection.session_id # 0 =>
        caller.at \in {"session", "closing"} /\ ~projection.worker_failure /\ Counts
    /\ projection.connected => projection.session_id # 0
    /\ caller.at = "session" => projection.session_id # 0
    /\ caller.at = "starting" => Counts
    /\ caller.at = "open" => /\ caller.inputs <= projection.input_reports_accepted
                             /\ caller.replies <= projection.replies_accepted
\* The session of a status, as it was heard with the reports told of it.
Settled(h, status) ==
    IF status.session_id = 0 THEN h.ended
    ELSE /\ ~h.ended /\ h.session = status.session_id
         /\ h.inputs <= status.input_reports_accepted
StreamInv ==
    /\ StatusTypes /\ CallerInv
    /\ \E last \in Streams : Leads(pending.worker, heard, last) /\ Settled(last, projection)

\* Nothing is left to emit: what was heard is settled.
LEMMA QuietIsSettled ==
    ASSUME StreamInv, pending.worker = <<>>
    PROVE  Settled(heard, projection)
BY DEF StreamInv, Leads, StatusTypes

\* A method of the worker that emits nothing, or events that follow.
LEMMA QuietWrite ==
    ASSUME StreamInv, NEW state, Status!Writes(state, <<>>), StatusTypes', CallerInv',
           Settled(heard, projection')
    PROVE  StreamInv'
<1>1. heard' = heard /\ pending'.worker = <<>>
  BY DEF Status!Writes, StreamInv, StatusTypes
<1>2. Leads(pending'.worker, heard', heard') /\ heard' \in Streams
  BY <1>1, LeadsNowhere DEF StreamInv, StatusTypes
<1>3. Settled(heard', projection')
  BY <1>1
<1> QED
  BY <1>2, <1>3 DEF StreamInv

LEMMA ToldWrite ==
    ASSUME StreamInv, NEW state, NEW queue, NEW last \in Streams, Status!Writes(state, queue),
           Leads(queue, heard, last), StatusTypes', CallerInv', Settled(last, projection')
    PROVE  StreamInv'
<1>1. heard' = heard /\ pending'.worker = queue
  BY DEF Status!Writes, StreamInv, StatusTypes
<1> QED
  BY <1>1 DEF StreamInv

\* The events that a method may emit are events, and a pair or a triple of them.
LEMMA Contexted ==
    ASSUME StatusTypes
    PROVE  /\ Status!Context(projection) \in Contexts
           /\ Status!Context(projection).session_id = projection.session_id
BY DEF StatusTypes, Projections, Contexts, Status!Context, Status!diagnostic_context,
       Status!DiagnosticContext

LEMMA LifecycleEvent ==
    ASSUME NEW context \in Contexts, NEW lifecycle \in Lifecycles
    PROVE  /\ Status!lifecycle_changed(context, lifecycle) \in Events
           /\ \A h : /\ Hears(h, Status!lifecycle_changed(context, lifecycle)) = h
                     /\ ~h.ended /\ h.session = context.session_id
                        => Follows(h, Status!lifecycle_changed(context, lifecycle))
BY DEF Status!lifecycle_changed, Events, Hears, Follows

\* The other parts of the status are as they were.
LEMMA TypesKept ==
    ASSUME StatusTypes, NEW state \in Projections, NEW queue \in Seq(Events),
           Status!Writes(state, queue), caller' \in Callers
    PROVE  StatusTypes'
BY DEF StatusTypes, Status!Writes

-----------------------------------------------------------------------------
(* The methods of the status, and who calls them                            *)

LEMMA LifecycleSet ==
    ASSUME StreamInv, NEW lifecycle \in Lifecycles, Status!set_lifecycle(lifecycle),
           caller' \in Callers, CallerInv'
    PROVE  StreamInv'
<1> DEFINE state == [projection EXCEPT !.lifecycle = lifecycle]
<1>1. pending.worker = <<>> /\ Settled(heard, projection) /\ heard \in Streams /\ StatusTypes
  BY QuietIsSettled DEF Status!set_lifecycle, Status!Writes, StreamInv, StatusTypes
<1>2. CASE Status!Writes(projection, <<>>) \/ Status!Writes(state, <<>>)
  <2>1. PICK new \in Projections : /\ Status!Writes(new, <<>>)
                                   /\ new.session_id = projection.session_id
                                   /\ new.input_reports_accepted = projection.input_reports_accepted
    BY <1>1, <1>2 DEF StatusTypes, Projections
  <2>2. StatusTypes'
    BY <1>1, <2>1, TypesKept, EmptySeq
  <2>3. Settled(heard, projection')
    BY <1>1, <2>1 DEF Settled, Status!Writes
  <2> QED
    BY <2>1, <2>2, <2>3, QuietWrite
<1>3. CASE /\ projection.session_id # 0
           /\ Status!Writes(state, <<Status!lifecycle_changed(Status!Context(state), lifecycle)>>)
  <2> DEFINE event == Status!lifecycle_changed(Status!Context(state), lifecycle)
  <2>1. /\ state \in Projections /\ Status!Context(state) = Status!Context(projection)
        /\ state.session_id = projection.session_id
        /\ state.input_reports_accepted = projection.input_reports_accepted
    BY <1>1 DEF StatusTypes, Projections, Status!Context
  <2>2. event \in Events /\ Hears(heard, event) = heard /\ Follows(heard, event)
    BY <1>1, <1>3, <2>1, Contexted, LifecycleEvent DEF Settled
  <2> HIDE DEF event, state
  <2>3. <<event>> \in Seq(Events) /\ Status!Writes(state, <<event>>)
    BY <1>3, <2>2 DEF event, state
  <2>4. StatusTypes'
    BY <1>1, <2>1, <2>3, TypesKept
  <2>5. Settled(heard, projection')
    BY <1>1, <2>1, <2>3 DEF Settled, Status!Writes
  <2>6. Leads(<<event>>, heard, heard)
    BY <1>1, <2>2, LeadsOne
  <2> QED
    BY <1>1, <2>3, <2>4, <2>5, <2>6, ToldWrite
<1> QED
  BY <1>1, <1>2, <1>3
  DEF Status!set_lifecycle, Status!WithContext, Status!HasContext, StatusTypes, Projections

\* A sender that counted more than the status: inside a session one report or
\* one reply is told, outside nothing is.
LEMMA InputEvent ==
    ASSUME NEW context \in Contexts, NEW mode \in Modes, NEW inputs \in Nat
    PROVE  /\ Status!report_tx_accepted(context, mode, 0, inputs) \in Events
           /\ \A h \in Streams :
                /\ ~h.ended /\ h.session = context.session_id /\ h.inputs < inputs
                   => Follows(h, Status!report_tx_accepted(context, mode, 0, inputs))
                /\ Hears(h, Status!report_tx_accepted(context, mode, 0, inputs))
                   = [h EXCEPT !.inputs = inputs]
BY DEF Status!report_tx_accepted, Events, Hears, Follows, Streams

LEMMA ReplyEvent ==
    ASSUME NEW context \in Contexts, NEW mode \in Modes, NEW replies \in Nat
    PROVE  /\ Status!reply_tx_accepted(context, mode, 0, replies) \in Events
           /\ \A h \in Streams :
                /\ ~h.ended /\ h.session = context.session_id
                   => Follows(h, Status!reply_tx_accepted(context, mode, 0, replies))
                /\ Hears(h, Status!reply_tx_accepted(context, mode, 0, replies)) = h
BY DEF Status!reply_tx_accepted, Events, Hears, Follows, Streams

LEMMA SenderReset ==
    ASSUME StreamInv, projection.session_id = 0, NEW inputs \in Nat, NEW replies \in Nat,
           inputs <= projection.input_reports_accepted,
           replies <= projection.replies_accepted,
           Status!set_sender_state("null", inputs, replies),
           caller' \in Callers, CallerInv'
    PROVE  StreamInv'
<1> DEFINE state == [projection EXCEPT !.report_mode = "null",
                        !.input_reports_accepted = inputs, !.replies_accepted = replies]
<1>1. /\ state \in Projections /\ state.session_id = 0
      /\ ~(inputs > projection.input_reports_accepted)
      /\ ~(replies > projection.replies_accepted)
  <2>1. /\ projection \in Projections /\ projection.input_reports_accepted \in Nat
        /\ projection.replies_accepted \in Nat
    BY DEF StreamInv, StatusTypes, Projections
  <2>2. ~(inputs > projection.input_reports_accepted) /\ ~(replies > projection.replies_accepted)
    BY <2>1
  <2>3. "null" \in Modes
    BY DEF Modes
  <2>4. state \in Projections
    BY <2>1, <2>3 DEF Projections
  <2>5. state.session_id = 0
    BY <2>1 DEF Projections
  <2> HIDE DEF state
  <2> QED
    BY <2>2, <2>4, <2>5
<1>2. <<>> \o <<>> = <<>>
  BY EmptySeq, ConcatEmptySeq
<1>3. Status!Writes(state, <<>>)
  BY <1>1, <1>2 DEF Status!set_sender_state, Status!SenderEvents
<1>4. pending.worker = <<>> /\ Settled(heard, projection) /\ StatusTypes
  BY <1>3, QuietIsSettled DEF Status!Writes, StreamInv
<1>5. StatusTypes'
  BY <1>1, <1>3, <1>4, TypesKept, EmptySeq
<1>6. Settled(heard, projection')
  BY <1>1, <1>3, <1>4 DEF Settled, Status!Writes
<1> QED
  BY <1>3, <1>5, <1>6, QuietWrite

LEMMA SenderCounts ==
    ASSUME StreamInv, projection.session_id # 0, NEW mode \in Modes,
           NEW inputs \in Nat, NEW replies \in Nat,
           \/ /\ inputs = projection.input_reports_accepted + 1
              /\ replies = projection.replies_accepted
           \/ /\ inputs = projection.input_reports_accepted
              /\ replies = projection.replies_accepted + 1,
           Status!set_sender_state(mode, inputs, replies),
           caller' \in Callers, CallerInv'
    PROVE  StreamInv'
<1> DEFINE state == [projection EXCEPT !.report_mode = mode,
                        !.input_reports_accepted = inputs, !.replies_accepted = replies]
           input == Status!report_tx_accepted(Status!Context(state), mode, 0, inputs)
           reply == Status!reply_tx_accepted(Status!Context(state), mode, 0, replies)
<1>1. /\ projection \in Projections /\ heard \in Streams /\ StatusTypes
      /\ pending.worker = <<>> /\ Settled(heard, projection)
  BY QuietIsSettled DEF Status!set_sender_state, Status!Writes, StreamInv, StatusTypes
<1>2. /\ state \in Projections /\ state.session_id = projection.session_id
      /\ state.input_reports_accepted = inputs
      /\ Status!Context(state) = Status!Context(projection)
  BY <1>1 DEF Projections, Status!Context
<1>3. Status!Context(state) \in Contexts /\ Status!Context(state).session_id = heard.session
  BY <1>1, <1>2, Contexted DEF Settled
<1>4. /\ ~heard.ended /\ heard.inputs <= projection.input_reports_accepted
      /\ heard.inputs \in Nat /\ heard.session = projection.session_id
      /\ projection.input_reports_accepted \in Nat /\ projection.replies_accepted \in Nat
  BY <1>1 DEF Settled, Streams, Projections
<1>5. Status!Writes(state, (IF inputs > projection.input_reports_accepted THEN <<input>> ELSE <<>>)
                           \o (IF replies > projection.replies_accepted THEN <<reply>> ELSE <<>>))
  BY DEF Status!set_sender_state, Status!SenderEvents
<1>6. CASE /\ inputs = projection.input_reports_accepted + 1
           /\ replies = projection.replies_accepted
  <2> DEFINE last == [heard EXCEPT !.inputs = inputs]
  <2>1. input \in Events /\ Follows(heard, input) /\ Hears(heard, input) = last
    BY <1>1, <1>3, <1>4, <1>6, InputEvent
  <2>2. last \in Streams /\ ~last.ended /\ last.session = projection.session_id
        /\ last.inputs = inputs
    BY <1>1, <1>4 DEF Streams
  <2>3. inputs > projection.input_reports_accepted /\ ~(replies > projection.replies_accepted)
    BY <1>4, <1>6
  <2> HIDE DEF state, input, reply, last
  <2>4. <<input>> \in Seq(Events) /\ <<input>> \o <<>> = <<input>>
    BY <2>1, ConcatEmptySeq
  <2>5. Status!Writes(state, <<input>>)
    BY <1>5, <2>3, <2>4
  <2>6. StatusTypes'
    BY <1>1, <1>2, <2>4, <2>5, TypesKept
  <2>7. Settled(last, projection')
    <3>1. projection' = state
      BY <2>5 DEF Status!Writes
    <3> QED
      BY <1>2, <1>4, <2>2, <3>1 DEF Settled
  <2>8. Leads(<<input>>, heard, last)
    BY <1>1, <2>1, LeadsOne
  <2> QED
    BY <2>2, <2>5, <2>6, <2>7, <2>8, ToldWrite
<1>7. CASE /\ inputs = projection.input_reports_accepted
           /\ replies = projection.replies_accepted + 1
  <2>1. reply \in Events /\ Follows(heard, reply) /\ Hears(heard, reply) = heard
    BY <1>1, <1>3, <1>4, <1>7, ReplyEvent
  <2>3. replies > projection.replies_accepted /\ ~(inputs > projection.input_reports_accepted)
    BY <1>4, <1>7
  <2> HIDE DEF state, input, reply
  <2>4. <<reply>> \in Seq(Events) /\ <<>> \o <<reply>> = <<reply>>
    BY <2>1, ConcatEmptySeq
  <2>5. Status!Writes(state, <<reply>>)
    BY <1>5, <2>3, <2>4
  <2>6. StatusTypes'
    BY <1>1, <1>2, <2>4, <2>5, TypesKept
  <2>7. Settled(heard, projection')
    <3>1. projection' = state /\ heard' = heard
      BY <2>5 DEF Status!Writes
    <3> QED
      BY <1>2, <1>4, <1>7, <3>1 DEF Settled
  <2>8. Leads(<<reply>>, heard, heard)
    BY <1>1, <2>1, LeadsOne
  <2> QED
    BY <1>1, <2>5, <2>6, <2>7, <2>8, ToldWrite
<1> QED
  BY <1>6, <1>7

\* A session that begins, ends, is closed or fails.
LEMMA SessionBegun ==
    ASSUME StreamInv, projection.session_id = 0, NEW id \in Nat \ {0},
           Status!begin_session(id, "Connecting"), caller' \in Callers, CallerInv'
    PROVE  StreamInv'
<1> DEFINE state == [projection EXCEPT
                        !.lifecycle = "Connecting", !.connected = FALSE, !.session_id = id,
                        !.report_mode = "null", !.worker_failure = FALSE]
           started == Status!session_started(Status!Context(state))
           changed == Status!lifecycle_changed(Status!Context(state), "Connecting")
           last == [session |-> id, ended |-> FALSE, inputs |-> 0]
<1>1. /\ projection \in Projections /\ heard \in Streams /\ StatusTypes
      /\ pending.worker = <<>> /\ heard.ended
  BY QuietIsSettled DEF Status!begin_session, Status!Writes, StreamInv, StatusTypes, Settled
<1>2. "Connecting" \in Lifecycles /\ "null" \in Modes
  BY DEF Lifecycles, Modes
<1>3. /\ state \in Projections /\ state.session_id = id
      /\ state.input_reports_accepted = projection.input_reports_accepted
      /\ state.input_reports_accepted \in Nat
  BY <1>1, <1>2 DEF Projections
<1>4. Status!Context(state) \in Contexts /\ Status!Context(state).session_id = id
  BY <1>3 DEF Contexts, Status!Context, Status!diagnostic_context, Status!DiagnosticContext
<1>5. started \in Events /\ Follows(heard, started) /\ Hears(heard, started) = last
  BY <1>1, <1>4 DEF Status!session_started, Events, Follows, Hears
<1>6. changed \in Events /\ Hears(last, changed) = last /\ Follows(last, changed)
  BY <1>2, <1>4, LifecycleEvent
<1>7. Status!Writes(state, <<started, changed>>)
  BY DEF Status!begin_session
<1>8. last \in Streams /\ Settled(last, state)
  BY <1>3 DEF Streams, Settled
<1> HIDE DEF state, started, changed, last
<1>9. Leads(<<started, changed>>, heard, last)
  BY <1>1, <1>5, <1>6, LeadsTwo
<1>10. StatusTypes'
  BY <1>1, <1>3, <1>5, <1>6, <1>7, TypesKept
<1>11. Settled(last, projection')
  BY <1>7, <1>8 DEF Status!Writes
<1> QED
  BY <1>7, <1>8, <1>9, <1>10, <1>11, ToldWrite

LEMMA EndEvent ==
    ASSUME NEW context \in Contexts, NEW lifecycle \in Lifecycles, NEW reason \in Reasons
    PROVE  /\ Status!session_ended(context, lifecycle, reason) \in Events
           /\ \A h \in Streams :
                /\ ~h.ended /\ h.session = context.session_id
                   => Follows(h, Status!session_ended(context, lifecycle, reason))
                /\ Hears(h, Status!session_ended(context, lifecycle, reason))
                   = [h EXCEPT !.ended = TRUE]
BY DEF Status!session_ended, Events, Hears, Follows, Streams

LEMMA FailEvent ==
    ASSUME NEW context \in Contexts, NEW category \in Categories
    PROVE  /\ Status!worker_failed(context, category) \in Events
           /\ \A h \in Streams :
                /\ ~h.ended /\ h.session = context.session_id
                   => Follows(h, Status!worker_failed(context, category))
                /\ Hears(h, Status!worker_failed(context, category)) = h
BY DEF Status!worker_failed, Events, Hears, Follows, Streams

LEMMA SessionEnded ==
    ASSUME StreamInv, NEW lifecycle \in Lifecycles, NEW reason \in Reasons,
           \/ Status!end_session(lifecycle, reason)
           \/ reason = "null" /\ Status!close(lifecycle),
           caller' \in Callers, CallerInv'
    PROVE  StreamInv'
<1> DEFINE state == [projection EXCEPT !.lifecycle = lifecycle, !.connected = FALSE,
                                       !.session_id = 0, !.report_mode = "null"]
           event == Status!session_ended(Status!Context(projection), lifecycle, reason)
           last == [heard EXCEPT !.ended = TRUE]
<1>1. Status!Writes(state, IF projection.session_id # 0 THEN <<event>> ELSE <<>>)
  BY DEF Status!end_session, Status!close, Status!WithContext, Status!HasContext
<1>2. /\ projection \in Projections /\ heard \in Streams /\ StatusTypes
      /\ pending.worker = <<>> /\ Settled(heard, projection)
  BY <1>1, QuietIsSettled DEF Status!Writes, StreamInv, StatusTypes
<1>3. state \in Projections /\ state.session_id = 0
  BY <1>2 DEF Projections, Modes
<1>4. CASE projection.session_id = 0
  <2>1. Status!Writes(state, <<>>) /\ heard.ended
    BY <1>1, <1>2, <1>4 DEF Settled
  <2> HIDE DEF state
  <2>2. StatusTypes'
    BY <1>2, <1>3, <2>1, TypesKept, EmptySeq
  <2>3. Settled(heard, projection')
    BY <1>3, <2>1 DEF Status!Writes, Settled
  <2> QED
    BY <2>1, <2>2, <2>3, QuietWrite
<1>5. CASE projection.session_id # 0
  <2>1. event \in Events /\ Follows(heard, event) /\ Hears(heard, event) = last
    BY <1>2, <1>5, Contexted, EndEvent DEF Settled
  <2>2. last \in Streams /\ last.ended
    BY <1>2 DEF Streams
  <2> HIDE DEF state, event, last
  <2>3. Status!Writes(state, <<event>>) /\ <<event>> \in Seq(Events)
    BY <1>1, <1>5, <2>1
  <2>4. StatusTypes'
    BY <1>2, <1>3, <2>1, <2>3, TypesKept
  <2>5. Settled(last, projection')
    BY <1>3, <2>2, <2>3 DEF Status!Writes, Settled
  <2>6. Leads(<<event>>, heard, last)
    BY <1>2, <2>1, LeadsOne
  <2> QED
    BY <2>2, <2>3, <2>4, <2>5, <2>6, ToldWrite
<1> QED
  BY <1>4, <1>5

LEMMA WorkerFails ==
    ASSUME StreamInv, NEW category \in Categories, Status!fail(category),
           caller' \in Callers, CallerInv'
    PROVE  StreamInv'
<1> DEFINE state == [projection EXCEPT !.lifecycle = "Failed", !.connected = FALSE,
                        !.session_id = 0, !.report_mode = "null", !.worker_failure = TRUE]
           failed == Status!worker_failed(Status!Context(projection), category)
           changed == Status!lifecycle_changed(Status!Context(projection), "Failed")
           ended == Status!session_ended(Status!Context(projection), "Failed", "null")
           last == [heard EXCEPT !.ended = TRUE]
<1>1. /\ projection \in Projections /\ heard \in Streams /\ StatusTypes
      /\ pending.worker = <<>> /\ Settled(heard, projection)
  BY QuietIsSettled DEF Status!fail, Status!Writes, StreamInv, StatusTypes
<1>2. state \in Projections /\ state.session_id = 0
  BY <1>1 DEF Projections, Modes, Lifecycles
<1>3. CASE projection.worker_failure
  <2>1. Status!Writes(projection, <<>>)
    BY <1>3 DEF Status!fail
  <2>2. StatusTypes'
    BY <1>1, <2>1, TypesKept, EmptySeq
  <2>3. Settled(heard, projection')
    BY <1>1, <2>1 DEF Status!Writes
  <2> QED
    BY <2>1, <2>2, <2>3, QuietWrite
<1>4. CASE ~projection.worker_failure /\ projection.session_id = 0
  <2>1. Status!Writes(state, <<>>) /\ heard.ended
    BY <1>1, <1>4 DEF Status!fail, Status!HasContext, Settled
  <2> HIDE DEF state
  <2>2. StatusTypes'
    BY <1>1, <1>2, <2>1, TypesKept, EmptySeq
  <2>3. Settled(heard, projection')
    BY <1>2, <2>1 DEF Status!Writes, Settled
  <2> QED
    BY <2>1, <2>2, <2>3, QuietWrite
<1>5. CASE ~projection.worker_failure /\ projection.session_id # 0
  <2>1. ~heard.ended /\ heard.session = Status!Context(projection).session_id
        /\ Status!Context(projection) \in Contexts
    BY <1>1, <1>5, Contexted DEF Settled
  <2>2. failed \in Events /\ Follows(heard, failed) /\ Hears(heard, failed) = heard
    BY <1>1, <2>1, FailEvent
  <2>3. changed \in Events /\ Follows(heard, changed) /\ Hears(heard, changed) = heard
    BY <1>1, <2>1, LifecycleEvent DEF Lifecycles
  <2>4. ended \in Events /\ Follows(heard, ended) /\ Hears(heard, ended) = last
    BY <1>1, <2>1, EndEvent DEF Lifecycles, Reasons
  <2>5. last \in Streams /\ last.ended
    BY <1>1 DEF Streams
  <2>6. Status!Writes(state, <<failed, changed, ended>>)
    BY <1>5 DEF Status!fail, Status!HasContext
  <2> HIDE DEF state, failed, changed, ended, last
  <2>7. <<failed, changed, ended>> \in Seq(Events)
    BY <2>2, <2>3, <2>4
  <2>8. StatusTypes'
    BY <1>1, <1>2, <2>6, <2>7, TypesKept
  <2>9. Settled(last, projection')
    BY <1>2, <2>5, <2>6 DEF Status!Writes, Settled
  <2>10. Leads(<<failed, changed, ended>>, heard, last)
    BY <1>1, <2>2, <2>3, <2>4, LeadsThree
  <2> QED
    BY <2>5, <2>6, <2>8, <2>9, <2>10, ToldWrite
<1> QED
  BY <1>3, <1>4, <1>5

-----------------------------------------------------------------------------
(* The steps of the status                                                  *)

LEMMA StreamStarts ==
    ASSUME Status!StatusInit
    PROVE  StreamInv
<1>1. /\ projection = Status!configured /\ caller = Status!NoWorker
      /\ pending = [worker |-> <<>>, client |-> <<>>] /\ heard = Status!Silent
  BY DEF Status!StatusInit
<1>2. heard \in Streams /\ heard.ended
  BY <1>1 DEF Status!Silent, Streams
<1>3. projection \in Projections /\ projection.session_id = 0 /\ ~projection.connected
  BY <1>1 DEF Status!configured, Projections, Lifecycles, Modes
<1>4. caller \in Callers /\ caller.at = "none"
  BY <1>1 DEF Status!NoWorker, Callers, Places
<1>5. /\ pending \in [worker : Seq(Events), client : Seq(Events)] /\ pending.worker = <<>>
  BY <1>1, EmptySeq
<1>6. Leads(pending.worker, heard, heard) /\ Settled(heard, projection)
  BY <1>2, <1>3, <1>5, LeadsNowhere DEF Settled
<1> QED
  BY <1>2, <1>3, <1>4, <1>5, <1>6 DEF StreamInv, StatusTypes, CallerInv

LEMMA StatusSteps ==
    ASSUME StreamInv, Status!StatusNext
    PROVE  StreamInv'
<1>1. /\ projection \in Projections /\ caller \in Callers /\ CallerInv
      /\ projection.session_id \in Nat
      /\ projection.input_reports_accepted \in Nat /\ projection.replies_accepted \in Nat
      /\ caller.inputs \in Nat /\ caller.replies \in Nat /\ caller.sessions \in Nat
  BY DEF StreamInv, StatusTypes, Projections, Callers
<1> USE DEF Status!Calling, Status!Moves
<1>2. CASE Status!WorkerStarts
  <2>1. /\ Status!set_lifecycle("Open") /\ caller' \in Callers
        /\ caller'.at = "open" /\ caller'.inputs = 0 /\ caller'.replies = 0
        /\ caller.at \in {"none", "closed"}
    BY <1>1, <1>2 DEF Status!WorkerStarts, Callers, Places
  <2>2. /\ projection'.session_id = projection.session_id
        /\ projection'.connected = projection.connected
        /\ projection'.input_reports_accepted = projection.input_reports_accepted
        /\ projection'.replies_accepted = projection.replies_accepted
    BY <1>1, <2>1 DEF Status!set_lifecycle, Status!Writes, Projections
  <2>3. CallerInv'
    BY <1>1, <2>1, <2>2 DEF CallerInv
  <2> QED
    BY <2>1, <2>3, LifecycleSet DEF Lifecycles
<1>3. CASE Status!SessionResets
  <2>1. /\ Status!set_sender_state("null", caller.inputs, caller.replies)
        /\ caller' \in Callers /\ caller.at = "open" /\ caller'.at = "starting"
        /\ caller'.inputs = caller.inputs /\ caller'.replies = caller.replies
    BY <1>1, <1>3 DEF Status!SessionResets, Callers, Places
  <2>2. /\ projection'.session_id = projection.session_id
        /\ projection'.connected = projection.connected
        /\ projection'.input_reports_accepted = caller.inputs
        /\ projection'.replies_accepted = caller.replies
    BY <1>1, <2>1 DEF Status!set_sender_state, Status!Writes, Projections
  <2>3. CallerInv' /\ projection.session_id = 0
    BY <1>1, <2>1, <2>2 DEF CallerInv, Counts
  <2> QED
    BY <1>1, <2>1, <2>3, SenderReset DEF CallerInv
<1>4. CASE Status!SessionBegins
  <2>0. /\ Status!begin_session(caller.sessions + 1, "Connecting") /\ caller.at = "starting"
        /\ caller' = [caller EXCEPT !.at = "session", !.sessions = @ + 1]
    BY <1>4 DEF Status!SessionBegins
  <2>1. /\ caller' \in Callers /\ caller'.at = "session"
        /\ caller'.inputs = caller.inputs /\ caller'.replies = caller.replies
    <3>1. PICK n \in Nat : n = caller.sessions + 1
      BY <1>1
    <3>2. caller' = [caller EXCEPT !.at = "session", !.sessions = n]
      BY <2>0, <3>1
    <3>3. caller \in Callers
      BY <1>1
    <3> QED
      BY <3>2, <3>3 DEF Callers, Places
  <2>2. /\ projection'.session_id = caller.sessions + 1
        /\ ~projection'.worker_failure
        /\ projection'.input_reports_accepted = projection.input_reports_accepted
        /\ projection'.replies_accepted = projection.replies_accepted
    BY <1>1, <2>0 DEF Status!begin_session, Status!Writes, Projections
  <2>3. CallerInv' /\ projection.session_id = 0 /\ caller.sessions + 1 \in Nat \ {0}
    BY <1>1, <2>0, <2>1, <2>2 DEF CallerInv, Counts
  <2> QED
    BY <2>0, <2>1, <2>3, SessionBegun
<1>5. CASE Status!Linked
  <2> DEFINE state == [projection EXCEPT !.connected = TRUE]
  <2>1. /\ Status!Writes(state, <<>>) /\ caller' = caller /\ caller.at = "session"
    BY <1>5 DEF Status!Linked, Status!set_connected
  <2>2. /\ state \in Projections /\ state.session_id = projection.session_id
        /\ state.input_reports_accepted = projection.input_reports_accepted
        /\ state.replies_accepted = projection.replies_accepted
        /\ state.worker_failure = projection.worker_failure
    BY <1>1 DEF Projections
  <2> HIDE DEF state
  <2>3. projection' = state /\ pending.worker = <<>>
    BY <2>1 DEF Status!Writes
  <2>4. CallerInv'
    BY <1>1, <2>1, <2>2, <2>3 DEF CallerInv, Counts
  <2>5. StatusTypes'
    BY <1>1, <2>1, <2>2, TypesKept, EmptySeq DEF StreamInv
  <2>6. Settled(heard, projection')
    BY <2>2, <2>3, QuietIsSettled DEF Settled
  <2> QED
    BY <2>1, <2>4, <2>5, <2>6, QuietWrite
<1>6. CASE Status!Readies \/ Status!Closing
  <2>1. PICK lifecycle \in {"Ready", "Closing"} :
            /\ Status!set_lifecycle(lifecycle) /\ caller' \in Callers
            /\ caller'.inputs = caller.inputs /\ caller'.replies = caller.replies
            /\ \/ caller.at = "session" /\ caller'.at = "session"
               \/ caller.at \in {"open", "session"} /\ caller'.at = "closing"
    BY <1>1, <1>6 DEF Status!Readies, Status!Closing, Callers, Places
  <2>2. /\ projection'.session_id = projection.session_id
        /\ projection'.connected = projection.connected
        /\ projection'.worker_failure = projection.worker_failure
        /\ projection'.input_reports_accepted = projection.input_reports_accepted
        /\ projection'.replies_accepted = projection.replies_accepted
    BY <1>1, <2>1 DEF Status!set_lifecycle, Status!Writes, Projections
  <2>3. CallerInv'
    BY <1>1, <2>1, <2>2 DEF CallerInv, Counts
  <2>4. lifecycle \in Lifecycles
    BY DEF Lifecycles
  <2> QED
    BY <2>1, <2>3, <2>4, LifecycleSet
<1>7. CASE Status!Observes
  <2> DEFINE event == Status!subcommand_observed(Status!Context(projection), 2)
  <2>1. /\ Status!Writes(projection, <<event>>) /\ caller' = caller
    BY <1>1, <1>7 DEF Status!Observes, Status!record_subcommand, Status!WithContext,
                      Status!HasContext, CallerInv
  <2>2. /\ projection' = projection /\ Settled(heard, projection) /\ heard \in Streams
        /\ projection.session_id # 0 /\ StatusTypes
    BY <1>1, <1>7, <2>1, QuietIsSettled
    DEF Status!Observes, Status!Writes, CallerInv, StreamInv, StatusTypes
  <2>3. event \in Events /\ Follows(heard, event) /\ Hears(heard, event) = heard
    BY <2>2, Contexted DEF Status!subcommand_observed, Events, Follows, Hears, Settled
  <2> HIDE DEF event
  <2>4. <<event>> \in Seq(Events)
    BY <2>3
  <2>5. StatusTypes'
    BY <1>1, <2>1, <2>2, <2>4, TypesKept
  <2>6. Leads(<<event>>, heard, heard) /\ CallerInv'
    BY <1>1, <2>1, <2>2, <2>3, LeadsOne DEF CallerInv, Counts
  <2> QED
    BY <2>1, <2>2, <2>5, <2>6, ToldWrite
<1>8. CASE Status!InputAccepted \/ Status!ReplyAccepted \/ Status!NeutralAccepted
  <2>1. PICK mode \in Modes, inputs \in Nat, replies \in Nat :
            /\ Status!set_sender_state(mode, inputs, replies)
            /\ \/ inputs = caller.inputs + 1 /\ replies = caller.replies
               \/ inputs = caller.inputs /\ replies = caller.replies + 1
            /\ caller' \in Callers /\ caller'.at = caller.at
            /\ caller'.inputs = inputs /\ caller'.replies = replies
            /\ caller.at = "session" \/ projection.connected
    <3>1. CASE Status!InputAccepted
      BY <1>1, <3>1 DEF Status!InputAccepted, Callers, Modes
    <3>2. CASE Status!ReplyAccepted
      BY <1>1, <3>2 DEF Status!ReplyAccepted, Callers, Modes
    <3>3. CASE Status!NeutralAccepted
      BY <1>1, <3>3 DEF Status!NeutralAccepted, Callers, Projections
    <3> QED
      BY <1>8, <3>1, <3>2, <3>3
  <2>2. projection.session_id # 0 /\ Counts
    BY <1>1, <2>1 DEF CallerInv
  <2>3. /\ projection'.session_id = projection.session_id
        /\ projection'.connected = projection.connected
        /\ projection'.worker_failure = projection.worker_failure
        /\ projection'.input_reports_accepted = inputs
        /\ projection'.replies_accepted = replies
    BY <1>1, <2>1 DEF Status!set_sender_state, Status!Writes, Projections
  <2>4. CallerInv'
    BY <1>1, <2>1, <2>2, <2>3 DEF CallerInv, Counts
  <2>5. \/ /\ inputs = projection.input_reports_accepted + 1
           /\ replies = projection.replies_accepted
        \/ /\ inputs = projection.input_reports_accepted
           /\ replies = projection.replies_accepted + 1
    BY <2>1, <2>2 DEF Counts
  <2> QED
    BY <2>1, <2>2, <2>4, <2>5, SenderCounts
<1>9. CASE Status!SessionEnds \/ Status!Closes
  <2>1. PICK lifecycle \in Lifecycles, reason \in Reasons :
            /\ \/ Status!end_session(lifecycle, reason)
               \/ reason = "null" /\ Status!close(lifecycle)
            /\ caller' \in Callers
            /\ caller'.inputs = caller.inputs /\ caller'.replies = caller.replies
            /\ \/ caller.at = "session" /\ caller'.at = "open"
               \/ caller'.at = "closed"
    <3>1. CASE Status!SessionEnds
      BY <1>1, <3>1 DEF Status!SessionEnds, Callers, Places, Lifecycles, Reasons
    <3>2. CASE Status!Closes
      BY <1>1, <3>2 DEF Status!Closes, Callers, Places, Lifecycles, Reasons
    <3> QED
      BY <1>9, <3>1, <3>2
  <2>2. /\ projection'.session_id = 0 /\ ~projection'.connected
        /\ projection'.input_reports_accepted = projection.input_reports_accepted
        /\ projection'.replies_accepted = projection.replies_accepted
    BY <1>1, <2>1 DEF Status!end_session, Status!close, Status!Writes, Projections
  <2>3. CallerInv'
    BY <1>1, <2>1, <2>2 DEF CallerInv, Counts
  <2> QED
    BY <2>1, <2>3, SessionEnded
<1>10. CASE Status!Fails
  <2>1. PICK category \in Categories :
            /\ Status!fail(category) /\ caller' \in Callers /\ caller'.at = "closed"
    BY <1>1, <1>10 DEF Status!Fails, Callers, Places, Categories
  <2>2. \/ projection.worker_failure /\ projection' = projection
        \/ projection'.session_id = 0 /\ ~projection'.connected
    BY <1>1, <2>1 DEF Status!fail, Status!Writes, Projections
  <2>3. CallerInv'
    BY <1>1, <2>1, <2>2 DEF CallerInv
  <2> QED
    BY <2>1, <2>3, WorkerFails
<1>11. ASSUME NEW button \in Buttons, Status!record_unsupported_button(button)
       PROVE  StreamInv'
  <2> DEFINE event == Status!unsupported_button(Status!Context(projection), button)
  <2>1. /\ pending' = [pending EXCEPT !.client = <<event>>]
        /\ projection' = projection /\ caller' = caller /\ heard' = heard
    BY <1>11 DEF Status!record_unsupported_button
  <2>2. event \in Events
    BY Contexted DEF Status!unsupported_button, Events, StreamInv
  <2> HIDE DEF event
  <2>3. /\ pending' \in [worker : Seq(Events), client : Seq(Events)]
        /\ pending'.worker = pending.worker
    <3>1. pending \in [worker : Seq(Events), client : Seq(Events)] /\ <<event>> \in Seq(Events)
      BY <2>2 DEF StreamInv, StatusTypes
    <3> QED
      BY <2>1, <3>1
  <2> QED
    BY <2>1, <2>3 DEF StreamInv, StatusTypes, CallerInv, Counts
<1> QED
  BY <1>2, <1>3, <1>4, <1>5, <1>6, <1>7, <1>8, <1>9, <1>10, <1>11 DEF Status!StatusNext

\* What is emitted follows what was heard, and the rest follows it.
LEMMA EmitSteps ==
    ASSUME StreamInv, NEW thread \in {"worker", "client"}, Status!emit(thread)
    PROVE  /\ StreamInv' /\ Head(pending[thread]) \in Events
           /\ thread = "worker" => Follows(heard, Head(pending.worker))
           /\ thread = "client" => pending'.worker = pending.worker
<1>1. /\ pending \in [worker : Seq(Events), client : Seq(Events)] /\ heard \in Streams
      /\ projection' = projection /\ caller' = caller
      /\ pending' = [pending EXCEPT ![thread] = Tail(@)] /\ pending[thread] # <<>>
  BY DEF Status!emit, StreamInv, StatusTypes
<1>2. PICK last \in Streams : Leads(pending.worker, heard, last) /\ Settled(last, projection)
  BY DEF StreamInv
<1>3. CASE thread = "worker"
  <2>1. /\ Head(pending.worker) \in Events /\ Tail(pending.worker) \in Seq(Events)
        /\ Follows(heard, Head(pending.worker))
        /\ Leads(Tail(pending.worker), Hears(heard, Head(pending.worker)), last)
    BY <1>1, <1>2, <1>3, LeadsOn
  <2>2. /\ pending' \in [worker : Seq(Events), client : Seq(Events)]
        /\ pending'.worker = Tail(pending.worker)
    BY <1>1, <1>3, <2>1
  <2>3. heard' = Hears(heard, Head(pending.worker))
    <3>1. heard' = Status!Hear(Head(pending.worker))
      BY <1>3 DEF Status!emit
    <3> QED
      BY <3>1 DEF Status!Hear, Hears
  <2>4. heard' \in Streams
    BY <1>1, <2>1, <2>3, HearsStreams
  <2> QED
    BY <1>1, <1>2, <1>3, <2>1, <2>2, <2>3, <2>4 DEF StreamInv, StatusTypes, CallerInv, Counts
<1>4. CASE thread = "client"
  <2>1. /\ Head(pending.client) \in Events /\ Tail(pending.client) \in Seq(Events)
        /\ heard' = heard
    BY <1>1, <1>4 DEF Status!emit
  <2>2. /\ pending' \in [worker : Seq(Events), client : Seq(Events)]
        /\ pending'.worker = pending.worker
    BY <1>1, <1>4, <2>1
  <2> QED
    BY <1>1, <1>2, <1>4, <2>1, <2>2 DEF StreamInv, StatusTypes, CallerInv, Counts
<1> QED
  BY <1>3, <1>4

\* The worker is gone and nothing is left to tell.
LEMMA JoinSteps ==
    ASSUME StreamInv, Status!WorkerJoined
    PROVE  StreamInv' /\ pending' = pending
<1>1. /\ projection' = Status!configured /\ caller' = Status!NoWorker
      /\ heard' = Status!Silent /\ pending' = pending /\ pending.worker = <<>>
  BY DEF Status!WorkerJoined
<1>2. heard' \in Streams /\ heard'.ended
  BY <1>1 DEF Status!Silent, Streams
<1>3. projection' \in Projections /\ projection'.session_id = 0 /\ ~projection'.connected
  BY <1>1 DEF Status!configured, Projections, Lifecycles, Modes
<1>4. caller' \in Callers /\ caller'.at = "none"
  BY <1>1 DEF Status!NoWorker, Callers, Places
<1>5. Leads(pending'.worker, heard', heard') /\ Settled(heard', projection')
  BY <1>1, <1>2, <1>3, LeadsNowhere DEF Settled
<1> QED
  BY <1>1, <1>2, <1>3, <1>4, <1>5 DEF StreamInv, StatusTypes, CallerInv

LEMMA RecordFields ==
    ASSUME NEW context, NEW name, NEW extra
    PROVE  LET made == Status!record(context, name, extra)
           IN  /\ DOMAIN made = {"schema", "schema_version", "event", "controller_kind",
                                 "reporting_kind", "session_id"} \cup DOMAIN extra
               /\ made.schema = "swbt.diagnostics" /\ made.schema_version = 1
               /\ made.event = name
BY DEF Status!record, Status!Schema

\* A record with the fields of its event, or without one that may be missing.
LEMMA FieldsAreTaken ==
    ASSUME NEW made, NEW name, made.schema = "swbt.diagnostics", made.schema_version = 1,
           made.event = name, name # "environment",
           DOMAIN made = Trace!Expected(name)
    PROVE  Trace!normalize_and_validate(made)
<1>1. name = "session_ended" => "disconnect_reason" \in DOMAIN made
  BY DEF Trace!Expected, Trace!runtime_fields
<1>2. name \in {"report_tx_accepted", "reply_tx_accepted"} => "report_mode" \in DOMAIN made
  BY DEF Trace!Expected, Trace!runtime_fields
<1>3. DOMAIN Trace!normalized(made) = DOMAIN made
  BY <1>1, <1>2 DEF Trace!normalized, Trace!entry
<1> QED
  BY <1>3 DEF Trace!normalize_and_validate, Trace!exact_fields, Trace!TraceSchema

\* The trace takes every event there is, and the environment.
LEMMA EventsAreTaken ==
    ASSUME NEW e \in Events
    PROVE  Trace!normalize_and_validate(Status!to_value(e))
<1> DEFINE frame == {"schema", "schema_version", "event", "controller_kind",
                     "reporting_kind", "session_id"}
\* What becomes a record with the fields of its event is taken.
<1>0. ASSUME NEW name, NEW extra, name # "environment",
             Trace!Expected(name) = frame \cup DOMAIN extra,
             Status!to_value(e) = Status!record(e.context, name, extra)
      PROVE  Trace!normalize_and_validate(Status!to_value(e))
  BY <1>0, RecordFields, FieldsAreTaken
<1> HIDE DEF frame
<1>1. CASE e.of = "SessionStarted"
  <2> DEFINE extra == <<>>
  <2>1. Status!to_value(e) = Status!record(e.context, "session_started", extra)
    BY <1>1 DEF Status!to_value
  <2>2. DOMAIN extra = {}
    OBVIOUS
  <2>3. Trace!Expected("session_started") = frame \cup {}
    BY DEF frame, Trace!Expected, Trace!runtime_fields, Trace!Frame
  <2> HIDE DEF extra
  <2> QED
    BY <1>0, <2>1, <2>2, <2>3
<1>2. CASE e.of = "LifecycleChanged"
  <2> DEFINE extra == [lifecycle |-> Status!lifecycle_name(e.lifecycle)]
  <2>1. Status!to_value(e) = Status!record(e.context, "lifecycle_changed", extra)
    BY <1>2 DEF Status!to_value
  <2>2. DOMAIN extra = {"lifecycle"}
    OBVIOUS
  <2>3. Trace!Expected("lifecycle_changed") = frame \cup {"lifecycle"}
    BY DEF frame, Trace!Expected, Trace!runtime_fields, Trace!Frame
  <2> HIDE DEF extra
  <2> QED
    BY <1>0, <2>1, <2>2, <2>3
<1>3. CASE e.of = "SubcommandObserved"
  <2> DEFINE extra == [subcommand_id |-> e.subcommand_id]
  <2>1. Status!to_value(e) = Status!record(e.context, "subcommand_observed", extra)
    BY <1>3 DEF Status!to_value
  <2>2. DOMAIN extra = {"subcommand_id"}
    OBVIOUS
  <2>3. Trace!Expected("subcommand_observed") = frame \cup {"subcommand_id"}
    BY DEF frame, Trace!Expected, Trace!runtime_fields, Trace!Frame
  <2> HIDE DEF extra
  <2> QED
    BY <1>0, <2>1, <2>2, <2>3
<1>4. CASE e.of = "ReportTxAccepted"
  <2> DEFINE extra == [report_mode |-> e.report_mode, imu_mode |-> e.imu_mode,
                           input_reports_accepted |-> e.accepted]
  <2>1. Status!to_value(e) = Status!record(e.context, "report_tx_accepted", extra)
    BY <1>4 DEF Status!to_value
  <2>2. DOMAIN extra = {"report_mode", "imu_mode", "input_reports_accepted"}
    OBVIOUS
  <2>3. Trace!Expected("report_tx_accepted") = frame \cup {"report_mode", "imu_mode", "input_reports_accepted"}
    BY DEF frame, Trace!Expected, Trace!runtime_fields, Trace!Frame
  <2> HIDE DEF extra
  <2> QED
    BY <1>0, <2>1, <2>2, <2>3
<1>5. CASE e.of = "ReplyTxAccepted"
  <2> DEFINE extra == [report_mode |-> e.report_mode, imu_mode |-> e.imu_mode,
                           replies_accepted |-> e.accepted]
  <2>1. Status!to_value(e) = Status!record(e.context, "reply_tx_accepted", extra)
    BY <1>5 DEF Status!to_value
  <2>2. DOMAIN extra = {"report_mode", "imu_mode", "replies_accepted"}
    OBVIOUS
  <2>3. Trace!Expected("reply_tx_accepted") = frame \cup {"report_mode", "imu_mode", "replies_accepted"}
    BY DEF frame, Trace!Expected, Trace!runtime_fields, Trace!Frame
  <2> HIDE DEF extra
  <2> QED
    BY <1>0, <2>1, <2>2, <2>3
<1>6. CASE e.of = "SessionEnded"
  <2> DEFINE extra == [lifecycle |-> Status!lifecycle_name(e.lifecycle),
                           disconnect_reason |-> e.reason]
  <2>1. Status!to_value(e) = Status!record(e.context, "session_ended", extra)
    BY <1>6 DEF Status!to_value
  <2>2. DOMAIN extra = {"lifecycle", "disconnect_reason"}
    OBVIOUS
  <2>3. Trace!Expected("session_ended") = frame \cup {"lifecycle", "disconnect_reason"}
    BY DEF frame, Trace!Expected, Trace!runtime_fields, Trace!Frame
  <2> HIDE DEF extra
  <2> QED
    BY <1>0, <2>1, <2>2, <2>3
<1>7. CASE e.of = "WorkerFailed"
  <2> DEFINE extra == [failure_category |-> Status!category_name(e.category)]
  <2>1. Status!to_value(e) = Status!record(e.context, "worker_failed", extra)
    BY <1>7 DEF Status!to_value
  <2>2. DOMAIN extra = {"failure_category"}
    OBVIOUS
  <2>3. Trace!Expected("worker_failed") = frame \cup {"failure_category"}
    BY DEF frame, Trace!Expected, Trace!runtime_fields, Trace!Frame
  <2> HIDE DEF extra
  <2> QED
    BY <1>0, <2>1, <2>2, <2>3
<1>8. CASE e.of = "UnsupportedButton"
  <2> DEFINE extra == [button_kind |-> Status!button_name(e.button)]
  <2>1. Status!to_value(e) = Status!record(e.context, "unsupported_button", extra)
    BY <1>8 DEF Status!to_value
  <2>2. DOMAIN extra = {"button_kind"}
    OBVIOUS
  <2>3. Trace!Expected("unsupported_button") = frame \cup {"button_kind"}
    BY DEF frame, Trace!Expected, Trace!runtime_fields, Trace!Frame
  <2> HIDE DEF extra
  <2> QED
    BY <1>0, <2>1, <2>2, <2>3
<1> QED
  BY <1>1, <1>2, <1>3, <1>4, <1>5, <1>6, <1>7, <1>8 DEF Events

LEMMA EnvironmentIsTaken ==
    ASSUME NEW kind, NEW reporting
    PROVE  Trace!normalize_and_validate(Trace!emit_environment(kind, reporting))
BY DEF Trace!normalize_and_validate, Trace!exact_fields, Trace!Expected, Trace!normalized,
       Trace!Frame, Trace!TraceSchema, Trace!emit_environment

LEMMA TraceTakes ==
    ASSUME NEW t, t # "refused", NEW record, NEW writable \in BOOLEAN,
           Trace!normalize_and_validate(record)
    PROVE  Trace!event(t, record, writable) # "refused"
BY DEF Trace!event

\* What the worker tells next follows what it told.
InOrder ==
    Len(pending'.worker) < Len(pending.worker) => Follows(heard, Head(pending.worker))

LEMMA StreamNext ==
    ASSUME StreamInv, TraceAccepts, [Next]_vars
    PROVE  StreamInv' /\ TraceAccepts' /\ InOrder
<1> USE DEF TraceAccepts
<1>0. pending \in [worker : Seq(Events), client : Seq(Events)]
  BY DEF StreamInv, StatusTypes
<1>1. CASE /\ projection' = projection /\ caller' = caller /\ pending' = pending
           /\ heard' = heard
  <2>1. StreamInv' /\ InOrder
    BY <1>0, <1>1 DEF StreamInv, StatusTypes, CallerInv, Counts, InOrder
  <2>2. TraceAccepts'
    <3>1. CASE trace' = trace
      BY <3>1
    <3>2. CASE install
      BY <3>2, EnvironmentIsTaken, TraceTakes DEF install
    <3>3. CASE finish_trace
      BY <3>3 DEF finish_trace
    <3>4. CASE Scenario \/ Outside \/ Ended \/ UNCHANGED vars
      BY <3>1, <3>4 DEF Scenario, Outside, Ended, vars
    <3>5. CASE ProbeRuns \/ WorkerReports
      <4>1. trace' = trace \/ install \/ finish_trace
        BY <3>5 DEF ProbeRuns, WorkerReports, Start, ProbeSteps, main, list_adapters,
            inspect_profile, open_adapter, open_and_close, pair, Inspect, Build, Open, reconnect,
            apply_button, run_periodic_imu, wait_for_periodic_report, Compare,
            reopen_after_connection, finish_connection
      <4> QED
        BY <3>1, <3>2, <3>3, <4>1
    <3>6. ASSUME NEW thread \in {"worker", "client"}, NEW writable \in BOOLEAN,
                 Records(thread, writable)
          PROVE  TraceAccepts'
      BY <3>6, EmitSteps, EventsAreTaken, TraceTakes DEF Records
    <3> QED
      BY <3>4, <3>5, <3>6 DEF Next
  <2> QED
    BY <2>1, <2>2
<1>2. CASE WorkerReports
  <2>1. StreamInv' /\ trace' = trace
    BY <1>2, StatusSteps DEF WorkerReports
  <2>2. pending.worker = <<>> \/ pending'.worker = pending.worker
    BY <1>0, <1>2 DEF WorkerReports, Status!StatusNext, Status!WorkerStarts,
        Status!SessionResets, Status!SessionBegins, Status!Linked, Status!Readies,
        Status!Observes, Status!InputAccepted, Status!ReplyAccepted, Status!NeutralAccepted,
        Status!SessionEnds, Status!Closing, Status!Closes, Status!Fails,
        Status!set_lifecycle, Status!begin_session, Status!set_sender_state,
        Status!set_connected, Status!record_subcommand, Status!end_session, Status!close,
        Status!fail, Status!Writes, Status!record_unsupported_button
  <2>3. InOrder
    <3>1. CASE pending'.worker = pending.worker
      BY <1>0, <3>1 DEF InOrder
    <3>2. CASE pending.worker = <<>>
      BY <2>1, <3>2 DEF InOrder, StreamInv, StatusTypes
    <3> QED
      BY <2>2, <3>1, <3>2
  <2> QED
    BY <2>1, <2>3
<1>3. ASSUME NEW thread \in {"worker", "client"}, NEW writable \in BOOLEAN,
             Records(thread, writable)
      PROVE  StreamInv' /\ TraceAccepts' /\ InOrder
  <2>1. /\ StreamInv' /\ Head(pending[thread]) \in Events
        /\ thread = "worker" => Follows(heard, Head(pending.worker))
        /\ thread = "client" => pending'.worker = pending.worker
    BY <1>3, EmitSteps DEF Records
  <2>2. TraceAccepts'
    BY <1>3, <2>1, EventsAreTaken, TraceTakes DEF Records
  <2>3. InOrder
    BY <1>0, <2>1 DEF InOrder
  <2> QED
    BY <2>1, <2>2, <2>3
<1>4. CASE finish_connection
  <2>1. StreamInv' /\ trace' = trace /\ pending' = pending
    BY <1>4, JoinSteps DEF finish_connection
  <2> QED
    BY <1>0, <2>1 DEF InOrder
<1>5. CASE UNCHANGED statusVars \/ UNCHANGED vars
  BY <1>1, <1>5 DEF statusVars, vars
<1> QED
  BY <1>2, <1>3, <1>4, <1>5 DEF Next, Scenario, ProbeRuns, Outside, Ended

LEMMA StreamAlways == Spec => [](StreamInv /\ TraceAccepts)
<1>1. Init => StreamInv /\ TraceAccepts
  BY StreamStarts DEF Init, TraceAccepts
<1>2. StreamInv /\ TraceAccepts /\ [Next]_vars => (StreamInv /\ TraceAccepts)'
  BY StreamNext
<1> QED
  BY <1>1, <1>2, PTL DEF Spec

\* What a controller emits is a stream of sessions in order, each with its own
\* reports, and the trace of the probe can hold all of it.
THEOREM StreamsAreTraceable == Spec => StreamIsTraceable
<1>1. StreamInv /\ TraceAccepts /\ [Next]_vars => TraceAccepts'
  BY StreamNext
<1>2. StreamInv /\ TraceAccepts /\ [Next]_vars
      => [Len(pending'.worker) < Len(pending.worker) =>
           LET e == Head(pending.worker)
           IN  IF e.of = "SessionStarted" THEN heard.ended
               ELSE /\ ~heard.ended /\ e.context.session_id = heard.session
                    /\ e.of = "ReportTxAccepted" => e.accepted > heard.inputs]_Status!statusVars
  BY StreamNext DEF InOrder, Follows
<1> QED
  BY <1>1, <1>2, StreamAlways, PTL
  DEF Spec, StreamIsTraceable, StreamIsOrdered, Status!StreamIsOrdered

-----------------------------------------------------------------------------
(* What a connection of the probe says in the end                           *)

Kinds ==
    ConnectionErrors \cup CallErrors
    \cup {"Trace", "AdapterDiscovery", "TransportOpen", "TransportClosed", "ProfileNotFound",
          "ProfileAlreadyExists", "InvalidProfile", "ProfileControllerMismatch", "NoBond",
          "UnsupportedInput", "WorkerFailed", "Internal"}
Connects == tool.job.name \in {"pair", "reconnect"}
Underway ==
    {"start", "create", "inspect", "build", "open", "reconnect", "button", "imu", "imu_wait",
     "imu_neutral", "imu_last", "close", "finish", "compare", "reopen", "reopen_open",
     "reopen_close", "recompare"}
Compares == {"compare", "reopen", "reopen_open", "reopen_close", "recompare"}

\* The first of the errors is the one that is named.
Named ==
    /\ tool.failed = "none" <=> tool.calls = <<>>
    /\ tool.calls # <<>> => tool.failed = Head(tool.calls)
\* The controller was closed, and after motion the profile is as it was.
Sound ==
    /\ "close" \in tool.passed
    /\ tool.job.imu => /\ "reopen" \in tool.passed
                       /\ world.disk[tool.job.profile] = tool.before[1]
                       /\ world.disk[tool.job.profile] # Absent
Printed ==
    \/ tool.failed = "none" /\ tool.calls = <<>> /\ trace = "clean" /\ Sound
    \/ tool.failed = "Trace" /\ trace # "clean"
    \/ tool.failed # "none" /\ Named /\ trace = "clean"
ShellInv == tool.at = "shell" => trace = "closed"
CauseInv ==
    Connects =>
        /\ tool.calls \in Seq(Kinds)
        /\ tool.at \in Underway \cup {"print", "done"}
        /\ tool.at \in Underway => Named
        /\ tool.at = "start" => tool.calls = <<>> /\ trace = "closed"
        /\ tool.at \in Compares => tool.failed = "none" /\ "close" \in tool.passed
        /\ tool.at = "recompare" => "reopen" \in tool.passed
        /\ tool.at = "finish" /\ tool.failed = "none" => Sound
        /\ tool.at = "print" => Printed
        /\ tool.at = "done" => ProbeTellsTheCause

LEMMA NoneIsNoKind == "none" \notin Kinds
BY ErrorsAssumption DEF Kinds

LEMMA AppendHead ==
    ASSUME NEW S, NEW s \in Seq(S), NEW e \in S
    PROVE  /\ Append(s, e) \in Seq(S) /\ Append(s, e) # <<>>
           /\ Head(Append(s, e)) = IF s = <<>> THEN e ELSE Head(s)
<1>1. /\ Append(s, e) \in Seq(S) /\ Append(s, e) # <<>> /\ Len(Append(s, e)) = Len(s) + 1
      /\ \A i \in 1 .. Len(s) : Append(s, e)[i] = s[i]
      /\ Append(s, e)[Len(s) + 1] = e
  BY AppendProperties
<1>2. Head(Append(s, e)) = Append(s, e)[1]
  BY <1>1
<1>3. CASE s = <<>>
  BY <1>1, <1>2, <1>3
<1>4. CASE s # <<>>
  <2>1. Len(s) \in Nat \ {0} /\ Head(s) = s[1]
    BY <1>4
  <2> QED
    BY <1>1, <1>2, <1>4, <2>1
<1> QED
  BY <1>1, <1>3, <1>4

\* An error joins those before it, and the first stays the first.
LEMMA KeepsNamed ==
    ASSUME HeldInv, tool.calls \in Seq(Kinds), Named, NEW kind \in Kinds, NEW label,
           Keeps(kind, label)
    PROVE  /\ tool'.calls \in Seq(Kinds) /\ Named' /\ tool'.at = label /\ tool'.job = tool.job
           /\ tool'.failed # "none" /\ tool'.calls # <<>>
<1>1. /\ tool'.calls = Append(tool.calls, kind) /\ tool'.at = label /\ tool'.job = tool.job
      /\ tool'.failed = IF tool.failed = "none" THEN kind ELSE tool.failed
  BY DEF Keeps, HeldInv, Shape
<1>2. /\ Append(tool.calls, kind) \in Seq(Kinds) /\ Append(tool.calls, kind) # <<>>
      /\ Head(Append(tool.calls, kind)) = IF tool.calls = <<>> THEN kind ELSE Head(tool.calls)
  BY AppendHead
<1>3. kind # "none"
  BY NoneIsNoKind
<1> QED
  BY <1>1, <1>2, <1>3 DEF Named

LEMMA StepNamed ==
    ASSUME HeldInv, tool.calls \in Seq(Kinds), Named, NEW label, Step(label)
    PROVE  /\ tool'.calls \in Seq(Kinds) /\ Named' /\ tool'.at = label /\ tool'.job = tool.job
           /\ tool'.failed = tool.failed /\ tool'.passed = tool.passed
           /\ tool'.before = tool.before
<1>1. /\ tool'.calls = tool.calls /\ tool'.at = label /\ tool'.job = tool.job
      /\ tool'.failed = tool.failed /\ tool'.passed = tool.passed
      /\ tool'.before = tool.before
  BY DEF Step, HeldInv, Shape
<1> QED
  BY <1>1 DEF Named

\* Where a step that succeeds or keeps its error leads to.
LEMMA OnNamed ==
    ASSUME HeldInv, tool.calls \in Seq(Kinds), Named, NEW outcome \in Kinds \cup {"Ok"},
           NEW label, NEW otherwise, On(outcome, label, otherwise)
    PROVE  /\ tool'.calls \in Seq(Kinds) /\ Named' /\ tool'.job = tool.job
           /\ \/ /\ tool'.at = label /\ tool'.failed = tool.failed
                 /\ tool'.passed = tool.passed /\ tool'.before = tool.before
              \/ tool'.at = otherwise /\ tool'.failed # "none"
<1>1. CASE outcome = "Ok"
  BY <1>1, StepNamed DEF On
<1>2. CASE outcome # "Ok"
  BY <1>2, KeepsNamed DEF On
<1> QED
  BY <1>1, <1>2

\* On the way to the close, and from there to the end.
LEMMA ReachesClose ==
    ASSUME CauseInv, Connects, tool.calls \in Seq(Kinds), Named', tool'.calls \in Seq(Kinds),
           \/ tool'.at \in Underway \ (Compares \cup {"start", "finish"})
           \/ tool'.at = "finish" /\ tool'.failed # "none"
    PROVE  CauseInv'
<1>1. /\ tool'.at \in Underway /\ tool'.at \notin Compares
      /\ tool'.at \notin {"start", "recompare", "print", "done"}
  BY DEF Underway, Compares
<1> QED
  BY <1>1 DEF CauseInv

LEMMA ScenarioKeepsJob ==
    ASSUME HeldInv, Runner!run_hardware \/ Runner!write_event
    PROVE  /\ tool'.job = tool.job /\ tool.job.name \notin {"pair", "reconnect"}
           /\ tool'.at \notin {"shell", "print"}
<1>1. CASE Runner!write_event
  BY <1>1 DEF Runner!write_event, HeldInv, Shape
<1>2. CASE Runner!JoyCon!run_hardware
  <2> USE DEF Runner!JoyCon!Here, Runner!JoyCon!At, Runner!JoyCon!Goes,
              Runner!JoyCon!Passes, Runner!JoyCon!Complete, Runner!JoyCon!Completes, HeldInv, Shape
  <2>1. CASE Runner!JoyCon!prepare_profile
           \/ Runner!JoyCon!create_paired
           \/ Runner!JoyCon!BuildRun
           \/ Runner!JoyCon!open
           \/ Runner!JoyCon!reconnect
           \/ Runner!JoyCon!close_without_neutral
    BY <2>1 DEF Runner!JoyCon!prepare_profile, Runner!JoyCon!create_paired,
        Runner!JoyCon!BuildRun, Runner!JoyCon!open, Runner!JoyCon!reconnect,
        Runner!JoyCon!close_without_neutral
  <2>2. CASE Runner!JoyCon!verify_pre_input_idle
    <3>1. /\ tool.job.name = "joycon-profile"
          /\ \/ Runner!JoyCon!Passes("pre_input", "idle", <<>>)
             \/ \E events : Runner!JoyCon!Goes("close", events)
      BY <2>2 DEF Runner!JoyCon!verify_pre_input_idle
    <3> QED
      BY <3>1
  <2>6. CASE Runner!JoyCon!verify_direct_idle
    BY <2>6 DEF Runner!JoyCon!verify_direct_idle
  <2>4. CASE Runner!JoyCon!operation_start \/ Runner!JoyCon!OperationCall
           \/ Runner!JoyCon!InputDone
    BY <2>4 DEF Runner!JoyCon!operation_start, Runner!JoyCon!OperationCall,
        Runner!JoyCon!InputDone
  <2>5. CASE Runner!JoyCon!run_operation
    BY <2>5 DEF Runner!JoyCon!run_operation
  <2>3. CASE Runner!JoyCon!close_controller
           \/ Runner!JoyCon!VerifyReopen
           \/ Runner!JoyCon!verify_profile_postflight
    BY <2>3 DEF Runner!JoyCon!close_controller, Runner!JoyCon!VerifyReopen,
        Runner!JoyCon!verify_profile_postflight, Runner!JoyCon!verify_adapter_reopen,
        Runner!JoyCon!reopen_build, Runner!JoyCon!reopen_open,
        Runner!JoyCon!reopen_close
  <2> QED
    BY <1>2, <2>1, <2>2, <2>3, <2>4, <2>5, <2>6 DEF Runner!JoyCon!run_hardware
<1>3. CASE Runner!Profile!run_hardware
  <2> USE DEF Runner!Profile!Here, Runner!Profile!At, Runner!Profile!Goes,
              Runner!Profile!Passes, Runner!Profile!Complete, Runner!Profile!Completes, HeldInv, Shape
  <2>1. CASE Runner!Profile!prepare_profile
    <3>1. /\ tool.job.name = "pro-profile"
          /\ \/ \E success, events : Runner!Profile!Complete(success, events)
             \/ \E content : tool' = [tool EXCEPT !.at = "build", !.before = content]
      BY <2>1 DEF Runner!Profile!prepare_profile
    <3> QED
      BY <3>1
  <2>5. CASE Runner!Profile!StaleCopyFails \/ Runner!Profile!BuildRun \/ Runner!Profile!open
           \/ Runner!Profile!UnexpectedSuccess \/ Runner!Profile!close_without_neutral
    BY <2>5 DEF Runner!Profile!StaleCopyFails, Runner!Profile!BuildRun, Runner!Profile!open,
        Runner!Profile!UnexpectedSuccess, Runner!Profile!close_without_neutral
  <2>2. CASE Runner!Profile!reconnect
    BY <2>2 DEF Runner!Profile!reconnect, Runner!Profile!AfterReconnect
  <2>3. CASE Runner!Profile!verify_direct_idle
           \/ Runner!Profile!operation_start
           \/ Runner!Profile!OperationCall
           \/ Runner!Profile!run_operation
           \/ Runner!Profile!InputDone
    BY <2>3 DEF Runner!Profile!verify_direct_idle, Runner!Profile!operation_start,
        Runner!Profile!OperationCall, Runner!Profile!run_operation,
        Runner!Profile!InputDone
  <2>4. CASE Runner!Profile!close_controller
           \/ Runner!Profile!VerifyReopen
           \/ Runner!Profile!Postflight
    BY <2>4 DEF Runner!Profile!close_controller, Runner!Profile!VerifyReopen,
        Runner!Profile!Postflight, Runner!Profile!verify_adapter_reopen,
        Runner!Profile!reopen_build, Runner!Profile!reopen_open,
        Runner!Profile!reopen_close
  <2> QED
    BY <1>3, <2>1, <2>2, <2>3, <2>4, <2>5 DEF Runner!Profile!run_hardware
<1>4. CASE Runner!Periodic!run_hardware
  <2> USE DEF Runner!Periodic!Here, Runner!Periodic!At, Runner!Periodic!Goes,
              Runner!Periodic!Passes, Runner!Periodic!Complete, Runner!Periodic!Completes, HeldInv, Shape
  <2>1. CASE Runner!Periodic!Preflight
           \/ Runner!Periodic!create_profile
           \/ Runner!Periodic!operation_start
           \/ Runner!Periodic!OperationCall
           \/ Runner!Periodic!run_operation
           \/ Runner!Periodic!InputDone
    BY <2>1 DEF Runner!Periodic!Preflight, Runner!Periodic!create_profile,
        Runner!Periodic!operation_start, Runner!Periodic!OperationCall,
        Runner!Periodic!run_operation, Runner!Periodic!InputDone
  <2>2. CASE Runner!Periodic!close_controller
           \/ Runner!Periodic!validate_profile
           \/ Runner!Periodic!VerifyReopen
           \/ Runner!Periodic!Finish
    BY <2>2 DEF Runner!Periodic!close_controller, Runner!Periodic!validate_profile,
        Runner!Periodic!VerifyReopen, Runner!Periodic!Finish,
        Runner!Periodic!verify_adapter_reopen, Runner!Periodic!reopen_build,
        Runner!Periodic!reopen_open, Runner!Periodic!reopen_close
  <2> QED
    BY <1>4, <2>1, <2>2 DEF Runner!Periodic!run_hardware
<1> QED
  BY <1>1, <1>2, <1>3, <1>4 DEF Runner!run_hardware

\* A program that starts has met no error.
LEMMA CauseStarts ==
    ASSUME ShellInv, trace' = trace, NEW arguments, Runner!run(arguments) \/ Start(arguments)
    PROVE  CauseInv' /\ ShellInv'
<1>1. /\ tool.at = "shell" /\ tool'.at # "shell"
      /\ \/ tool'.job = NoJob
         \/ tool'.at = "start" /\ tool'.calls = <<>> /\ tool'.failed = "none"
  <2>1. CASE Runner!run(arguments)
    BY <2>1 DEF Runner!run, Runner!write, Runner!Exits, Runner!Idle, Runner!NoJob, NoJob
  <2>2. CASE Start(arguments)
    BY <2>2 DEF Start, Idle
  <2> QED
    BY <2>1, <2>2
<1>2. CASE tool'.job = NoJob
  BY <1>1, <1>2 DEF CauseInv, Connects, NoJob, ShellInv
<1>3. CASE tool'.at = "start" /\ tool'.calls = <<>> /\ tool'.failed = "none"
  BY <1>1, <1>3, EmptySeq DEF CauseInv, Named, Underway, Compares, ShellInv
<1> QED
  BY <1>1, <1>2, <1>3

\* Others change the disk only where it had nothing, and the trace only while
\* the controller lives.
LEMMA CauseRests ==
    ASSUME CauseInv, tool' = tool,
           trace' = trace \/ tool.at \in {"button", "close"},
           \/ world' = world
           \/ /\ tool.at # "done"
              /\ world.disk[tool.job.profile] # Absent
                 => world'.disk[tool.job.profile] = world.disk[tool.job.profile]
    PROVE  CauseInv'
<1>1. CASE ~Connects
  BY <1>1 DEF CauseInv, Connects
<1>2. CASE Connects
  <2>1. /\ tool.calls \in Seq(Kinds)
        /\ tool.at \in Underway \cup {"print", "done"}
        /\ tool.at \in Underway => Named
        /\ tool.at \in Compares => tool.failed = "none" /\ "close" \in tool.passed
        /\ tool.at = "recompare" => "reopen" \in tool.passed
        /\ tool.at = "start" => tool.calls = <<>> /\ trace' = "closed"
    BY <1>2 DEF CauseInv
  <2>2. tool.at = "finish" /\ tool.failed = "none" => Sound'
    BY <1>2 DEF CauseInv, Sound
  <2>3. tool.at = "print" => Printed'
    <3>1. CASE tool.at = "print"
      <4>1. Printed /\ trace' = trace
        BY <1>2, <3>1 DEF CauseInv
      <4>2. Sound => Sound'
        BY DEF Sound
      <4> QED
        BY <4>1, <4>2 DEF Printed, Named
    <3> QED
      BY <3>1
  <2>4. tool.at = "done" => ProbeTellsTheCause'
    <3>1. CASE tool.at = "done"
      <4>1. ProbeTellsTheCause /\ trace' = trace /\ world' = world
        BY <1>2, <3>1 DEF CauseInv
      <4> QED
        BY <4>1 DEF ProbeTellsTheCause, Job
    <3> QED
      BY <3>1
  <2> QED
    BY <2>1, <2>2, <2>3, <2>4 DEF CauseInv, Named
<1> QED
  BY <1>1, <1>2

LEMMA KindsOfResults ==
    /\ \A path : InspectResult(path) \in Kinds \cup {"Ok"}
    /\ \A path, model : build(path, model) \in Kinds \cup {"Ok"}
    /\ \A path : read_profile_bytes(path) \in Kinds \cup {"Ok"}
    /\ Opens \subseteq Kinds \cup {"Ok"}
    /\ \A path : Reconnects(path) \subseteq Kinds \cup {"Ok"}
    /\ \A mode, name : Inputs(mode, name) \subseteq Kinds \cup {"Ok"}
    /\ \A path : \A made \in Creations(path) : made[1] \in Kinds \cup {"Ok"}
<1>1. \A path : InspectResult(path) \in Kinds \cup {"Ok"}
  BY DEF InspectResult, Kinds
<1>2. \A path, model : build(path, model) \in Kinds \cup {"Ok"}
  BY DEF build, Kinds
<1>3. \A path : read_profile_bytes(path) \in Kinds \cup {"Ok"}
  BY DEF read_profile_bytes, Kinds
<1>4. Opens \subseteq Kinds \cup {"Ok"}
  BY DEF Opens, Kinds
<1>5. \A path : Reconnects(path) \subseteq Kinds \cup {"Ok"}
  BY DEF Reconnects, Kinds
<1>6. \A mode, name : Inputs(mode, name) \subseteq Kinds \cup {"Ok"}
  BY DEF Inputs, Kinds
<1>7. \A path : \A made \in Creations(path) : made[1] \in Kinds \cup {"Ok"}
  BY DEF Creations, Kinds
<1> QED
  BY <1>1, <1>2, <1>3, <1>4, <1>5, <1>6, <1>7

\* The steps before the controller is closed.
LEMMA CauseOpens ==
    ASSUME HeldInv, CauseInv, Connects,
           \/ install \/ pair \/ Inspect \/ Build \/ Open \/ reconnect
           \/ apply_button \/ run_periodic_imu \/ wait_for_periodic_report
    PROVE  CauseInv'
<1> USE DEF Connecting
<1>1. tool.calls \in Seq(Kinds) /\ (tool.at \in Underway => Named)
  BY DEF CauseInv
<1> DEFINE Opening == {"create", "inspect", "build", "open", "reconnect", "button", "imu",
                       "imu_wait", "imu_neutral", "imu_last", "close"}
<1>2. Opening \subseteq Underway \ (Compares \cup {"start", "finish"})
  BY DEF Underway, Compares
\* A call, by its result
<1>3. ASSUME Named, NEW outcome \in Kinds \cup {"Ok"}, NEW label \in Opening,
             NEW otherwise \in Opening \cup {"finish"}, On(outcome, label, otherwise)
      PROVE  CauseInv'
  <2>1. /\ tool'.calls \in Seq(Kinds) /\ Named' /\ tool'.job = tool.job
        /\ \/ tool'.at = label
           \/ tool'.at = otherwise /\ tool'.failed # "none"
    BY <1>1, <1>3, OnNamed
  <2>2. \/ tool'.at \in Underway \ (Compares \cup {"start", "finish"})
        \/ tool'.at = "finish" /\ tool'.failed # "none"
    BY <1>2, <1>3, <2>1
  <2> HIDE DEF Opening
  <2> QED
    BY <1>1, <2>1, <2>2, ReachesClose
<1>4. ASSUME Named, NEW label \in Opening, Step(label) PROVE CauseInv'
  BY <1>1, <1>3, <1>4 DEF On
<1>5. CASE install
  <2>1. Named /\ tool.calls = <<>> /\ trace = "closed"
    BY <1>1, <1>5 DEF install, Underway, CauseInv
  <2>2. CASE Step(IF tool.job.name = "pair" THEN "create" ELSE "inspect")
    BY <1>4, <2>1, <2>2
  <2>3. CASE Keeps("Trace", "print") /\ UNCHANGED <<world, trace>>
    <3>1. /\ tool'.calls \in Seq(Kinds) /\ tool'.at = "print" /\ tool'.failed = "Trace"
      <4>1. tool'.calls \in Seq(Kinds) /\ tool'.at = "print"
        BY <1>1, <2>1, <2>3, KeepsNamed DEF Kinds
      <4>2. tool'.failed = "Trace"
        BY <2>1, <2>3 DEF Keeps, Named, HeldInv, Shape
      <4> QED
        BY <4>1, <4>2
    <3> QED
      BY <2>1, <2>3, <3>1 DEF CauseInv, Printed, Underway, Compares
  <2> QED
    BY <1>5, <2>2, <2>3 DEF install
<1>6. CASE pair
  <2>1. PICK outcome \in Kinds \cup {"Ok"} : On(outcome, "button", "finish")
    BY <1>6, KindsOfResults DEF pair
  <2> QED
    BY <1>1, <1>3, <1>6, <2>1 DEF pair, Underway
<1>7. CASE Inspect
  <2>1. Named /\ tool.at = "inspect"
    BY <1>1, <1>7 DEF Inspect, Underway
  <2>2. CASE InspectResult(tool.job.profile) = "Ok"
    <3>1. /\ tool'.at = "build" /\ tool'.calls = tool.calls /\ tool'.failed = tool.failed
      BY <1>7, <2>2 DEF Inspect, HeldInv, Shape
    <3> QED
      BY <1>1, <2>1, <3>1, ReachesClose DEF Named, Underway, Compares
  <2>3. CASE InspectResult(tool.job.profile) # "Ok"
    <3>1. PICK kind \in Kinds : Keeps(kind, "finish")
      BY <1>7, <2>3, KindsOfResults DEF Inspect
    <3>2. /\ tool'.calls \in Seq(Kinds) /\ Named' /\ tool'.at = "finish"
          /\ tool'.failed # "none"
      BY <1>1, <2>1, <3>1, KeepsNamed
    <3> QED
      BY <1>1, <3>2, ReachesClose
  <2> QED
    BY <2>2, <2>3
<1>8. CASE Build
  <2>1. PICK outcome \in Kinds \cup {"Ok"} : On(outcome, "open", "finish")
    BY <1>8, KindsOfResults DEF Build
  <2> QED
    BY <1>1, <1>3, <1>8, <2>1 DEF Build, Underway
<1>9. CASE Open
  <2>1. PICK outcome \in Kinds \cup {"Ok"} : On(outcome, "reconnect", "finish")
    BY <1>9, KindsOfResults DEF Open
  <2> QED
    BY <1>1, <1>3, <1>9, <2>1 DEF Open, Underway
<1>10. CASE reconnect
  <2>1. PICK outcome \in Kinds \cup {"Ok"} : On(outcome, "button", "close")
    BY <1>10, KindsOfResults DEF reconnect
  <2> QED
    BY <1>1, <1>3, <1>10, <2>1 DEF reconnect, Underway
<1>11. CASE apply_button
  <2> DEFINE next == IF tool.job.imu THEN "imu" ELSE "close"
  <2>1. Named /\ next \in Opening
    BY <1>1, <1>11 DEF apply_button, Underway
  <2>2. CASE tool.job.button = "none"
    BY <1>4, <1>11, <2>1, <2>2 DEF apply_button
  <2>3. CASE tool.job.button # "none"
    <3>1. PICK outcome \in Kinds \cup {"Ok"} : On(outcome, next, "close")
      <4>1. CASE Keeps("UnsupportedInput", "close")
        BY <4>1 DEF On, Kinds
      <4>2. CASE \E outcome \in Inputs(tool.job.mode, "tap") : On(outcome, next, "close")
        BY <4>2, KindsOfResults
      <4> QED
        BY <1>11, <2>3, <4>1, <4>2 DEF apply_button
    <3> QED
      BY <1>3, <2>1, <3>1
  <2> QED
    BY <2>2, <2>3
<1>12. CASE run_periodic_imu \/ wait_for_periodic_report
  <2>1. PICK stage \in {<<"imu", "imu_wait">>, <<"imu_neutral", "imu_last">>,
                        <<"imu_wait", "imu_neutral">>, <<"imu_last", "close">>},
             outcome \in Kinds \cup {"Ok"} :
                tool.at = stage[1] /\ On(outcome, stage[2], "close")
    <3>1. {"Ok", "WorkerFailed"} \subseteq Kinds \cup {"Ok"}
      BY DEF Kinds
    <3>2. CASE run_periodic_imu
      BY <3>2, KindsOfResults DEF run_periodic_imu
    <3>3. CASE wait_for_periodic_report
      BY <3>1, <3>3 DEF wait_for_periodic_report
    <3> QED
      BY <1>12, <3>2, <3>3
  <2>2. /\ stage[1] \in {"imu", "imu_neutral", "imu_wait", "imu_last"}
        /\ stage[2] \in Opening
    OBVIOUS
  <2>3. Named
    BY <1>1, <2>1, <2>2 DEF Underway
  <2> QED
    BY <1>3, <2>1, <2>2, <2>3
<1> QED
  BY <1>5, <1>6, <1>7, <1>8, <1>9, <1>10, <1>11, <1>12

\* The close, and what comes after it.
LEMMA CauseCloses ==
    ASSUME HeldInv, CauseInv, Connects,
           finish_connection \/ Compare \/ reopen_after_connection
    PROVE  CauseInv'
<1> USE DEF Connecting
<1>1. /\ tool.calls \in Seq(Kinds) /\ (tool.at \in Underway => Named)
      /\ tool.at \in Compares => tool.failed = "none" /\ "close" \in tool.passed
      /\ tool.at = "recompare" => "reopen" \in tool.passed
  BY DEF CauseInv
\* What keeps an error ends.
<1>2. ASSUME Named, NEW kind \in Kinds, Keeps(kind, "finish") PROVE CauseInv'
  <2>1. /\ tool'.calls \in Seq(Kinds) /\ Named' /\ tool'.at = "finish"
        /\ tool'.failed # "none"
    BY <1>1, <1>2, KeepsNamed
  <2> QED
    BY <1>1, <2>1, ReachesClose
\* What compares goes on with the close behind it.
<1>3. ASSUME tool.at \in Compares, tool'.at \in {"reopen", "reopen_open", "reopen_close"},
             tool'.calls = tool.calls, tool'.failed = tool.failed, tool'.passed = tool.passed
      PROVE  CauseInv'
  BY <1>1, <1>3 DEF CauseInv, Named, Underway, Compares
<1>4. CASE finish_connection
  <2>1. Named
    BY <1>1, <1>4 DEF finish_connection, Underway
  <2>2. CASE \E kind \in CallErrors : Keeps(kind, "finish")
    BY <1>2, <2>1, <2>2 DEF Kinds
  <2>3. CASE tool' = [tool EXCEPT !.at = IF tool.failed = "none" /\ tool.job.imu
                                         THEN "compare" ELSE "finish",
                                  !.passed = @ \cup {"close"}]
    <3>1. /\ tool'.job = tool.job /\ tool'.calls = tool.calls /\ tool'.failed = tool.failed
          /\ "close" \in tool'.passed
          /\ tool'.at = IF tool.failed = "none" /\ tool.job.imu THEN "compare" ELSE "finish"
      BY <2>3 DEF HeldInv, Shape
    <3>2. CASE tool.failed = "none" /\ tool.job.imu
      <4>1. tool'.at = "compare"
        BY <3>1, <3>2
      <4> QED
        BY <1>1, <2>1, <3>1, <3>2, <4>1 DEF CauseInv, Named, Underway, Compares
    <3>3. CASE ~(tool.failed = "none" /\ tool.job.imu)
      <4>1. tool'.at = "finish"
        BY <3>1, <3>3
      <4>2. tool'.failed = "none" => Sound'
        BY <3>1, <3>3 DEF Sound
      <4> QED
        BY <1>1, <2>1, <3>1, <4>1, <4>2 DEF CauseInv, Named, Underway, Compares
    <3> QED
      BY <3>2, <3>3
  <2> QED
    BY <1>4, <2>2, <2>3 DEF finish_connection
<1>5. CASE Compare
  <2> DEFINE result == read_profile_bytes(tool.job.profile)
  <2>1. PICK label \in {"reopen", "finish"} :
            /\ On(result, label, "finish") /\ UNCHANGED world
            /\ tool.at = IF label = "reopen" THEN "compare" ELSE "recompare"
    BY <1>5 DEF Compare
  <2>2. Named /\ tool.at \in Compares
    BY <1>1, <2>1 DEF Underway, Compares
  <2>3. CASE result # "Ok"
    <3>1. result \in Kinds
      BY <2>3, KindsOfResults
    <3> QED
      BY <1>2, <2>1, <2>2, <2>3, <3>1 DEF On
  <2>4. CASE result = "Ok"
    <3>1. /\ tool'.at = label /\ tool'.calls = tool.calls /\ tool'.failed = tool.failed
          /\ tool'.passed = tool.passed /\ tool'.before = tool.before /\ tool'.job = tool.job
      BY <2>1, <2>4 DEF On, Step, HeldInv, Shape
    <3>2. CASE label = "reopen"
      BY <1>3, <2>2, <3>1, <3>2
    <3>3. CASE label = "finish"
      <4>1. /\ world.disk[tool.job.profile] = tool.before[1]
            /\ world.disk[tool.job.profile] # Absent
        BY <2>4 DEF read_profile_bytes
      <4>2. Sound'
        BY <1>1, <2>1, <2>2, <3>1, <3>3, <4>1 DEF Sound
      <4> QED
        BY <1>1, <2>2, <3>1, <3>3, <4>2 DEF CauseInv, Named, Underway, Compares
    <3> QED
      BY <3>2, <3>3
  <2> QED
    BY <2>3, <2>4
<1>6. CASE reopen_after_connection
  <2>1. Named /\ tool.at \in Compares
    BY <1>1, <1>6 DEF reopen_after_connection, Underway, Compares
  <2>2. CASE \E outcome \in Kinds \cup {"Ok"}, label \in {"reopen_open", "reopen_close"} :
                On(outcome, label, "finish")
    <3> PICK outcome \in Kinds \cup {"Ok"}, label \in {"reopen_open", "reopen_close"} :
                On(outcome, label, "finish")
      BY <2>2
    <3>1. CASE outcome # "Ok"
      BY <1>2, <2>1, <3>1 DEF On
    <3>2. CASE outcome = "Ok"
      <4>1. /\ tool'.at = label /\ tool'.calls = tool.calls /\ tool'.failed = tool.failed
            /\ tool'.passed = tool.passed
        BY <3>2 DEF On, Step, HeldInv, Shape
      <4> QED
        BY <1>3, <2>1, <4>1
    <3> QED
      BY <3>1, <3>2
  <2>3. CASE tool' = [tool EXCEPT !.at = "recompare", !.passed = @ \cup {"reopen"}]
    <3>1. /\ tool'.at = "recompare" /\ tool'.calls = tool.calls
          /\ tool'.failed = tool.failed /\ tool'.passed = tool.passed \cup {"reopen"}
      BY <2>3 DEF HeldInv, Shape
    <3> QED
      BY <1>1, <2>1, <3>1 DEF CauseInv, Named, Underway, Compares
  <2>4. CASE \E kind \in CallErrors : Keeps(kind, "finish")
    BY <1>2, <2>1, <2>4 DEF Kinds
  <2> QED
    BY <1>6, <2>2, <2>3, <2>4, KindsOfResults DEF reopen_after_connection
<1> QED
  BY <1>4, <1>5, <1>6

\* The trace is finished, and the record written.
LEMMA CauseEnds ==
    ASSUME HeldInv, CauseInv, Connects, finish_trace \/ main
    PROVE  CauseInv'
<1> USE DEF Connecting
<1>1. CASE finish_trace
  <2>1. PICK flushed \in BOOLEAN :
        /\ trace' = IF trace = "clean" /\ ~flushed THEN "broken" ELSE trace
        /\ tool' = [tool EXCEPT !.at = "print",
                                !.failed = IF trace = "clean" /\ flushed THEN @ ELSE "Trace"]
    BY <1>1 DEF finish_trace
  <2>2. /\ tool.at = "finish" /\ Named /\ tool.calls \in Seq(Kinds)
        /\ tool.failed = "none" => Sound
    BY <1>1 DEF finish_trace, CauseInv, Underway
  <2>3. /\ tool'.at = "print" /\ tool'.calls = tool.calls /\ tool'.job = tool.job
        /\ tool'.passed = tool.passed /\ tool'.before = tool.before
        /\ world'.disk = world.disk
        /\ tool'.failed = IF trace = "clean" /\ flushed THEN tool.failed ELSE "Trace"
    BY <1>1, <2>1 DEF HeldInv, Shape, finish_trace, dropped
  <2>4. Printed'
    <3>1. CASE trace = "clean" /\ flushed
      <4>1. trace' = "clean" /\ tool'.failed = tool.failed /\ (Sound => Sound')
        BY <2>1, <2>3, <3>1 DEF Sound
      <4> QED
        BY <2>2, <2>3, <4>1 DEF Printed, Named
    <3>2. CASE ~(trace = "clean" /\ flushed)
      <4>1. trace' # "clean" /\ tool'.failed = "Trace"
        BY <2>1, <2>3, <3>2
      <4> QED
        BY <4>1 DEF Printed
    <3> QED
      BY <3>1, <3>2
  <2> QED
    BY <2>2, <2>3, <2>4 DEF CauseInv, Underway, Compares
<1>2. CASE main
  <2>1. /\ Printed /\ tool.calls \in Seq(Kinds) /\ tool.at = "print" /\ trace' = trace
        /\ world'.disk = world.disk
    BY <1>2 DEF main, dropped, CauseInv, HeldInv, Shape
  <2>2. /\ tool'.at = "done" /\ tool'.calls = tool.calls /\ tool'.job = tool.job
        /\ tool'.passed = tool.passed /\ tool'.before = tool.before
    BY <1>2 DEF main, Exit, HeldInv, Shape
  <2>3. \/ tool.failed = "none" /\ tool'.exit = 0
        \/ tool.failed = "none" /\ tool'.exit = 1
           /\ tool'.log = <<error_record("output_write_failed")>>
        \/ tool.failed # "none" /\ tool'.exit = 1
           /\ tool'.log = <<error_record(error_kind_name(tool.failed))>>
    BY <1>2 DEF main, Exit, HeldInv, Shape
  <2>4. \A kind : Head(<<error_record(kind)>>).error_kind = kind
    BY DEF error_record
  <2>5. ProbeTellsTheCause'
    <3>1. CASE tool.failed = "none" /\ tool'.exit = 0
      <4>1. tool.calls = <<>> /\ trace = "clean" /\ Sound
        BY <2>1, <3>1 DEF Printed
      <4> QED
        BY <2>1, <2>2, <3>1, <4>1 DEF ProbeTellsTheCause, Job, Sound
    <3>2. CASE /\ tool.failed = "none" /\ tool'.exit = 1
               /\ tool'.log = <<error_record("output_write_failed")>>
      <4>1. tool.calls = <<>>
        BY <2>1, <3>2 DEF Printed
      <4> QED
        BY <2>2, <2>4, <3>2, <4>1 DEF ProbeTellsTheCause
    <3>3. CASE /\ tool.failed # "none" /\ tool'.exit = 1
               /\ tool'.log = <<error_record(error_kind_name(tool.failed))>>
      <4>1. Head(tool'.log).error_kind = error_kind_name(tool.failed)
        BY <2>4, <3>3
      <4>2. CASE tool.failed = "Trace" /\ trace # "clean"
        BY <2>1, <3>3, <4>1, <4>2 DEF ProbeTellsTheCause, error_kind_name
      <4>3. CASE Named /\ trace = "clean"
        BY <2>1, <2>2, <3>3, <4>1, <4>3 DEF ProbeTellsTheCause, Named
      <4> QED
        BY <2>1, <3>3, <4>2, <4>3 DEF Printed
    <3> QED
      BY <2>3, <3>1, <3>2, <3>3
  <2> QED
    BY <2>1, <2>2, <2>5 DEF CauseInv, Underway, Compares
<1> QED
  BY <1>1, <1>2

LEMMA ProbeKeepsJob ==
    ASSUME HeldInv, ProbeSteps \/ finish_connection
    PROVE  tool'.job = tool.job /\ tool'.at # "shell"
<1> USE DEF On, Step, Keeps, Doing, Connecting, HeldInv, Shape
<1>1. CASE main \/ finish_trace
  BY <1>1 DEF main, finish_trace, Exit
<1>2. CASE list_adapters \/ inspect_profile \/ Inspect \/ Build \/ Compare
  BY <1>2 DEF list_adapters, inspect_profile, Inspect, Build, Compare
<1>3. CASE open_adapter \/ open_and_close \/ install \/ pair \/ Open \/ reconnect
  BY <1>3 DEF open_adapter, open_and_close, install, pair, Open, reconnect
<1>4. CASE apply_button
  <2>1. \E label \in {"imu", "close"} : \E outcome :
            On(outcome, label, "close") \/ Step(label) \/ Keeps(outcome, "close")
    BY <1>4 DEF apply_button
  <2> QED
    BY <2>1
<1>5. CASE run_periodic_imu \/ wait_for_periodic_report
  <2>1. PICK stage \in {<<"imu", "imu_wait">>, <<"imu_neutral", "imu_last">>,
                        <<"imu_wait", "imu_neutral">>, <<"imu_last", "close">>} :
            \E outcome : On(outcome, stage[2], "close")
    BY <1>5 DEF run_periodic_imu, wait_for_periodic_report
  <2>2. stage[2] # "shell"
    OBVIOUS
  <2> QED
    BY <2>1, <2>2
<1>6. CASE finish_connection \/ reopen_after_connection
  BY <1>6 DEF finish_connection, reopen_after_connection
<1> QED
  BY <1>1, <1>2, <1>3, <1>4, <1>5, <1>6 DEF ProbeSteps

LEMMA CauseNext ==
    ASSUME HeldInv, CauseInv, ShellInv, [Next]_vars
    PROVE  CauseInv' /\ ShellInv'
<1>1. CASE Scenario
  <2>1. trace' = trace
    BY <1>1 DEF Scenario
  <2>2. CASE \E arguments \in RunnerArguments : Runner!run(arguments)
    BY <2>1, <2>2, CauseStarts
  <2>3. CASE Runner!run_hardware \/ Runner!write_event
    BY <2>3, ScenarioKeepsJob DEF CauseInv, Connects, ShellInv
  <2> QED
    BY <1>1, <2>2, <2>3 DEF Scenario
<1>2. CASE \E arguments \in ProbeArguments : Start(arguments)
  BY <1>2, CauseStarts DEF Start
<1>3. CASE ProbeSteps \/ finish_connection
  <2>1. tool'.job = tool.job /\ ShellInv'
    BY <1>3, ProbeKeepsJob DEF ShellInv
  <2>2. CASE ~Connects
    BY <2>1, <2>2 DEF CauseInv, Connects
  <2>3. CASE Connects
    <3>1. ~(list_adapters \/ inspect_profile \/ open_adapter \/ open_and_close)
      BY <2>3 DEF Connects, list_adapters, inspect_profile, open_adapter, open_and_close, Doing
    <3> QED
      BY <1>3, <2>1, <2>3, <3>1, CauseOpens, CauseCloses, CauseEnds DEF ProbeSteps
  <2> QED
    BY <2>2, <2>3
<1>4. CASE Outside
  <2>1. /\ tool' = tool /\ trace' = trace /\ tool.at # "done"
        /\ world.disk[tool.job.profile] # Absent
           => world'.disk[tool.job.profile] = world.disk[tool.job.profile]
    <3>1. CASE LinkLost
      BY <1>4, <3>1 DEF Outside, LinkLost, Running, HeldInv, Shape
    <3>2. CASE \E path \in Paths, content \in Written : Stores(path, content)
      <4> PICK path \in Paths, content \in Written : Stores(path, content)
        BY <3>2
      <4>1. /\ world.disk[path] = Absent /\ tool' = tool /\ Running
            /\ world'.disk = [world.disk EXCEPT ![path] = content]
        BY DEF Stores, HeldInv, Shape
      <4> QED
        BY <1>4, <4>1 DEF Outside, Running
    <3> QED
      BY <1>4, <3>1, <3>2 DEF Outside
  <2> QED
    BY <2>1, CauseRests DEF ShellInv
<1>5. CASE WorkerReports \/ Ended \/ UNCHANGED vars
           \/ \E thread \in {"worker", "client"}, writable \in BOOLEAN : Records(thread, writable)
  <2>1. /\ tool' = tool /\ world' = world
        /\ trace' = trace \/ tool.at \in {"button", "close"}
    BY <1>5 DEF WorkerReports, Ended, Records, Connecting, vars
  <2> QED
    BY <2>1, CauseRests DEF ShellInv
<1> QED
  BY <1>1, <1>2, <1>3, <1>4, <1>5 DEF Next, ProbeRuns

\* A connection of the probe that exits with 0 was closed with neutral, its trace
\* is complete and, after motion, the profile is as before; one that fails names
\* its first error, unless the trace is what failed.
THEOREM ProbeNamesItsCause == Spec => []ProbeTellsTheCause
<1>1. Init => CauseInv /\ ShellInv
  BY DEF Init, CauseInv, Connects, ShellInv, Idle, NoJob
<1>2. HeldInv /\ CauseInv /\ ShellInv /\ [Next]_vars => CauseInv' /\ ShellInv'
  BY CauseNext
<1>3. CauseInv => ProbeTellsTheCause
  BY DEF CauseInv, Connects, ProbeTellsTheCause, Job
<1> QED
  BY <1>1, <1>2, <1>3, HeldAlways, PTL DEF Spec
=============================================================================
