---------------------------- MODULE ToolLibrary ----------------------------
(* The library, the adapter and the disk as the programs of tools/ meet     *)
(* them: every call returns, and the programs see a result, the profile     *)
(* files and a count of accepted reports. What happens inside a call is     *)
(* the matter of Transport, ControllerRuntime and WorkerCore.               *)
EXTENDS Naturals, Sequences, SequencesExt, FiniteSetsExt, TLC

CONSTANTS Paths, Absent, Unreadable, Empty,   \* the disk
          Written,                            \* profiles another program writes
          ConnectionErrors, CallErrors,       \* what the console and the worker may do
          MaxOutside                          \* acts of others in one run

VARIABLES tool,   \* the running program
          world   \* what it acts upon

NoJob == [name |-> "none"]
Idle == [job |-> NoJob, at |-> "shell", todo |-> <<>>, calls |-> <<>>, log |-> <<>>,
         before |-> <<>>, passed |-> {}, failed |-> "none", exit |-> 0]

IsFile(content) == content \notin {Absent, Unreadable}

\* The content of a profile: the model it is for, the peers of its bonds and
\* the first digit of their link key.
Content(model, namespaces, peers, key) ==
    [model |-> model, namespaces |-> namespaces, peers |-> peers, key |-> key]

\* ControllerBuilder::build of a persistent controller
build(path, model) ==
    LET content == world.disk[path]
    IN  CASE content = Absent -> "ProfileNotFound"
          [] content = Unreadable -> "Internal"
          [] content = Empty -> "InvalidProfile"
          [] OTHER -> IF content.model = "none" THEN "InvalidProfile"
                      ELSE IF content.model # model THEN "ProfileControllerMismatch"
                      ELSE "Ok"

\* An adapter is opened by one session at a time.
Opens == IF world.held = {} THEN {"Ok", "TransportOpen"} ELSE {"TransportOpen"}
opened(who, outcome) ==
    world' = IF outcome = "Ok" THEN [world EXCEPT !.held = @ \cup {who}] ELSE world

\* The profile is made before the adapter is opened and outlives a pairing
\* that fails; the bond is stored when the console pairs.
Creations(path) ==
    IF world.disk[path] # Absent THEN {<<"ProfileAlreadyExists", world.disk[path]>>}
    ELSE LET made(peers) == Content("own", peers, peers, "a")
         IN  {<<"Ok", made(1)>>}
             \cup {<<e, made(0)>> : e \in ConnectionErrors \cup {"TransportOpen"}}
             \cup {<<"InvalidProfile", Absent>>}
created(path, model, outcome, content) ==
    world' = [world EXCEPT
        !.disk[path] = IF outcome = "Ok" \/ (IsFile(content) /\ @ = Absent)
                       THEN [content EXCEPT !.model = model] ELSE @,
        !.held = IF outcome = "Ok" THEN @ \cup {"run"} ELSE @,
        !.linked = outcome = "Ok"]

\* A console that is met again may give a new link key.
Refreshed(content) ==
    IF IsFile(content) /\ content # Empty /\ content.peers > 0
    THEN {content, [content EXCEPT !.key = "f"]} ELSE {content}
Reconnects(path) ==
    IF world.disk[path] \in {Absent, Unreadable, Empty} THEN ConnectionErrors
    ELSE IF world.disk[path].peers = 0 THEN {"NoBond"}
    ELSE ConnectionErrors \cup {"Ok"}
reconnected(path, outcome) ==
    \E content \in Refreshed(world.disk[path]) :
        world' = [world EXCEPT !.disk[path] = content, !.linked = outcome = "Ok"]

\* Periodic takes an input into its state, connected or not; a tap and Direct
\* need the connection.
Inputs(mode, name) ==
    IF name = "sleep" THEN {"Ok"}
    ELSE IF ~world.linked /\ (mode = "Direct" \/ name = "tap") THEN {"TransportClosed"}
    ELSE {"Ok"} \cup CallErrors

\* A close gives the adapter back whatever it returns, and so does a drop.
closed(who) == world' = [world EXCEPT !.held = @ \ {who}, !.linked = FALSE]
dropped == world' = [world EXCEPT !.held = {}, !.linked = FALSE]

\* The reports the transport accepted while a program was looking away.
Deltas == {0, 1}

(***************************************************************************)
(* Others                                                                  *)
(***************************************************************************)

Running == tool.at \notin {"shell", "done"}

LinkLost ==
    /\ Running /\ world.linked /\ world' = [world EXCEPT !.linked = FALSE]
    /\ UNCHANGED tool

\* Another program stores a profile where there is none.
Stores(path, content) ==
    /\ Running /\ world.outside < MaxOutside /\ world.disk[path] = Absent
    /\ world' = [world EXCEPT !.disk[path] = content, !.outside = @ + 1]
    /\ UNCHANGED tool
=============================================================================
