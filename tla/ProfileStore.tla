---------------------------- MODULE ProfileStore ----------------------------
(***************************************************************************)
(* The profile file of src/profile/store.rs and the key store on top of it *)
(* (src/runtime/transport/profile_key_store.rs): threads of one process    *)
(* create the profile and put pairing keys into it, through a directory    *)
(* that keeps its changes in memory until it is synchronised.  Every       *)
(* operation on the file system may fail, another program may take the     *)
(* path, the process may be killed and the power may fail.                 *)
(***************************************************************************)
EXTENDS Naturals, FiniteSets

CONSTANTS
    Threads,
    Namespaces, Keys, NoKey,   \* a profile has at most one key in a namespace
    Absent, Foreign, Torn,     \* no file; not a profile; a file cut short
    Attempts,                  \* TEMP_CREATE_ATTEMPTS
    MaxCalls, MaxFaults, MaxCrashes   \* bounds on the environment

Profiles == [Namespaces -> Keys \cup {NoKey}]
Blank == [n \in Namespaces |-> NoKey]

ASSUME ContentAssumption ==
    /\ Absent # Foreign /\ Absent # Torn /\ Foreign # Torn
    /\ {Absent, Foreign, Torn} \cap Profiles = {}
    /\ NoKey \notin Keys
ASSUME NumberAssumption ==
    Attempts \in Nat \ {0} /\ {MaxCalls, MaxFaults, MaxCrashes} \subseteq Nat

VARIABLES
    target,  \* what the path names
    disk,    \* what it may name after a power failure
    temps,   \* the numbers of the temporary files there are
    next,    \* NEXT_TEMP_FILE
    pc,      \* where each thread is, "idle" between calls
    op,      \* its latest call: "none", "create" or "upsert"
    put,     \* the namespace and the key an upsert puts there
    doc,     \* the document of its temporary file
    safe,    \* is the temporary file whole on the disk?
    name,    \* the number of its temporary file
    tries,   \* the numbers it found taken
    result,  \* of its latest call
    wins,    \* history: how many creations succeeded
    owed,    \* history: the keys a reader may find in each namespace
    acked,   \* history: has a call succeeded?
    left     \* what the bounds leave

path == <<target, disk>>
work == <<op, put, doc, safe, name, tries>>
history == <<wins, owed, acked>>
vars == <<path, temps, next, pc, work, result, history, left>>

Spend(k) == left[k] > 0 /\ left' = [left EXCEPT ![k] = @ - 1]

Init ==
    /\ target = Absent /\ disk = {Absent} /\ temps = {} /\ next = 0
    /\ pc = [t \in Threads |-> "idle"] /\ op = [t \in Threads |-> "none"]
    /\ put = [t \in Threads |-> << >>]
    /\ doc = [t \in Threads |-> Blank] /\ safe = [t \in Threads |-> FALSE]
    /\ name = [t \in Threads |-> 0] /\ tries = [t \in Threads |-> 0]
    /\ result = [t \in Threads |-> "none"]
    /\ wins = 0 /\ owed = [n \in Namespaces |-> {NoKey}] /\ acked = FALSE
    /\ left = [calls |-> MaxCalls, faults |-> MaxFaults, crashes |-> MaxCrashes]

-----------------------------------------------------------------------------
(* What every operation does *)

\* The path names another file from now on, and after a power failure
\* perhaps; a file that was not synchronised is cut short by it.
Publish(t) ==
    /\ target' = doc[t]
    /\ disk' = disk \cup {IF safe[t] THEN doc[t] ELSE Torn}

Goto(t, place) == pc' = [pc EXCEPT ![t] = place]
Return(t, r) == Goto(t, "idle") /\ result' = [result EXCEPT ![t] = r]

Upserting(t) ==
    pc[t] \in {"load", "stage", "commit"} \/ (pc[t] = "settle" /\ op[t] = "upsert")

\* An operation of the file system fails, and with it an upsert.
UpsertFails(t) ==
    /\ Upserting(t) /\ Spend("faults") /\ Return(t, "error")
    /\ UNCHANGED <<path, temps, next, work, history>>

\* A creation removes its temporary file first.
CreateFails(t) ==
    /\ \/ pc[t] \in {"fill", "unlink"}
       \/ pc[t] = "link" /\ target = Absent
       \/ pc[t] = "settle" /\ op[t] = "create"
    /\ Spend("faults")
    /\ Goto(t, "discard") /\ result' = [result EXCEPT ![t] = "error"]
    /\ UNCHANGED <<path, temps, next, work, history>>

-----------------------------------------------------------------------------
(* FileProfileStore::create_new *)

BeginCreate(t) ==
    /\ pc[t] = "idle" /\ Spend("calls")
    /\ Goto(t, "temporary")
    /\ op' = [op EXCEPT ![t] = "create"] /\ doc' = [doc EXCEPT ![t] = Blank]
    /\ safe' = [safe EXCEPT ![t] = FALSE] /\ tries' = [tries EXCEPT ![t] = 0]
    /\ UNCHANGED <<path, temps, next, put, name, result, history>>

\* create_temporary: the next number, or the one after it.
CreateTemporary(t) ==
    /\ pc[t] = "temporary" /\ next \notin temps
    /\ temps' = temps \cup {next} /\ name' = [name EXCEPT ![t] = next]
    /\ next' = next + 1
    /\ Goto(t, "fill")
    /\ UNCHANGED <<path, op, put, doc, safe, tries, result, history, left>>

\* A number taken by the file of a process with this one's number that was
\* killed; the last attempt's error says that something exists.
NumberTaken(t) ==
    /\ pc[t] = "temporary" /\ next \in temps
    /\ tries' = [tries EXCEPT ![t] = @ + 1] /\ next' = next + 1
    /\ IF tries'[t] = Attempts THEN Return(t, "exists") ELSE UNCHANGED <<pc, result>>
    /\ UNCHANGED <<path, temps, op, put, doc, safe, name, history, left>>

\* A file stands where the directory should be: create_dir_all says that it
\* exists, as it does of any name that is taken.
NoDirectory(t) ==
    /\ pc[t] = "temporary" /\ tries[t] = 0 /\ target = Absent /\ temps = {}
    /\ Spend("faults") /\ Return(t, "exists")
    /\ UNCHANGED <<path, temps, next, work, history>>

NoTemporary(t) ==
    /\ pc[t] = "temporary" /\ Spend("faults")
    /\ next' = next + 1 /\ Return(t, "error")
    /\ UNCHANGED <<path, temps, work, history>>

\* A creation that leaves the synchronisation to the file system.
HastyFill(t) ==
    /\ pc[t] = "fill" /\ Goto(t, "link")
    /\ UNCHANGED <<path, temps, next, work, result, history, left>>

\* write_all, flush, sync_all
Fill(t) ==
    /\ pc[t] = "fill" /\ Goto(t, "link")
    /\ safe' = [safe EXCEPT ![t] = TRUE]
    /\ UNCHANGED <<path, temps, next, op, put, doc, name, tries, result, history, left>>

\* A creation that renames its file to the path.
RenamingLink(t) ==
    /\ pc[t] = "link"
    /\ Publish(t) /\ Goto(t, "unlink")
    /\ UNCHANGED <<temps, next, work, result, history, left>>

\* hard_link never replaces what the path names.
Link(t) ==
    /\ pc[t] = "link" /\ target = Absent
    /\ Publish(t) /\ Goto(t, "unlink")
    /\ UNCHANGED <<temps, next, work, result, history, left>>

LinkRefused(t) ==
    /\ pc[t] = "link" /\ target # Absent
    /\ Goto(t, "discard") /\ result' = [result EXCEPT ![t] = "exists"]
    /\ UNCHANGED <<path, temps, next, work, history, left>>

Unlink(t) ==
    /\ pc[t] = "unlink"
    /\ temps' = temps \ {name[t]} /\ Goto(t, "settle")
    /\ UNCHANGED <<path, next, work, result, history, left>>

\* The temporary file of a creation that failed goes, if it can.
Discard(t) ==
    /\ pc[t] = "discard"
    /\ \/ temps' = temps \ {name[t]} /\ UNCHANGED left
       \/ Spend("faults") /\ UNCHANGED temps
    /\ Goto(t, "idle")
    /\ UNCHANGED <<path, next, work, result, history>>

-----------------------------------------------------------------------------
(* SwbtProfileKeyStore::upsert, and FileProfileStore::update *)

\* The store has a single live writer.
BeginUpsert(t, n, k) ==
    /\ pc[t] = "idle" /\ Spend("calls") /\ \A u \in Threads : ~Upserting(u)
    /\ Goto(t, "load")
    /\ op' = [op EXCEPT ![t] = "upsert"] /\ put' = [put EXCEPT ![t] = <<n, k>>]
    /\ safe' = [safe EXCEPT ![t] = FALSE]
    /\ owed' = [owed EXCEPT ![n] = @ \cup {k}]
    /\ UNCHANGED <<path, temps, next, doc, name, tries, result, wins, acked>>

\* replace_pairing_keys on a profile that starts with no keys.
ForgetfulLoad(t) ==
    /\ pc[t] = "load"
    /\ IF target \in Profiles
       THEN /\ doc' = [doc EXCEPT ![t] = [Blank EXCEPT ![put[t][1]] = put[t][2]]]
            /\ Goto(t, "stage") /\ UNCHANGED result
       ELSE Return(t, "error") /\ UNCHANGED doc
    /\ UNCHANGED <<path, temps, next, op, put, safe, name, tries, history, left>>

\* read_profile and replace_pairing_keys
Load(t) ==
    /\ pc[t] = "load"
    /\ IF target \in Profiles
       THEN /\ doc' = [doc EXCEPT ![t] = [target EXCEPT ![put[t][1]] = put[t][2]]]
            /\ Goto(t, "stage") /\ UNCHANGED result
       ELSE Return(t, "error") /\ UNCHANGED doc
    /\ UNCHANGED <<path, temps, next, op, put, safe, name, tries, history, left>>

\* AtomicWriteFile writes a file of its own, under a name no other uses.
Stage(t) ==
    /\ pc[t] = "stage"
    /\ safe' = [safe EXCEPT ![t] = TRUE] /\ Goto(t, "commit")
    /\ UNCHANGED <<path, temps, next, op, put, doc, name, tries, result, history, left>>

\* AtomicWriteFile::commit renames it to the path.
Commit(t) ==
    /\ pc[t] = "commit"
    /\ Publish(t) /\ Goto(t, "settle")
    /\ UNCHANGED <<temps, next, work, result, history, left>>

-----------------------------------------------------------------------------
(* Both end with the synchronisation of the directory. *)

Acknowledge(t) ==
    /\ acked' = TRUE
    /\ IF op[t] = "create" THEN wins' = wins + 1 /\ UNCHANGED owed
       ELSE owed' = [owed EXCEPT ![put[t][1]] = {put[t][2]}] /\ UNCHANGED wins

\* A call that returns without the synchronisation.
UnsettledReturn(t) ==
    /\ pc[t] = "settle"
    /\ Return(t, "ok") /\ Acknowledge(t)
    /\ UNCHANGED <<path, temps, next, work, left>>

Settle(t) ==
    /\ pc[t] = "settle"
    /\ disk' = {target}
    /\ Return(t, "ok") /\ Acknowledge(t)
    /\ UNCHANGED <<target, temps, next, work, left>>

-----------------------------------------------------------------------------
(* The environment *)

\* Another program takes the path.
Intrude ==
    /\ target = Absent /\ Spend("faults")
    /\ target' = Foreign /\ disk' = disk \cup {Foreign}
    /\ UNCHANGED <<temps, next, pc, work, result, history>>

\* The process ends and starts again, maybe with the same process number.
Restart ==
    /\ Spend("crashes")
    /\ pc' = [t \in Threads |-> "idle"] /\ result' = [t \in Threads |-> "none"]
    /\ next' = 0
    /\ UNCHANGED <<work, history>>

Killed == Restart /\ UNCHANGED <<path, temps>>

PowerFails ==
    /\ Restart
    /\ target' \in disk /\ disk' = {target'}
    /\ temps' \in SUBSET (temps \cup 0 .. next - 1)

Create(t) ==
    \/ BeginCreate(t) \/ CreateTemporary(t) \/ NumberTaken(t) \/ NoDirectory(t) \/ NoTemporary(t)
    \/ Fill(t) \/ Link(t) \/ LinkRefused(t) \/ Unlink(t) \/ Discard(t) \/ CreateFails(t)

Upsert(t) ==
    \/ \E n \in Namespaces, k \in Keys : BeginUpsert(t, n, k)
    \/ Load(t) \/ Stage(t) \/ Commit(t) \/ UpsertFails(t)

Ended == left.calls = 0 /\ (\A t \in Threads : pc[t] = "idle") /\ UNCHANGED vars

Next ==
    \/ \E t \in Threads : Create(t) \/ Upsert(t) \/ Settle(t)
    \/ Intrude \/ Killed \/ PowerFails \/ Ended

Spec == Init /\ [][Next]_vars

-----------------------------------------------------------------------------
(* Properties *)

Contents == Profiles \cup {Absent, Foreign}
TypeOK ==
    /\ target \in Contents /\ disk \subseteq Contents
    /\ temps \subseteq Nat /\ next \in Nat
    /\ pc \in [Threads -> {"idle", "temporary", "fill", "link", "unlink", "discard",
                           "load", "stage", "commit", "settle"}]
    /\ op \in [Threads -> {"none", "create", "upsert"}]
    /\ put \in [Threads -> {<< >>} \cup (Namespaces \X Keys)]
    /\ doc \in [Threads -> Profiles] /\ safe \in [Threads -> BOOLEAN]
    /\ name \in [Threads -> Nat] /\ tries \in [Threads -> 0..Attempts]
    /\ result \in [Threads -> {"none", "ok", "exists", "error"}]
    /\ wins \in Nat /\ acked \in BOOLEAN
    /\ owed \in [Namespaces -> SUBSET (Keys \cup {NoKey})]
    /\ left \in [calls : Nat, faults : Nat, crashes : Nat]

\* Of all the calls that create the profile, in this process and those before
\* it, one at most succeeds, and none where another program was first.
CreatedOnce == wins <= 1 /\ (target = Foreign => ~acked)

\* What a call that succeeded wrote is there for good, whatever crashes: in
\* each namespace a reader finds the key put there last, or one that a call
\* tried to put there since.
KeysAreKept ==
    /\ acked => Absent \notin disk
    /\ \A c \in disk \cap Profiles : \A n \in Namespaces : c[n] \in owed[n]

\* What a caller was told of the file stays true of it.
ToldIsTrue == CreatedOnce /\ KeysAreKept

\* A profile is reported to exist only if something is there.
ExistsIsTrue == \A t \in Threads : result[t] = "exists" => target # Absent

\* The store keeps the promise AtomicProfile makes.
Atomic == INSTANCE AtomicProfile WITH profile <- target, survivors <- disk
KeepsPromise == Atomic!Spec
=============================================================================
