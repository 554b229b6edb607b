------------------------- MODULE ProfileStoreProofs -------------------------
(***************************************************************************)
(* The properties of ProfileStore, and that it implements AtomicProfile,   *)
(* for every set of threads, namespaces and keys and every number of       *)
(* calls, faults and crashes.                                              *)
(***************************************************************************)
EXTENDS ProfileStore, TLAPS

-----------------------------------------------------------------------------
(* The inductive invariant *)

\* A creation whose file is at the path and whose call has not returned.
Linker(t) == pc[t] = "unlink" \/ (pc[t] = "settle" /\ op[t] = "create")

\* What a thread has at each place: which call it is in, a file that is on
\* the disk before it is published, and a profile at the path afterwards.
StageInv ==
    \A t \in Threads :
        /\ pc[t] \in {"temporary", "fill", "link", "unlink", "discard"} => op[t] = "create"
        /\ pc[t] \in {"load", "stage", "commit"} => op[t] = "upsert"
        /\ pc[t] = "settle" => op[t] # "none"
        /\ pc[t] = "temporary" => tries[t] < Attempts
        /\ pc[t] \in {"temporary", "fill", "link"} => doc[t] = Blank
        /\ pc[t] \in {"link", "commit"} => safe[t]
        /\ pc[t] \in {"stage", "commit", "unlink", "settle"} => target \in Profiles

\* The one upsert there may be carries the profile of the path with its key.
UpsertInv ==
    /\ \A t, u \in Threads : Upserting(t) /\ Upserting(u) => t = u
    /\ \A t \in Threads : Upserting(t) =>
         /\ put[t] \in Namespaces \X Keys
         /\ put[t][2] \in owed[put[t][1]]
         /\ pc[t] \in {"stage", "commit"} =>
              doc[t] = [target EXCEPT ![put[t][1]] = put[t][2]]
         /\ pc[t] = "settle" => target[put[t][1]] = put[t][2]

\* One creation at a time is past its link, and none once one has succeeded.
CreateInv ==
    /\ \A t, u \in Threads : Linker(t) /\ Linker(u) => t = u
    /\ \A t \in Threads : Linker(t) => wins = 0
    /\ wins <= 1
    /\ wins = 1 => acked

\* What the disk may hold includes the path's file.  Until a call succeeds a
\* reader may find a profile without keys; from then on there is a profile.
DiskInv ==
    /\ target \in disk
    /\ acked => disk \subseteq Profiles
    /\ ~acked => \A n \in Namespaces : NoKey \in owed[n]
    /\ \A c \in disk \cap Profiles : \A n \in Namespaces : c[n] \in owed[n]

IInv == TypeOK /\ StageInv /\ UpsertInv /\ CreateInv /\ DiskInv

-----------------------------------------------------------------------------
(* The contents of a profile *)

\* A new profile is a profile, and has no keys.
LEMMA BlankIsProfile ==
    Blank \in Profiles /\ \A n \in Namespaces : Blank[n] = NoKey
BY DEF Blank, Profiles

\* replace_pairing_keys changes one namespace of a profile.
LEMMA PutIsProfile ==
    ASSUME NEW p \in Profiles, NEW n \in Namespaces, NEW k \in Keys
    PROVE  /\ [p EXCEPT ![n] = k] \in Profiles
           /\ [p EXCEPT ![n] = k][n] = k
           /\ \A m \in Namespaces : m # n => [p EXCEPT ![n] = k][m] = p[m]
BY DEF Profiles

\* No profile is taken for a path that is free or another program's.
LEMMA ProfilesAreTold ==
    Absent \notin Profiles /\ Foreign \notin Profiles /\ Absent # Foreign
BY ContentAssumption

-----------------------------------------------------------------------------
(* Bounds, places and results *)

\* Where a thread can be, what a call can return, and what the bounds leave.
PlaceNames == {"idle", "temporary", "fill", "link", "unlink", "discard",
               "load", "stage", "commit", "settle"}
ResultNames == {"none", "ok", "exists", "error"}

Budget == [calls : Nat, faults : Nat, crashes : Nat]

\* Spending takes one from a bound that is left.
LEMMA SpendType ==
    ASSUME left \in Budget, NEW k \in {"calls", "faults", "crashes"}, Spend(k)
    PROVE  left' \in Budget
BY DEF Budget, Spend

-----------------------------------------------------------------------------
(* The first state *)

\* The invariant holds before the first call.
LEMMA InitInv == Init => IInv
<1> SUFFICES ASSUME Init PROVE IInv
  OBVIOUS
<1> USE DEF Init
<1>1. left \in Budget /\ put \in [Threads -> {<< >>} \cup (Namespaces \X Keys)]
  BY NumberAssumption DEF Budget
<1>2. doc \in [Threads -> Profiles] /\ tries \in [Threads -> 0..Attempts]
  BY BlankIsProfile, NumberAssumption
<1>3. TypeOK
  BY <1>1, <1>2 DEF TypeOK, Contents, Budget
<1>4. StageInv /\ UpsertInv /\ CreateInv
  BY DEF StageInv, UpsertInv, Upserting, CreateInv, Linker
<1>5. DiskInv
  BY ProfilesAreTold DEF DiskInv
<1> QED
  BY <1>3, <1>4, <1>5 DEF IInv

-----------------------------------------------------------------------------
(* The steps *)

\* A creation begins with a profile without keys.
LEMMA BeginCreateStep ==
    ASSUME NEW t \in Threads, IInv, BeginCreate(t)
    PROVE  IInv'
<1> USE DEF IInv, BeginCreate, Goto, path, history
<1>0. left' \in Budget
  BY SpendType DEF TypeOK, Budget
<1>1. TypeOK'
  BY <1>0, BlankIsProfile, NumberAssumption DEF TypeOK, Contents, Budget
<1>2. StageInv'
  BY BlankIsProfile, NumberAssumption DEF TypeOK, StageInv
<1>3. UpsertInv'
  BY DEF TypeOK, StageInv, UpsertInv, Upserting
<1>4. CreateInv'
  BY DEF TypeOK, StageInv, CreateInv, Linker
<1>5. DiskInv'
  BY DEF TypeOK, DiskInv
<1> QED
  BY <1>1, <1>2, <1>3, <1>4, <1>5

\* It takes a number of its own for its file.
LEMMA CreateTemporaryStep ==
    ASSUME NEW t \in Threads, IInv, CreateTemporary(t)
    PROVE  IInv'
<1> USE DEF IInv, CreateTemporary, Goto, path, history
<1>1. TypeOK'
  BY DEF TypeOK, Contents, Budget
<1>2. StageInv'
  BY DEF TypeOK, StageInv
<1>3. UpsertInv'
  BY DEF TypeOK, StageInv, UpsertInv, Upserting
<1>4. CreateInv'
  BY DEF TypeOK, StageInv, CreateInv, Linker
<1>5. DiskInv'
  BY DEF TypeOK, DiskInv
<1> QED
  BY <1>1, <1>2, <1>3, <1>4, <1>5

\* A number that is taken is not tried again, and the last one ends the call.
LEMMA NumberTakenStep ==
    ASSUME NEW t \in Threads, IInv, NumberTaken(t)
    PROVE  IInv'
<1> USE DEF IInv, NumberTaken, Return, Goto, path, history
<1>1. tries' = [tries EXCEPT ![t] = tries[t] + 1] /\ tries[t] + 1 \in 1..Attempts
  BY NumberAssumption DEF TypeOK, StageInv
<1>2. \/ pc' = pc /\ result' = result /\ tries[t] + 1 # Attempts
      \/ pc' = [pc EXCEPT ![t] = "idle"] /\ result' = [result EXCEPT ![t] = "exists"]
  BY <1>1 DEF TypeOK
<1> HIDE DEF NumberTaken
<1>3. UNCHANGED <<path, temps, op, put, doc, safe, name, history, left>> /\ next' = next + 1
  BY DEF NumberTaken
<1>4. TypeOK'
  <2>1. pc' \in [Threads -> PlaceNames] /\ result' \in [Threads -> ResultNames]
    BY <1>2 DEF TypeOK, PlaceNames, ResultNames
  <2>2. tries' \in [Threads -> 0..Attempts] /\ next' \in Nat
    BY <1>1, <1>3, NumberAssumption DEF TypeOK
  <2> QED
    BY <1>3, <2>1, <2>2 DEF TypeOK, PlaceNames, ResultNames
<1>5. StageInv'
  BY <1>1, <1>2, <1>3, NumberAssumption DEF TypeOK, StageInv
<1>6. \A u \in Threads : pc'[u] = pc[u] \/ (u = t /\ pc'[u] = "idle" /\ pc[u] = "temporary")
  BY <1>2 DEF TypeOK, NumberTaken
<1>7. UpsertInv'
  BY <1>3, <1>6 DEF UpsertInv, Upserting
<1>8. CreateInv'
  BY <1>3, <1>6 DEF CreateInv, Linker
<1>9. DiskInv'
  BY <1>3 DEF DiskInv
<1> QED
  BY <1>4, <1>5, <1>7, <1>8, <1>9

\* Where the directory cannot be, nothing is created.
LEMMA NoDirectoryStep ==
    ASSUME NEW t \in Threads, IInv, NoDirectory(t)
    PROVE  IInv'
<1> USE DEF IInv, NoDirectory, Return, Goto, path, work, history
<1>0. left' \in Budget
  BY SpendType DEF TypeOK, Budget
<1>1. TypeOK'
  BY <1>0 DEF TypeOK, Contents, Budget
<1>2. StageInv'
  BY DEF TypeOK, StageInv
<1>3. UpsertInv'
  BY DEF TypeOK, StageInv, UpsertInv, Upserting
<1>4. CreateInv'
  BY DEF TypeOK, StageInv, CreateInv, Linker
<1>5. DiskInv'
  BY DEF TypeOK, DiskInv
<1> QED
  BY <1>1, <1>2, <1>3, <1>4, <1>5

\* A temporary file that cannot be created ends the call.
LEMMA NoTemporaryStep ==
    ASSUME NEW t \in Threads, IInv, NoTemporary(t)
    PROVE  IInv'
<1> USE DEF IInv, NoTemporary, Return, Goto, path, work, history
<1>0. left' \in Budget
  BY SpendType DEF TypeOK, Budget
<1>1. TypeOK'
  BY <1>0 DEF TypeOK, Contents, Budget
<1>2. StageInv'
  BY DEF TypeOK, StageInv
<1>3. UpsertInv'
  BY DEF TypeOK, StageInv, UpsertInv, Upserting
<1>4. CreateInv'
  BY DEF TypeOK, StageInv, CreateInv, Linker
<1>5. DiskInv'
  BY DEF TypeOK, DiskInv
<1> QED
  BY <1>1, <1>2, <1>3, <1>4, <1>5

\* Its file is whole on the disk before it is linked.
LEMMA FillStep ==
    ASSUME NEW t \in Threads, IInv, Fill(t)
    PROVE  IInv'
<1> USE DEF IInv, Fill, Goto, path, history
<1>1. TypeOK'
  BY DEF TypeOK, Contents, Budget
<1>2. StageInv'
  BY DEF TypeOK, StageInv
<1>3. UpsertInv'
  BY DEF TypeOK, StageInv, UpsertInv, Upserting
<1>4. CreateInv'
  BY DEF TypeOK, StageInv, CreateInv, Linker
<1>5. DiskInv'
  BY DEF TypeOK, DiskInv
<1> QED
  BY <1>1, <1>2, <1>3, <1>4, <1>5

\* The link finds the path free, so no call has succeeded before.
LEMMA LinkStep ==
    ASSUME NEW t \in Threads, IInv, Link(t)
    PROVE  IInv'
<1> USE DEF IInv, Link, Publish, Goto, path, work, history
<1>1. target' = Blank /\ disk' = disk \cup {Blank}
  BY DEF StageInv
<1>2. ~acked /\ wins = 0
  BY ProfilesAreTold DEF TypeOK, CreateInv, DiskInv
<1>3. \A u \in Threads : pc[u] \notin {"stage", "commit", "unlink", "settle"}
  BY ProfilesAreTold DEF StageInv
<1>4. TypeOK'
  <2>1. target' \in Contents /\ disk' \subseteq Contents
    BY <1>1, BlankIsProfile DEF TypeOK, Contents
  <2> HIDE DEF Publish
  <2> QED
    BY <2>1 DEF TypeOK
<1>5. StageInv'
  <2>1. target' \in Profiles
    BY <1>1, BlankIsProfile
  <2> HIDE DEF Publish
  <2> QED
    BY <2>1 DEF TypeOK, StageInv
<1>6. UpsertInv'
  <2> HIDE DEF Publish
  <2> QED
    BY <1>3 DEF TypeOK, UpsertInv, Upserting
<1>7. CreateInv'
  BY <1>2, <1>3 DEF TypeOK, CreateInv, Linker
<1>8. DiskInv'
  BY <1>1, <1>2, BlankIsProfile DEF DiskInv
<1> QED
  BY <1>4, <1>5, <1>6, <1>7, <1>8

\* A link that is refused leaves the path as it is.
LEMMA LinkRefusedStep ==
    ASSUME NEW t \in Threads, IInv, LinkRefused(t)
    PROVE  IInv'
<1> USE DEF IInv, LinkRefused, Goto, path, work, history
<1>1. TypeOK'
  BY DEF TypeOK, Contents, Budget
<1>2. StageInv'
  BY DEF TypeOK, StageInv
<1>3. UpsertInv'
  BY DEF TypeOK, StageInv, UpsertInv, Upserting
<1>4. CreateInv'
  BY DEF TypeOK, StageInv, CreateInv, Linker
<1>5. DiskInv'
  BY DEF TypeOK, DiskInv
<1> QED
  BY <1>1, <1>2, <1>3, <1>4, <1>5

\* The spare name goes.
LEMMA UnlinkStep ==
    ASSUME NEW t \in Threads, IInv, Unlink(t)
    PROVE  IInv'
<1> USE DEF IInv, Unlink, Goto, path, work, history
<1>1. TypeOK'
  BY DEF TypeOK, Contents, Budget
<1>2. StageInv'
  BY DEF TypeOK, StageInv
<1>3. UpsertInv'
  BY DEF TypeOK, StageInv, UpsertInv, Upserting
<1>4. CreateInv'
  BY DEF TypeOK, StageInv, CreateInv, Linker
<1>5. DiskInv'
  BY DEF TypeOK, DiskInv
<1> QED
  BY <1>1, <1>2, <1>3, <1>4, <1>5

\* So does the file of a creation that failed.
LEMMA DiscardStep ==
    ASSUME NEW t \in Threads, IInv, Discard(t)
    PROVE  IInv'
<1> USE DEF IInv, Discard, Goto, path, work, history
<1>0. left' \in Budget
  BY SpendType DEF TypeOK, Budget
<1>1. TypeOK'
  BY <1>0 DEF TypeOK, Contents, Budget
<1>2. StageInv'
  BY DEF TypeOK, StageInv
<1>3. UpsertInv'
  BY DEF TypeOK, StageInv, UpsertInv, Upserting
<1>4. CreateInv'
  BY DEF TypeOK, StageInv, CreateInv, Linker
<1>5. DiskInv'
  BY DEF TypeOK, DiskInv
<1> QED
  BY <1>1, <1>2, <1>3, <1>4, <1>5

\* A creation that fails has still its file to discard.
LEMMA CreateFailsStep ==
    ASSUME NEW t \in Threads, IInv, CreateFails(t)
    PROVE  IInv'
<1> USE DEF IInv, CreateFails, Goto, path, work, history
<1>0. left' \in Budget
  BY SpendType DEF TypeOK, Budget
<1>1. TypeOK'
  BY <1>0 DEF TypeOK, Contents, Budget
<1>2. StageInv'
  BY DEF TypeOK, StageInv
<1>3. UpsertInv'
  BY DEF TypeOK, StageInv, UpsertInv, Upserting
<1>4. CreateInv'
  BY DEF TypeOK, StageInv, CreateInv, Linker
<1>5. DiskInv'
  BY DEF TypeOK, DiskInv
<1> QED
  BY <1>1, <1>2, <1>3, <1>4, <1>5

\* An upsert begins while no other is under way.
LEMMA BeginUpsertStep ==
    ASSUME NEW t \in Threads, NEW n \in Namespaces, NEW k \in Keys,
           IInv, BeginUpsert(t, n, k)
    PROVE  IInv'
<1> USE DEF IInv, BeginUpsert, Goto, path
<1>0. left' \in Budget
  BY SpendType DEF TypeOK, Budget
<1>1. TypeOK'
  BY <1>0 DEF TypeOK, Contents, Budget
<1>2. StageInv'
  BY DEF TypeOK, StageInv
<1>3. UpsertInv'
  BY DEF TypeOK, StageInv, UpsertInv, Upserting
<1>4. CreateInv'
  BY DEF TypeOK, StageInv, CreateInv, Linker
<1>5. DiskInv'
  BY DEF TypeOK, DiskInv
<1> QED
  BY <1>1, <1>2, <1>3, <1>4, <1>5

\* It adds its key to the profile it reads, or ends if there is none.
LEMMA LoadStep ==
    ASSUME NEW t \in Threads, IInv, Load(t)
    PROVE  IInv'
<1> USE DEF IInv, Load, Return, Goto, path, history
<1>1. CASE target \in Profiles
  <2> DEFINE n == put[t][1]
             k == put[t][2]
  <2>1. n \in Namespaces /\ k \in Keys
    BY DEF UpsertInv, Upserting
  <2> DEFINE new == [target EXCEPT ![n] = k]
  <2>2. new \in Profiles
    BY <1>1, <2>1, PutIsProfile
  <2>3. doc' = [doc EXCEPT ![t] = new] /\ pc' = [pc EXCEPT ![t] = "stage"]
    BY <1>1
  <2>4. UNCHANGED <<path, temps, next, op, put, safe, name, tries, result, history, left>>
    BY <1>1
  <2> HIDE DEF Load
  <2>5. pc[t] = "load"
    BY DEF Load
  <2>6. TypeOK'
    <3> HIDE DEF new
    <3> QED BY <2>2, <2>3, <2>4 DEF TypeOK, Contents
  <2>7. StageInv'
    BY <1>1, <2>3, <2>4, <2>5 DEF TypeOK, StageInv
  <2>8. UpsertInv'
    <3>1. \A u \in Threads : Upserting(u) <=> u = t
      BY <2>5 DEF UpsertInv, Upserting
    <3>2. \A u \in Threads : Upserting(u)' <=> u = t
      BY <2>3, <2>4, <2>5, <3>1 DEF TypeOK, Upserting
    <3>3. doc'[t] = [target' EXCEPT ![put'[t][1]] = put'[t][2]] /\ pc'[t] = "stage"
      BY <2>3, <2>4 DEF TypeOK
    <3> QED
      BY <2>4, <3>1, <3>2, <3>3 DEF UpsertInv
  <2>9. CreateInv'
    BY <2>3, <2>4, <2>5 DEF TypeOK, CreateInv, Linker
  <2>10. DiskInv'
    BY <2>4 DEF DiskInv
  <2> QED
    BY <2>6, <2>7, <2>8, <2>9, <2>10
<1>2. CASE target \notin Profiles
  <2>1. TypeOK'
    BY <1>2 DEF TypeOK, Contents
  <2>2. StageInv' /\ UpsertInv'
    BY <1>2 DEF TypeOK, StageInv, UpsertInv, Upserting
  <2>3. CreateInv'
    <3>1. pc' = [pc EXCEPT ![t] = "idle"] /\ UNCHANGED <<op, wins, acked>>
      BY <1>2
    <3> QED
      BY <3>1 DEF TypeOK, CreateInv, Linker
  <2>4. DiskInv'
    BY <1>2 DEF DiskInv
  <2> QED
    BY <2>1, <2>2, <2>3, <2>4
<1> QED
  BY <1>1, <1>2

\* Its file is whole on the disk before it is renamed.
LEMMA StageStep ==
    ASSUME NEW t \in Threads, IInv, Stage(t)
    PROVE  IInv'
<1> USE DEF IInv, Stage, Goto, path, history
<1>1. TypeOK'
  BY DEF TypeOK, Contents, Budget
<1>2. StageInv'
  BY DEF TypeOK, StageInv
<1>3. UpsertInv'
  BY DEF TypeOK, StageInv, UpsertInv, Upserting
<1>4. CreateInv'
  BY DEF TypeOK, StageInv, CreateInv, Linker
<1>5. DiskInv'
  BY DEF TypeOK, DiskInv
<1> QED
  BY <1>1, <1>2, <1>3, <1>4, <1>5

\* The rename replaces the profile it read, which nobody has changed.
LEMMA CommitStep ==
    ASSUME NEW t \in Threads, IInv, Commit(t)
    PROVE  IInv'
<1> USE DEF IInv, Commit, Goto, path, work, history
<1> DEFINE n == put[t][1]
           k == put[t][2]
<1>1. n \in Namespaces /\ k \in Keys /\ k \in owed[n] /\ target \in Profiles
  BY DEF StageInv, UpsertInv, Upserting
<1>2. doc[t] = [target EXCEPT ![n] = k] /\ safe[t]
  BY DEF StageInv, UpsertInv, Upserting
<1>3. target' = [target EXCEPT ![n] = k] /\ disk' = disk \cup {target'}
  BY <1>2 DEF Publish
<1>4. target' \in Profiles /\ target'[n] = k /\ \A m \in Namespaces : target'[m] \in owed[m]
  <2> DEFINE new == [target EXCEPT ![n] = k]
  <2>1. /\ new \in Profiles /\ new[n] = k
        /\ \A m \in Namespaces : m # n => new[m] = target[m]
    BY <1>1, PutIsProfile
  <2>2. \A m \in Namespaces : target[m] \in owed[m]
    BY <1>1 DEF DiskInv
  <2> HIDE DEF n, k, new, Commit
  <2> QED
    BY <1>1, <1>3, <2>1, <2>2 DEF new
<1>5. TypeOK'
  <2>1. target' \in Contents /\ disk' \subseteq Contents
    BY <1>3, <1>4 DEF TypeOK, Contents
  <2> QED
    BY <2>1 DEF TypeOK
<1>6. StageInv'
  BY <1>4 DEF TypeOK, StageInv
<1>7. UpsertInv'
  <2>1. \A u \in Threads : Upserting(u) <=> u = t
    BY DEF UpsertInv, Upserting
  <2>2. \A u \in Threads : Upserting(u)' <=> u = t
    BY <2>1 DEF TypeOK, StageInv, Upserting
  <2>3. pc'[t] = "settle"
    BY DEF TypeOK
  <2> QED
    BY <1>4, <2>1, <2>2, <2>3 DEF UpsertInv
<1>8. CreateInv'
  BY DEF TypeOK, StageInv, CreateInv, Linker
<1>9. DiskInv'
  BY <1>3, <1>4 DEF DiskInv
<1> QED
  BY <1>5, <1>6, <1>7, <1>8, <1>9

\* An upsert that fails ends.
LEMMA UpsertFailsStep ==
    ASSUME NEW t \in Threads, IInv, UpsertFails(t)
    PROVE  IInv'
<1> USE DEF IInv, UpsertFails, Return, Goto, path, work, history
<1>0. left' \in Budget
  BY SpendType DEF TypeOK, Budget
<1>1. TypeOK'
  BY <1>0 DEF TypeOK, Contents, Budget
<1>2. StageInv'
  BY DEF TypeOK, StageInv
<1>3. UpsertInv'
  BY DEF TypeOK, StageInv, UpsertInv, Upserting
<1>4. CreateInv'
  BY DEF TypeOK, StageInv, CreateInv, Linker
<1>5. DiskInv'
  BY DEF TypeOK, DiskInv
<1> QED
  BY <1>1, <1>2, <1>3, <1>4, <1>5

\* Once the directory is synchronised only the path's profile is left.
LEMMA SettleStep ==
    ASSUME NEW t \in Threads, IInv, Settle(t)
    PROVE  IInv'
<1> USE DEF IInv, path, history
<1>1. target \in Profiles /\ disk' = {target} /\ target' = target
  BY DEF Settle, StageInv
<1>2. op[t] \in {"create", "upsert"} /\ acked'
  BY DEF Settle, Acknowledge, TypeOK, StageInv
<1>3. pc' = [pc EXCEPT ![t] = "idle"] /\ result' = [result EXCEPT ![t] = "ok"]
  BY DEF Settle, Return, Goto
<1>4. pc[t] = "settle" /\ UNCHANGED <<temps, next, op, put, doc, safe, name, tries, left>>
  BY DEF Settle, work
<1>5. StageInv'
  BY <1>1, <1>3, <1>4 DEF TypeOK, StageInv
<1>6. CASE op[t] = "create"
  <2>1. wins' = 1 /\ owed' = owed
    BY <1>6, <1>4 DEF Settle, Acknowledge, CreateInv, Linker
  <2>2. TypeOK'
    BY <1>1, <1>2, <1>3, <1>4, <2>1 DEF TypeOK
  <2>3. UpsertInv'
    BY <1>1, <1>3, <1>4, <1>6, <2>1 DEF TypeOK, UpsertInv, Upserting
  <2>4. CreateInv'
    BY <1>2, <1>3, <1>4, <1>6, <2>1 DEF TypeOK, CreateInv, Linker
  <2>5. DiskInv'
    BY <1>1, <1>2, <2>1 DEF DiskInv
  <2> QED
    BY <1>5, <2>2, <2>3, <2>4, <2>5
<1>7. CASE op[t] = "upsert"
  <2> DEFINE n == put[t][1]
             k == put[t][2]
  <2>1. n \in Namespaces /\ k \in Keys /\ target[n] = k
    BY <1>4, <1>7 DEF UpsertInv, Upserting
  <2>2. owed' = [owed EXCEPT ![n] = {k}] /\ wins' = wins
    BY <1>7 DEF Settle, Acknowledge
  <2> HIDE DEF n, k
  <2>3. TypeOK'
    BY <1>1, <1>2, <1>3, <1>4, <2>1, <2>2 DEF TypeOK
  <2>4. UpsertInv'
    BY <1>3, <1>4, <1>7 DEF TypeOK, UpsertInv, Upserting
  <2>5. CreateInv'
    BY <1>2, <1>3, <1>4, <1>7, <2>2 DEF TypeOK, CreateInv, Linker
  <2>6. \A m \in Namespaces : target[m] \in owed'[m]
    BY <1>1, <2>1, <2>2 DEF TypeOK, DiskInv
  <2>7. DiskInv'
    BY <1>1, <1>2, <2>6 DEF DiskInv
  <2> QED
    BY <1>5, <2>3, <2>4, <2>5, <2>7
<1> QED
  BY <1>2, <1>6, <1>7

\* Another program takes the path only while no call has succeeded.
LEMMA IntrudeStep ==
    ASSUME IInv, Intrude
    PROVE  IInv'
<1> USE DEF IInv, Intrude, work, history
<1>0. left' \in Budget
  BY SpendType DEF TypeOK, Budget
<1>1. TypeOK'
  BY <1>0 DEF TypeOK, Contents, Budget
<1>2. StageInv'
  BY ProfilesAreTold DEF TypeOK, StageInv
<1>3. UpsertInv'
  BY ProfilesAreTold DEF TypeOK, StageInv, UpsertInv, Upserting
<1>4. CreateInv'
  BY DEF TypeOK, StageInv, CreateInv, Linker
<1>5. DiskInv'
  BY ProfilesAreTold DEF TypeOK, DiskInv
<1> QED
  BY <1>1, <1>2, <1>3, <1>4, <1>5

\* A process that is killed leaves the files as they are.
LEMMA KilledStep ==
    ASSUME IInv, Killed
    PROVE  IInv'
<1> USE DEF IInv, Killed, Restart, path, work, history
<1>0. left' \in Budget
  BY SpendType DEF TypeOK, Budget
<1>1. TypeOK'
  BY <1>0 DEF TypeOK, Contents, Budget
<1>2. StageInv'
  BY DEF TypeOK, StageInv
<1>3. UpsertInv'
  BY DEF TypeOK, StageInv, UpsertInv, Upserting
<1>4. CreateInv'
  BY DEF TypeOK, StageInv, CreateInv, Linker
<1>5. DiskInv'
  BY DEF TypeOK, DiskInv
<1> QED
  BY <1>1, <1>2, <1>3, <1>4, <1>5

\* A power failure leaves one of the files the disk may have held.
LEMMA PowerFailsStep ==
    ASSUME IInv, PowerFails
    PROVE  IInv'
<1> USE DEF IInv, PowerFails, Restart, work, history
<1>0. left' \in Budget
  BY SpendType DEF TypeOK, Budget
<1>1. TypeOK'
  BY <1>0 DEF TypeOK, Contents, Budget
<1>2. StageInv'
  BY DEF TypeOK, StageInv
<1>3. UpsertInv'
  BY DEF TypeOK, StageInv, UpsertInv, Upserting
<1>4. CreateInv'
  BY DEF TypeOK, StageInv, CreateInv, Linker
<1>5. DiskInv'
  BY DEF TypeOK, DiskInv
<1> QED
  BY <1>1, <1>2, <1>3, <1>4, <1>5

-----------------------------------------------------------------------------
(* The theorems *)

\* The invariant is inductive: a step of a thread, or of the environment.
LEMMA StepInv == IInv /\ [Next]_vars => IInv'
<1> SUFFICES ASSUME IInv, [Next]_vars PROVE IInv'
  OBVIOUS
<1>1. ASSUME NEW t \in Threads, Create(t) PROVE IInv'
  BY <1>1, BeginCreateStep, CreateTemporaryStep, NumberTakenStep, NoDirectoryStep,
     NoTemporaryStep, FillStep, LinkStep, LinkRefusedStep, UnlinkStep, DiscardStep,
     CreateFailsStep DEF Create
<1>2. ASSUME NEW t \in Threads, Upsert(t) PROVE IInv'
  BY <1>2, BeginUpsertStep, LoadStep, StageStep, CommitStep, UpsertFailsStep DEF Upsert
<1>3. CASE UNCHANGED vars
  BY <1>3 DEF IInv, TypeOK, StageInv, UpsertInv, Upserting, CreateInv, Linker, DiskInv,
     vars, path, work, history
<1> QED
  BY <1>1, <1>2, <1>3, SettleStep, IntrudeStep, KilledStep, PowerFailsStep DEF Next, Ended

\* Every reachable state satisfies the invariant.
LEMMA Invariance == Spec => []IInv
BY InitInv, StepInv, PTL DEF Spec

\* Every variable keeps its type; in particular the path names nothing, another
\* program's file or a whole profile, at any time and after any power failure.
THEOREM TypeIsCorrect == Spec => []TypeOK
BY Invariance, PTL DEF IInv

\* create_new succeeds at most once, in one process or several, and never over
\* what somebody else put at the path.
THEOREM CreationIsUnique == Spec => []CreatedOnce
<1>1. IInv => CreatedOnce
  BY ProfilesAreTold DEF IInv, TypeOK, CreateInv, DiskInv, CreatedOnce
<1> QED
  BY <1>1, Invariance, PTL

\* Once upsert has returned, its key outlives every crash until another upsert
\* for the same namespace has begun.
THEOREM KeysSurvive == Spec => []KeysAreKept
<1>1. IInv => KeysAreKept
  BY ProfilesAreTold DEF IInv, DiskInv, KeysAreKept
<1> QED
  BY <1>1, Invariance, PTL

\* A link creates, a rename puts one key, the directory's synchronisation
\* settles, a power failure crashes; every other step leaves the path alone.
LEMMA StepRefines == IInv /\ [Next]_vars => [Atomic!Next]_Atomic!vars
<1> SUFFICES ASSUME IInv, [Next]_vars PROVE Atomic!Next \/ UNCHANGED path
  BY DEF Atomic!vars, path
<1> USE DEF IInv, Atomic!Next, Atomic!Change
<1>1. ASSUME NEW t \in Threads, Link(t) PROVE Atomic!Create
  BY <1>1 DEF Link, Publish, StageInv, Atomic!Create, Atomic!Change, Blank, Atomic!Blank
<1>2. ASSUME NEW t \in Threads, Commit(t) PROVE Atomic!Put
  <2>1. put[t] \in Namespaces \X Keys /\ target \in Profiles /\ safe[t]
    BY <1>2 DEF Commit, StageInv, UpsertInv, Upserting
  <2>2. doc[t] = [target EXCEPT ![put[t][1]] = put[t][2]]
    BY <1>2 DEF Commit, UpsertInv, Upserting
  <2> QED
    BY <1>2, <2>1, <2>2 DEF Commit, Publish, Atomic!Put, Profiles, Atomic!Profiles
<1>3. ASSUME NEW t \in Threads, Settle(t) PROVE Atomic!Settle
  BY <1>3 DEF Settle, Atomic!Settle
<1>4. Intrude => Atomic!Create
  BY DEF Intrude, Atomic!Create
<1>5. PowerFails => Atomic!Crash
  BY DEF PowerFails, Atomic!Crash
<1>6. ASSUME NEW t \in Threads, Create(t), ~Link(t) PROVE UNCHANGED path
  BY <1>6 DEF Create, BeginCreate, CreateTemporary, NumberTaken, NoDirectory, NoTemporary,
     Fill, LinkRefused, Unlink, Discard, CreateFails
<1>7. ASSUME NEW t \in Threads, Upsert(t), ~Commit(t) PROVE UNCHANGED path
  BY <1>7 DEF Upsert, BeginUpsert, Load, Stage, UpsertFails
<1>8. Killed \/ Ended \/ UNCHANGED vars => UNCHANGED path
  BY DEF Killed, Ended, vars
<1> QED
  BY <1>1, <1>2, <1>3, <1>4, <1>5, <1>6, <1>7, <1>8 DEF Next

\* The store implements AtomicProfile: an update is seen whole or not at all,
\* and a crash takes back only what was not settled.
THEOREM Refinement == Spec => KeepsPromise
<1>1. Init => Atomic!Init
  BY DEF Init, Atomic!Init
<1> QED
  BY <1>1, Invariance, StepRefines, PTL DEF Spec, KeepsPromise, Atomic!Spec

\* What create and upsert said they did stays done: one creation at most, and
\* no key lost to a crash.
THEOREM ReturnsAreHonest == Spec => []ToldIsTrue
  BY CreationIsUnique, KeysSurvive, PTL DEF ToldIsTrue
=============================================================================
