---------------------------- MODULE AtomicProfile ----------------------------
(***************************************************************************)
(* What a profile store promises: whoever reads the profile finds nothing, *)
(* what someone else put there, or a whole profile; a profile is created   *)
(* where nothing was and changed one key at a time; and a crash takes back *)
(* only what was not settled.                                              *)
(***************************************************************************)
CONSTANTS Namespaces, Keys, NoKey, Absent, Foreign

VARIABLES profile,   \* what a reader finds
          survivors  \* what a reader may find after a crash

vars == <<profile, survivors>>

Profiles == [Namespaces -> Keys \cup {NoKey}]
Blank == [n \in Namespaces |-> NoKey]

Init == profile = Absent /\ survivors = {Absent}

Change(p) == profile' = p /\ survivors' = survivors \cup {p}

Create == profile = Absent /\ (Change(Blank) \/ Change(Foreign))

Put ==
    /\ profile \in Profiles
    /\ \E n \in Namespaces, k \in Keys : Change([profile EXCEPT ![n] = k])

Settle == survivors' = {profile} /\ UNCHANGED profile

Crash == profile' \in survivors /\ survivors' = {profile'}

Next == Create \/ Put \/ Settle \/ Crash

Spec == Init /\ [][Next]_vars
=============================================================================
