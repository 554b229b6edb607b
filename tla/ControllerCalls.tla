--------------------------- MODULE ControllerCalls ---------------------------
(***************************************************************************)
(* What a Controller promises the program that uses it: a call returns     *)
(* with the answer of the worker that serves it, or because no worker      *)
(* serves any more; a worker answers a call once at most; and the          *)
(* controller is closed only when its worker has stopped, unless the       *)
(* program gave it up by dropping it.                                      *)
(***************************************************************************)
VARIABLES handle,   \* "closed", "open" or "gone"
          serving,  \* does a worker execute commands?
          call,     \* "none", "request" or "finish"
          answer    \* the worker's answer to the request, if any

vars == <<handle, serving, call, answer>>

Init == handle = "closed" /\ serving = FALSE /\ call = "none" /\ answer = "none"

\* open, or create, which goes on with a request to pair.
Open ==
    /\ handle = "closed" /\ call = "none" /\ ~serving
    /\ handle' = "open" /\ serving' = TRUE /\ call' \in {"none", "request"}
    /\ UNCHANGED answer

Request ==
    /\ handle = "open" /\ call = "none"
    /\ call' = "request"
    /\ UNCHANGED <<handle, serving, answer>>

\* A worker that fails may answer as the last thing it does.
Answer ==
    /\ call = "request" /\ answer = "none" /\ serving
    /\ answer' \in {"ok", "err"}
    /\ serving' \in BOOLEAN
    /\ UNCHANGED <<handle, call>>

Stop ==
    /\ serving
    /\ serving' = FALSE
    /\ UNCHANGED <<handle, call, answer>>

\* A request that did not succeed may be the end of a create.
Return ==
    /\ call = "request"
    /\ answer # "none" \/ ~serving
    /\ call' \in IF answer = "ok" THEN {"none"} ELSE {"none", "finish"}
    /\ answer' = "none"
    /\ UNCHANGED <<handle, serving>>

Finish ==
    /\ handle = "open" /\ call = "none"
    /\ call' = "finish"
    /\ UNCHANGED <<handle, serving, answer>>

Finished ==
    /\ call = "finish" /\ ~serving
    /\ handle' \in {"closed", "gone"} /\ call' = "none"
    /\ UNCHANGED <<serving, answer>>

\* Dropping a controller does not wait for a worker that takes too long.
GiveUp ==
    /\ handle \in {"open", "closed"} /\ call \in {"none", "finish"}
    /\ handle' = "gone" /\ call' = "none"
    /\ UNCHANGED <<serving, answer>>

Next == Open \/ Request \/ Answer \/ Stop \/ Return \/ Finish \/ Finished \/ GiveUp

Spec == Init /\ [][Next]_vars
=============================================================================
