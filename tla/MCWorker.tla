------------------------------ MODULE MCWorker ------------------------------
(***************************************************************************)
(* WorkerCore for TLC: one button, a connection command and the input      *)
(* commands, and a clock long enough for a connection to time out and for  *)
(* a tap to be released.                                                   *)
(***************************************************************************)
EXTENDS WorkerCore

CONSTANTS PairTimeout, TapTime, MCButtons, MCOps

MCCommands ==
    { c \in [op : MCOps, buttons : SUBSET MCButtons, time : {0, PairTimeout, TapTime}] :
        /\ c.op \in {"pair", "reconnect"} => c.buttons = {} /\ c.time = PairTimeout
        /\ c.op \in {"press", "release", "apply"} => c.buttons # {} /\ c.time = 0
        /\ c.op = "neutral" => c.buttons = {} /\ c.time = 0
        /\ c.op = "tap" => c.buttons # {} /\ c.time = TapTime }
=============================================================================
