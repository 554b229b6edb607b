--------------------------- MODULE MCWorkerErrors ---------------------------
EXTENDS WorkerErrors

Give(op, buttons) == [op |-> op, buttons |-> buttons]
MCCommands ==
    {Give("pair", {}), Give("reconnect", {}), Give("neutral", {}), Give("press", {}),
     Give("tap", {})}
    \cup {Give(op, {b}) : op \in {"press", "whole", "tap"}, b \in Buttons}
=============================================================================
