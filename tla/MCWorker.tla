------------------------------ MODULE MCWorker ------------------------------
(* Instances of Worker for TLC. *)
EXTENDS Worker, TLC

CONSTANTS a, c, w1, w2

\* c overtakes a.
MCMsgs == {a, c}
MCPriority == a :> 3 @@ c :> 1
MCWorkers == {w1, w2}
=============================================================================
