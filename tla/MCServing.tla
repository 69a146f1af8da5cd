----------------------------- MODULE MCServing ------------------------------
(* Instances of Serving for TLC. *)
EXTENDS Serving, TLC

CONSTANTS m1, m3, m4, n4, w1, w2

\* One realtime message, one normal and two low ones, one of them refused
\* while the other waits.
MCMsgs == {m1, m3, m4, n4}
MCLevel == m1 :> 1 @@ m3 :> 3 @@ m4 :> 4 @@ n4 :> 4
MCLevels == {1, 3, 4}
MCInConversation == {m3}
MCWorkers == {w1, w2}
=============================================================================
