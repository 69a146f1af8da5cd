--------------------------- MODULE MCDelayedQueue ---------------------------
(* Instances of DelayedQueue for TLC. *)
EXTENDS DelayedQueue

CONSTANTS a, b

MCMsgs == {a, b}
MCTimes == {0, 2, 3}
MCAgain == {a}
=============================================================================
