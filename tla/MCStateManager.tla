--------------------------- MODULE MCStateManager ---------------------------
(* Instance of StateManager for TLC. *)
EXTENDS StateManager, TLC

CONSTANTS x, y, a, b, p, q, k1, k2, k3

MCConvs == {x, y}
MCMsgs == {a, b}
MCProcesses == {p, q}
MCClients == {k1, k2, k3}
\* Two requests in one process, one in another.
MCProcessOf == k1 :> p @@ k2 :> p @@ k3 :> q
MCSymmetry ==
    Permutations(MCConvs) \cup Permutations(MCMsgs) \cup Permutations({k1, k2})
=============================================================================
