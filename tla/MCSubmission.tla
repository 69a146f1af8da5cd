---------------------------- MODULE MCSubmission ----------------------------
(* The instance of Submission for TLC. *)
EXTENDS Submission

CONSTANTS x, y, u, nobody, a, b, k1, k2

MCConvs == {x, y}
MCUsers == {u, nobody}
MCMsgs == {a, b}
MCClients == {k1, k2}
Symmetry == Permutations(MCClients)
\* a has as many realtime as high keywords; b has no content and a hint that
\* no rule knows.  Both belong to x.
NoKeywords == [p \in Priorities |-> 0]
MCRequestOf == (a :> [prio |-> 3, override |-> Unset, hint |-> Unset, empty |-> FALSE,
                      score |-> [NoKeywords EXCEPT ![1] = 1, ![2] = 1]]) @@
               (b :> [prio |-> 0, override |-> Unset, hint |-> "other", empty |-> TRUE,
                      score |-> NoKeywords])
MCUserOf == (a :> u) @@ (b :> u)
MCConvOf == (a :> x) @@ (b :> x)
\* Realtime messages have no queue.
MCQueueNames == {2, 3}
=============================================================================
