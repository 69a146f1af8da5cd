------------------------ MODULE MCResourceScheduler ------------------------
(* Instances of ResourceScheduler for TLC. *)
EXTENDS ResourceScheduler

CONSTANTS big, small, q1, q2, q3, g

MCResources == {big, small}
MCRequests == {q1, q2, q3}
MCGoroutines == {g}
MCTypes == {"tokens", "gpu"}
MCType == [r \in MCResources |-> "gpt"]
MCModelType == [q \in MCRequests |-> "gpt"]
MCCapabilities == (big :> {"image"}) @@ (small :> {})
MCRequired == (q1 :> {}) @@ (q2 :> {"image"}) @@ (q3 :> {})

\* small has no gpu and one token: q2 and q3 fit big alone, each by itself;
\* q1 fits both.
MCCapacity == (big :> [tokens |-> 2, gpu |-> 1]) @@ (small :> [tokens |-> 1])
MCRequirements ==
    (q1 :> [tokens |-> 1]) @@ (q2 :> [tokens |-> 2, gpu |-> 1])
        @@ (q3 :> [tokens |-> 2])
MCPriority == (q1 :> 1) @@ (q2 :> 2) @@ (q3 :> 1)
MCTimed == {q2, q3}
MCStamped == {q2}
MCLoads == {0}
MCReports == {"available"}

\* Reports that leave out whatever is in use.
MCUsages == {[tokens |-> 0, gpu |-> 0]}
=============================================================================
