--------------------------- MODULE MCLoadBalancer ---------------------------
(* Instances of LoadBalancer for TLC. *)
EXTENDS LoadBalancer

CONSTANTS e1, e2, llm, other, c1, c2, s1

MCEndpoints == {e1, e2}
MCOneEndpoint == {e1}
MCTypes == {llm, other}
MCOneType == {llm}
MCClients == {c1, c2}
MCSessions == {s1}
\* One strategy for each way to select.
MCConfigured == {"round_robin", "least_connections", "weighted_random"}
MCPresets == 0..1
LBSymmetry == Permutations(MCEndpoints) \cup Permutations(MCClients)

\* The endpoints the balancer does not know have fields nobody reads: AddEndpoint
\* sets them.
OfKnown(f) == [e \in Known |-> f[e]]
LBView == <<strategy, groups, OfKnown(status), OfKnown(conns), checks, sessions,
            currentIndex, mutex, call, round, OfKnown(brought)>>
=============================================================================
