---------------------------- MODULE LoadBalancer ----------------------------
(***************************************************************************)
(* LoadBalancer (internal/loadbalancer/load_balancer.go): endpoints in     *)
(* groups by type, handed out to clients by session or by strategy and     *)
(* given back by identifier, while endpoints come, go and change status.   *)
(* A critical section of lb.mutex is one step.  GetEndpoint is three of    *)
(* them: the session look-up, the selection, and saving the session.       *)
(*                                                                         *)
(* Weights, response times and error rates are left out: every endpoint    *)
(* has a weight of at least one, and any of them can have the best score,  *)
(* so the random and the adaptive strategy may pick any healthy endpoint.  *)
(* NewLoadBalancer fixes SessionTimeout at 0: sessions do not expire.      *)
(* The names of the specification begin with LB.                           *)
(***************************************************************************)
EXTENDS Integers, Sequences, FiniteSets, SequencesExt

CONSTANTS
    Endpoints,     \* endpoint identifiers
    Types,         \* model types
    Clients,       \* goroutines using the balancer
    SessionIDs,    \* session identifiers; a client may also give none
    Configured,    \* strategies the balancer may be configured with
    Presets        \* Connections an endpoint may bring when it is added; the
                   \* bound on what adding one object again and again brings

ASSUME ClientsFinite == IsFiniteSet(Clients)
ASSUME PresetsAreCounts == Presets \subseteq Nat

VARIABLES
    strategy,       \* the configured strategy
    groups,         \* lb.endpointGroups: type -> identifiers in order
    status,         \* Endpoint.Status
    conns,          \* Endpoint.Connections
    sessions,       \* lb.sessions: session -> a set of at most one endpoint
    currentIndex,   \* lb.currentIndex
    mutex,          \* "free", or "leaked" by a GetEndpoint that returned
    checks,         \* endpoints with a health-check goroutine under way
    call,           \* what each client is doing
    round,          \* history: endpoints picked in the current round, per type
    brought         \* history: the Connections an endpoint was last added with

endpointVars == <<groups, status, conns, checks>>
LBvars == <<strategy, endpointVars, sessions, currentIndex, mutex, call, round,
            brought>>

-----------------------------------------------------------------------------
\* "ip_hash" stands for a value that is documented and not implemented.
Strategies == {"round_robin", "least_connections", "weighted_random",
               "adaptive_load", "ip_hash"}

ASSUME ConfiguredStrategies == Configured \subseteq Strategies

Statuses == {"healthy", "degraded", "unhealthy"}

\* The endpoints the balancer knows.
Known == UNION {Range(groups[t]) : t \in Types}

Idle == [pc |-> "idle", s |-> {}, t |-> {}, ep |-> {}, counted |-> FALSE]

LBInit ==
    /\ strategy \in Configured
    /\ groups = [t \in Types |-> <<>>]
    /\ status = [e \in Endpoints |-> "healthy"]
    /\ conns = [e \in Endpoints |-> 0]
    /\ sessions = [s \in SessionIDs |-> {}]
    /\ currentIndex = [t \in Types |-> 0]
    /\ mutex = "free"
    /\ checks = {}
    /\ call = [c \in Clients |-> Idle]
    /\ round = [t \in Types |-> {}]
    /\ brought = [e \in Endpoints |-> 0]

NewRound == round' = [t \in Types |-> {}]

-----------------------------------------------------------------------------
(* Endpoints come, go and change. *)

\* An endpoint with the status and the Connections it comes with: those a
\* caller has set, or, when an object that was removed is added again, those it
\* had.  A health check that runs since before its removal is of this object,
\* or of another one nobody can reach.  An identifier that is known already is
\* an error.  From here on n stands for whoever held the endpoint before, and
\* Connections counts those who are given it now.
AddEndpoint(e, t, st, n) ==
    /\ mutex = "free"
    /\ e \notin Known
    /\ groups' = [groups EXCEPT ![t] = Append(@, e)]
    /\ status' = [status EXCEPT ![e] = st]
    /\ conns' = [conns EXCEPT ![e] = n]
    /\ checks' \in {checks, checks \ {e}}
    /\ brought' = [brought EXCEPT ![e] = n]
    /\ call' = [c \in Clients |->
                   [call[c] EXCEPT !.counted = @ /\ e \notin call[c].ep]]
    /\ NewRound
    /\ UNCHANGED <<strategy, sessions, currentIndex, mutex>>

\* The endpoint, and the sessions that point to it.
RemoveEndpoint(e) ==
    /\ mutex = "free"
    /\ \E t \in Types : \E i \in DOMAIN groups[t] :
          /\ groups[t][i] = e
          /\ groups' = [groups EXCEPT ![t] = RemoveAt(@, i)]
    /\ sessions' = [s \in SessionIDs |-> sessions[s] \ {e}]
    /\ NewRound
    /\ UNCHANGED <<strategy, status, conns, checks, currentIndex, mutex, call,
                   brought>>

UpdateEndpointStatus(e, st) ==
    /\ mutex = "free"
    /\ e \in Known
    /\ status' = [status EXCEPT ![e] = st]
    /\ NewRound
    /\ UNCHANGED <<strategy, groups, conns, checks, sessions, currentIndex,
                   mutex, call, brought>>

\* One goroutine per endpoint ...
performHealthChecks ==
    /\ mutex = "free"
    /\ checks' = checks \cup Known
    /\ UNCHANGED <<strategy, groups, status, conns, sessions, currentIndex,
                   mutex, call, round, brought>>

\* ... each of which finds its endpoint healthy: the check is not written yet.
\* One that was removed in the meantime takes its status out of sight.
checkEndpointHealth(e) ==
    /\ mutex = "free"
    /\ e \in checks
    /\ checks' = checks \ {e}
    /\ IF e \in Known /\ status[e] = "unhealthy"
       THEN status' = [status EXCEPT ![e] = "degraded"] /\ NewRound
       ELSE UNCHANGED <<status, round>>
    /\ UNCHANGED <<strategy, groups, conns, sessions, currentIndex, mutex, call,
                   brought>>

ClearSessions ==
    /\ mutex = "free"
    /\ sessions' = [s \in SessionIDs |-> {}]
    /\ UNCHANGED <<strategy, endpointVars, currentIndex, mutex, call, round, brought>>

-----------------------------------------------------------------------------
(* The strategies.  An endpoint stands at its place in its group.          *)

Healthy(e) == status[e] \in {"healthy", "degraded"}

\* The places of the healthy endpoints: the slice that is returned has them in
\* this order.
getHealthyEndpoints(t) == {i \in DOMAIN groups[t] : Healthy(groups[t][i])}

\* The index of place i in that slice.
Index(t, i) == Cardinality({j \in getHealthyEndpoints(t) : j < i})

roundRobinSelect(t) ==
    {i \in getHealthyEndpoints(t) :
        Index(t, i) = currentIndex[t] % Cardinality(getHealthyEndpoints(t))}

\* Variant of roundRobinNext for mutation: the index stays when it wraps.
roundRobinStuck(t) ==
    [currentIndex EXCEPT ![t] =
        IF @ + 1 < Cardinality(getHealthyEndpoints(t)) THEN @ + 1 ELSE @]

roundRobinNext(t) ==
    [currentIndex EXCEPT ![t] = (@ + 1) % Cardinality(getHealthyEndpoints(t))]

\* The first endpoint with the fewest connections.
leastConnectionsSelect(t) ==
    LET load(i) == conns[groups[t][i]]
    IN  {i \in getHealthyEndpoints(t) : \A j \in getHealthyEndpoints(t) :
            load(i) < load(j) \/ (load(i) = load(j) /\ i <= j)}

\* What the configured strategy may return; an unknown one is round-robin.
InTurn == strategy \in {"round_robin", "ip_hash"}
Selected(t) ==
    CASE InTurn -> roundRobinSelect(t)
      [] strategy = "least_connections" -> leastConnectionsSelect(t)
      [] strategy \in {"weighted_random", "adaptive_load"} -> getHealthyEndpoints(t)

-----------------------------------------------------------------------------
(* GetEndpoint. *)

\* A client calls with a session or without one, for some type.
GetEndpoint(c, s, t) ==
    /\ call[c].pc = "idle"
    /\ call' = [call EXCEPT ![c] =
          [Idle EXCEPT !.pc = IF s = {} THEN "select" ELSE "lookup",
                       !.s = s, !.t = {t}]]
    /\ UNCHANGED <<strategy, endpointVars, sessions, currentIndex, mutex, round,
                   brought>>

Holding(c, e, counted) ==
    [call EXCEPT ![c] = [Idle EXCEPT !.pc = "holding", !.ep = {e},
                                     !.counted = counted]]

\* Variant of getSessionEndpoint for mutation: the status is not looked at.
getSessionEndpointUnchecked(c) ==
    /\ mutex = "free" /\ call[c].pc = "lookup"
    /\ \E s \in call[c].s :
          \/ \E e \in sessions[s] \cap Known :
                /\ call' = Holding(c, e, FALSE)
                /\ UNCHANGED sessions
          \/ /\ sessions[s] \cap Known = {}
             /\ sessions' = [sessions EXCEPT ![s] = {}]
             /\ call' = [call EXCEPT ![c].pc = "select"]
    /\ UNCHANGED <<strategy, endpointVars, currentIndex, mutex, round, brought>>

\* The session's endpoint, if it is known and healthy: GetEndpoint returns it
\* without counting a connection.  Else the session is dropped.
getSessionEndpoint(c) ==
    /\ mutex = "free" /\ call[c].pc = "lookup"
    /\ \E s \in call[c].s :
          \/ \E e \in sessions[s] \cap Known :
                /\ Healthy(e)
                /\ call' = Holding(c, e, FALSE)
                /\ UNCHANGED sessions
          \/ /\ \A e \in sessions[s] \cap Known : ~ Healthy(e)
             /\ sessions' = [sessions EXCEPT ![s] = {}]
             /\ call' = [call EXCEPT ![c].pc = "select"]
    /\ UNCHANGED <<strategy, endpointVars, currentIndex, mutex, round, brought>>

\* A round is over when it has served every healthy endpoint.
Serve(t, e) ==
    [round EXCEPT ![t] =
        IF \A i \in getHealthyEndpoints(t) : groups[t][i] \in @ \cup {e}
        THEN {} ELSE @ \cup {e}]

\* The selection: count a connection and release the lock.
Select(c) ==
    /\ mutex = "free" /\ call[c].pc = "select"
    /\ \E t \in call[c].t : \E i \in Selected(t) :
          LET e == groups[t][i]
          IN  /\ conns' = [conns EXCEPT ![e] = @ + 1]
              /\ call' = IF call[c].s = {} THEN Holding(c, e, TRUE)
                         ELSE [call EXCEPT ![c].pc = "save", ![c].ep = {e},
                                           ![c].counted = TRUE]
              /\ round' = Serve(t, e)
              /\ currentIndex' = IF InTurn THEN roundRobinNext(t) ELSE currentIndex
    /\ UNCHANGED <<strategy, groups, status, checks, sessions, mutex, brought>>

\* No group, or no healthy endpoint in it: the error is returned, and the lock
\* is never released.
SelectFails(c) ==
    /\ mutex = "free" /\ call[c].pc = "select"
    /\ \A t \in call[c].t : getHealthyEndpoints(t) = {}
    /\ mutex' = "leaked"
    /\ call' = [call EXCEPT ![c] = Idle]
    /\ UNCHANGED <<strategy, endpointVars, sessions, currentIndex, round, brought>>

\* Under the lock again: the endpoint may be gone by now.
saveSession(c) ==
    /\ mutex = "free" /\ call[c].pc = "save"
    /\ sessions' = [s \in SessionIDs |->
                       IF s \in call[c].s THEN call[c].ep ELSE sessions[s]]
    /\ call' = [call EXCEPT ![c].pc = "holding", ![c].s = {}, ![c].t = {}]
    /\ UNCHANGED <<strategy, endpointVars, currentIndex, mutex, round, brought>>

\* Variant of ReleaseEndpoint for mutation: a failed request is not counted
\* off.
ReleaseEndpointOnSuccess(c) ==
    /\ mutex = "free" /\ call[c].pc = "holding"
    /\ \E ok \in BOOLEAN :
          conns' = [e \in Endpoints |->
                       IF ok /\ e \in call[c].ep \cap Known /\ conns[e] > 0
                       THEN conns[e] - 1 ELSE conns[e]]
    /\ call' = [call EXCEPT ![c] = Idle]
    /\ UNCHANGED <<strategy, groups, status, checks, sessions, currentIndex,
                   mutex, round, brought>>

\* ReleaseEndpoint, by identifier; an unknown one is ignored.
ReleaseEndpoint(c) ==
    /\ mutex = "free" /\ call[c].pc = "holding"
    /\ conns' = [e \in Endpoints |->
                    IF e \in call[c].ep \cap Known /\ conns[e] > 0
                    THEN conns[e] - 1 ELSE conns[e]]
    /\ call' = [call EXCEPT ![c] = Idle]
    /\ UNCHANGED <<strategy, groups, status, checks, sessions, currentIndex,
                   mutex, round, brought>>

-----------------------------------------------------------------------------
ClientStep(c) ==
    \/ getSessionEndpoint(c) \/ Select(c) \/ SelectFails(c)
    \/ saveSession(c) \/ ReleaseEndpoint(c)

LBNext ==
    \/ \E e \in Endpoints :
          \/ RemoveEndpoint(e) \/ checkEndpointHealth(e)
          \/ \E st \in Statuses :
                \/ UpdateEndpointStatus(e, st)
                \/ \E t \in Types, n \in Presets : AddEndpoint(e, t, st, n)
    \/ performHealthChecks \/ ClearSessions
    \/ \E c \in Clients :
          \/ ClientStep(c)
          \/ \E t \in Types, s \in {{}} \cup {{x} : x \in SessionIDs} :
                GetEndpoint(c, s, t)

LBSpec == LBInit /\ [][LBNext]_LBvars

\* Every client goes on with the call it is in.
LBFairSpec == LBSpec /\ \A c \in Clients : WF_LBvars(ClientStep(c))

-----------------------------------------------------------------------------
(* Properties. *)

\* Clients that have counted a connection to e since it was last added, and
\* not given it back.
Counted(e) == {c \in Clients : call[c].counted /\ e \in call[c].ep}

(* No connection is leaked: Connections of a known endpoint never exceeds  *)
(* what the endpoint was added with and the clients that count one to it   *)
(* since, and never falls below 0, whatever releases of session clients,   *)
(* which count none, or of clients who held it before it was removed and   *)
(* added again have taken off.                                             *)
NoLeakedConnections ==
    \A e \in Known : conns[e] \in 0..(brought[e] + Cardinality(Counted(e)))

(* An endpoint is known and healthy at the moment it is handed out, by     *)
(* session or by strategy, also when a session has outlived its endpoint.  *)
ServedIsHealthy ==
    [][\A c \in Clients : \A e \in call'[c].ep \ call[c].ep :
          e \in Known /\ Healthy(e)]_LBvars

(* The round-robin strategy serves every healthy endpoint of a type once   *)
(* before it serves one again, for as long as endpoints and their status   *)
(* stay as they are, from whatever index an earlier set has left behind.   *)
RoundRobinIsEven ==
    [][\A c \in Clients : \A t \in call[c].t :
          (InTurn /\ call[c].pc = "select")
              => call'[c].ep \cap round[t] = {}]_LBvars

(* What the documented failover and recovery of endpoints needs: a call of *)
(* GetEndpoint that has started returns, with an endpoint or an error.     *)
(* The early returns keep the lock, and every later call waits for ever.   *)
GetEndpointReturns ==
    \A c \in Clients :
        call[c].pc \in {"lookup", "select", "save"}
            ~> call[c].pc \in {"idle", "holding"}
=============================================================================
