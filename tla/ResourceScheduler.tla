------------------------- MODULE ResourceScheduler -------------------------
(***************************************************************************)
(* ResourceScheduler (internal/scheduler/resource_scheduler.go) gives      *)
(* requests to LLM resources: to the least loaded suitable one at once, or *)
(* through a pending queue that a ticker and the goroutines started by     *)
(* RegisterResource and ReleaseResource work off.  Every critical section  *)
(* of resourcesLock is one step.  RequestResource gives the lock up        *)
(* between its attempt and its insertion; processPendingRequests gives it  *)
(* up after it has taken the whole queue, and between two attempts.        *)
(*                                                                         *)
(* Time is abstract: a heartbeat may be too old, an allocation may expire  *)
(* and a request may time out at any moment.  A load is a whole number of  *)
(* FullLoad-ths; the code's float64 is finer only below the threshold for  *)
(* an idle resource.  checkAutoScaling does nothing, since the constructor *)
(* turns it off, and removeFromPendingQueue is never called.               *)
(***************************************************************************)
EXTENDS Integers, Sequences, FiniteSets, SequencesExt, FiniteSetsExt

CONSTANTS
    Resources, Requests, Types,
    Type, ModelType,           \* model of a resource; model a request asks for
    Capabilities, Required,    \* capabilities of a resource; those required
    Capacity, Requirements,    \* units per type of a resource; of a request
    Priority,
    Timed,                     \* requests with Timeout > 0
    Stamped,                   \* requests whose Metadata holds queuedAt
    Goroutines,                \* bound: processing goroutines at one time
    MaxRequests,               \* bound: requests made altogether
    Loads, Reports,            \* loads and statuses that resources report
    Usages,                    \* bound: usedResources that a resource may send,
                               \* true or not; what is in use may be sent too
    NoResource

Procs == Goroutines \cup {"ticker"}
FullLoad == 128

ASSUME RSRequirements ==
    /\ NoResource \notin Resources
    /\ IsFiniteSet(Requests)
    /\ \A q \in Requests : \A t \in DOMAIN Requirements[q] :
          t \in Types /\ Requirements[q][t] \in Nat
    /\ \A r \in Resources : \A t \in DOMAIN Capacity[r] :
          t \in Types /\ Capacity[r][t] \in Nat
    /\ Usages \subseteq [Types -> Nat]

VARIABLES
    registered,      \* the keys of resources
    status, load, used,   \* fields of a resource; a missing used entry is 0
    allocations,     \* ResourceID of a request's allocation, or NoResource
    using,           \* the resource a request was given and its client has
                     \* not finished with, or NoResource
    pendingQueue,
    place,           \* history: where each request has got to
    running,         \* processPendingRequests calls under way
    todo,            \* pendingRequests of each call, still to be looked at
    remaining,       \* remainingRequests of each call
    spawned,         \* goroutines started that have not taken the lock
    stopped,         \* ctx is cancelled
    crashed,         \* the type assertion on queuedAt has panicked
    short,           \* history: the last account r sent left out units in use
    misled           \* history: r was given a request on such an account

resourceVars == <<status, load, used>>
procVars == <<running, todo, remaining>>
givenVars == <<allocations, using, misled>>
vars == <<registered, resourceVars, givenVars, pendingQueue, place, procVars,
          spawned, stopped, crashed, short>>

-----------------------------------------------------------------------------
Init ==
    /\ registered = {}
    /\ status = [r \in Resources |-> "available"]
    /\ load = [r \in Resources |-> 0]
    /\ used = [r \in Resources |-> [t \in Types |-> 0]]
    /\ allocations = [q \in Requests |-> NoResource]
    /\ pendingQueue = <<>>
    /\ place = [q \in Requests |-> "new"]
    /\ running = {}
    /\ todo = [p \in Procs |-> <<>>]
    /\ remaining = [p \in Procs |-> <<>>]
    /\ spawned = 0 /\ stopped = FALSE /\ crashed = FALSE
    /\ using = [q \in Requests |-> NoResource]
    /\ short = [r \in Resources |-> FALSE]
    /\ misled = [r \in Resources |-> FALSE]

-----------------------------------------------------------------------------
(* Choosing a resource. *)

hasRequiredCapabilities(r, q) == Required[q] \subseteq Capabilities[r]

\* Variant of hasEnoughCapacity for mutation: what is in use is forgotten.
hasEnoughCapacityEmpty(r, q) ==
    \A t \in DOMAIN Requirements[q] :
        t \in DOMAIN Capacity[r] /\ Capacity[r][t] >= Requirements[q][t]

hasEnoughCapacity(r, q) ==
    \A t \in DOMAIN Requirements[q] :
        /\ t \in DOMAIN Capacity[r]
        /\ Capacity[r][t] - used[r][t] >= Requirements[q][t]

\* The average over the types with a capacity.
calculateResourceLoad(r, use) ==
    LET sized == {t \in DOMAIN Capacity[r] : Capacity[r][t] > 0}
        share(t) == (use[t] * FullLoad) \div Capacity[r][t]
    IN  IF sized = {} THEN 0
        ELSE MapThenSumSet(share, sized) \div Cardinality(sized)

\* A load of 1.1 or more is never chosen.
Suitable(q) ==
    {r \in registered : /\ status[r] \in {"available", "busy"}
                        /\ Type[r] = ModelType[q]
                        /\ hasRequiredCapabilities(r, q)
                        /\ hasEnoughCapacity(r, q)
                        /\ 10 * load[r] < 11 * FullLoad}

\* Map iteration is unordered: any one of the least loaded may be found.
BestResources(q) ==
    {r \in Suitable(q) : \A s \in Suitable(q) : load[r] <= load[s]}

\* The units of type t that q asks for.
Demand(q, t) == IF t \in DOMAIN Requirements[q] THEN Requirements[q][t] ELSE 0

updateResourceAfterAllocation(r, q) ==
    LET use == [t \in Types |-> used[r][t] + Demand(q, t)]
        new == calculateResourceLoad(r, use)
    IN  /\ used' = [used EXCEPT ![r] = use]
        /\ load' = [load EXCEPT ![r] = new]
        /\ status' = [status EXCEPT ![r] = IF 10 * new > 9 * FullLoad THEN "busy" ELSE @]

\* The two results of tryAllocateResource.
Allocate(q) ==
    \E r \in BestResources(q) :
        /\ updateResourceAfterAllocation(r, q)
        /\ allocations' = [allocations EXCEPT ![q] = r]
        /\ using' = [using EXCEPT ![q] = r]
        /\ misled' = [misled EXCEPT ![r] = @ \/ short[r]]

NoneSuitable(q) ==
    /\ Suitable(q) = {}
    /\ UNCHANGED <<resourceVars, givenVars>>

-----------------------------------------------------------------------------
(* Calls by resources. *)

\* With the Used it brings; nothing of it is in use yet.
RegisterResource(r, u) ==
    /\ r \notin registered
    /\ registered' = registered \cup {r}
    /\ status' = [status EXCEPT ![r] = "available"]
    /\ load' = [load EXCEPT ![r] = 0]
    /\ used' = [used EXCEPT ![r] = u]
    /\ spawned' = spawned + 1
    /\ UNCHANGED <<givenVars, pendingQueue, place, procVars, stopped, crashed, short>>

UpdateResourceStatus(r, s, l) ==
    /\ r \in registered
    /\ status' = [status EXCEPT ![r] = s]
    /\ load' = [load EXCEPT ![r] = l]
    /\ UNCHANGED <<registered, used, givenVars, pendingQueue, place, procVars,
                   spawned, stopped, crashed, short>>

\* The units of r in use, by the clients that were given it and have not
\* finished, whether or not their allocation has expired.
Using(r) == {q \in Requests : using[q] = r}
UnitsInUse(r, t) == UNION {{q} \X (1..Demand(q, t)) : q \in Using(r)}
InUse(r) == [t \in Types |-> Cardinality(UnitsInUse(r, t))]

\* Variant of Heartbeat for mutation: usedResources is ignored.
HeartbeatLoadOnly(r, l, u) ==
    /\ r \in registered
    /\ load' = [load EXCEPT ![r] = l]
    /\ UNCHANGED <<registered, status, used, givenVars, pendingQueue, place,
                   procVars, spawned, stopped, crashed, short>>

\* usedResources is nil, or replaces the account kept here, whatever it says:
\* it may be older than the last allocation, or leave out a client that has
\* not begun yet.  The status stays.
Heartbeat(r, l, u) ==
    /\ r \in registered
    /\ load' = [load EXCEPT ![r] = l]
    /\ \/ UNCHANGED <<used, short>>
       \/ /\ used' = [used EXCEPT ![r] = u]
          /\ short' = [short EXCEPT ![r] = \E t \in Types : u[t] < InUse(r)[t]]
    /\ UNCHANGED <<registered, status, givenVars, pendingQueue, place, procVars,
                   spawned, stopped, crashed>>

-----------------------------------------------------------------------------
(* Calls by clients. *)

\* RequestResource tries at once ...
RequestResource(q) ==
    /\ place[q] = "new"
    /\ Cardinality({o \in Requests : place[o] # "new"}) < MaxRequests
    /\ \/ Allocate(q) /\ place' = [place EXCEPT ![q] = "allocated"]
       \/ NoneSuitable(q) /\ place' = [place EXCEPT ![q] = "asking"]
    /\ UNCHANGED <<registered, pendingQueue, procVars, spawned, stopped, crashed,
                   short>>

\* ... and otherwise goes before the first request of lower priority.
InsertPlaces(s, q) ==
    {i \in 1..Len(s) + 1 : /\ i <= Len(s) => Priority[q] > Priority[s[i]]
                           /\ \A j \in 1..i - 1 : Priority[q] <= Priority[s[j]]}

RequestQueued(q) ==
    /\ place[q] = "asking"
    /\ \E i \in InsertPlaces(pendingQueue, q) :
          pendingQueue' = InsertAt(pendingQueue, i, q)
    /\ place' = [place EXCEPT ![q] = "waiting"]
    /\ UNCHANGED <<registered, resourceVars, givenVars, procVars, spawned,
                   stopped, crashed, short>>

\* The effect on the resources of taking the allocations of gone away: each
\* halves its resource's load (calculateNewLoad); used is left as it is.
On(r) == {q \in Requests : allocations[q] = r}
Deallocate(gone) ==
    LET halved(r) == load[r] \div 2^Cardinality(On(r) \cap gone)
        hit == {r \in Resources : On(r) \cap gone # {}}
    IN  /\ allocations' = [q \in Requests |->
                              IF q \in gone THEN NoResource ELSE allocations[q]]
        /\ load' = [r \in Resources |-> halved(r)]
        /\ status' = [r \in Resources |->
                         IF r \in hit /\ 100 * halved(r) < FullLoad
                         THEN "available" ELSE status[r]]
        /\ place' = [q \in Requests |-> IF q \in gone THEN "gone" ELSE place[q]]
        /\ UNCHANGED <<used, short, misled>>

\* A client that has finished.  Its allocation may have expired by now:
\* "allocation not found".
ReleaseResource(q) ==
    /\ using[q] # NoResource
    /\ using' = [using EXCEPT ![q] = NoResource]
    /\ IF allocations[q] # NoResource
       THEN Deallocate({q}) /\ spawned' = spawned + 1
       ELSE UNCHANGED <<resourceVars, allocations, place, spawned, short, misled>>
    /\ UNCHANGED <<registered, pendingQueue, procVars, stopped, crashed>>

Stop ==
    /\ ~ stopped
    /\ stopped' = TRUE
    /\ UNCHANGED <<registered, resourceVars, givenVars, pendingQueue, place,
                   procVars, spawned, crashed, short>>

-----------------------------------------------------------------------------
(* resourceMonitor: its checks take the lock one after the other. *)

checkResourceStatus(late) ==
    /\ ~ stopped
    /\ late # {} /\ late \subseteq registered
    /\ status' = [r \in Resources |-> IF r \in late THEN "offline" ELSE status[r]]
    /\ UNCHANGED <<registered, load, used, givenVars, pendingQueue, place,
                   procVars, spawned, stopped, crashed, short>>

\* Expires is the time of allocation plus Timeout: without a Timeout the
\* allocation has expired by the next check.
checkAllocations(expired) ==
    /\ ~ stopped
    /\ expired # {}
    /\ \A q \in expired : allocations[q] # NoResource
    /\ \A q \in Requests \ Timed : allocations[q] # NoResource => q \in expired
    /\ Deallocate(expired)
    /\ UNCHANGED <<registered, using, pendingQueue, procVars, spawned, stopped,
                   crashed>>

-----------------------------------------------------------------------------
(* processPendingRequests, from pendingRequestProcessor's ticker or in a   *)
(* goroutine of its own.                                                   *)

MayStart(p) == IF p = "ticker" THEN ~ stopped ELSE spawned > 0
Started(p) == IF p = "ticker" THEN spawned ELSE spawned - 1

\* The call takes the whole queue, or returns when there is nothing in it.
ProcessStart(p) ==
    /\ p \notin running /\ MayStart(p)
    /\ spawned' = Started(p)
    /\ IF pendingQueue = <<>>
       THEN UNCHANGED <<running, todo>>
       ELSE /\ running' = running \cup {p}
            /\ todo' = [todo EXCEPT ![p] = pendingQueue]
    /\ pendingQueue' = <<>>
    /\ UNCHANGED <<registered, resourceVars, givenVars, place, remaining,
                   stopped, crashed, short>>

\* The next request times out (a panic when it has no queuedAt), is given a
\* resource, or is kept for later.
ProcessOne(p) ==
    /\ p \in running /\ todo[p] # <<>>
    /\ LET q == Head(todo[p])
       IN  \/ /\ q \in Timed \ Stamped
              /\ crashed' = TRUE
              /\ UNCHANGED <<resourceVars, givenVars, place, todo, remaining>>
           \/ /\ q \in Timed \cap Stamped
              /\ place' = [place EXCEPT ![q] = "timedout"]
              /\ todo' = [todo EXCEPT ![p] = Tail(@)]
              /\ UNCHANGED <<resourceVars, givenVars, remaining, crashed>>
           \/ /\ q \notin Timed \/ q \in Stamped
              /\ Allocate(q)
              /\ place' = [place EXCEPT ![q] = "allocated"]
              /\ todo' = [todo EXCEPT ![p] = Tail(@)]
              /\ UNCHANGED <<remaining, crashed>>
           \/ /\ q \notin Timed \/ q \in Stamped
              /\ NoneSuitable(q)
              /\ todo' = [todo EXCEPT ![p] = Tail(@)]
              /\ remaining' = [remaining EXCEPT ![p] = Append(@, q)]
              /\ UNCHANGED <<place, crashed>>
    /\ UNCHANGED <<registered, pendingQueue, running, spawned, stopped, short>>

\* Variant of ProcessEnd for mutation: the queue is replaced, not appended to.
ProcessEndReplaces(p) ==
    /\ p \in running /\ todo[p] = <<>>
    /\ pendingQueue' = IF remaining[p] = <<>> THEN pendingQueue ELSE remaining[p]
    /\ remaining' = [remaining EXCEPT ![p] = <<>>]
    /\ running' = running \ {p}
    /\ UNCHANGED <<registered, resourceVars, givenVars, place, todo, spawned,
                   stopped, crashed, short>>

\* What is left goes behind the requests queued in the meantime.
ProcessEnd(p) ==
    /\ p \in running /\ todo[p] = <<>>
    /\ pendingQueue' = pendingQueue \o remaining[p]
    /\ remaining' = [remaining EXCEPT ![p] = <<>>]
    /\ running' = running \ {p}
    /\ UNCHANGED <<registered, resourceVars, givenVars, place, todo, spawned,
                   stopped, crashed, short>>

-----------------------------------------------------------------------------
Next ==
    /\ ~ crashed
    /\ \/ \E r \in Resources, u \in Usages : RegisterResource(r, u)
       \/ \E r \in Resources, s \in Reports, l \in Loads : UpdateResourceStatus(r, s, l)
       \/ \E r \in Resources, l \in Loads : \E u \in Usages \cup {InUse(r)} :
             Heartbeat(r, l, u)
       \/ \E q \in Requests : RequestResource(q) \/ RequestQueued(q) \/ ReleaseResource(q)
       \/ Stop
       \/ \E late \in SUBSET Resources : checkResourceStatus(late)
       \/ \E expired \in SUBSET Requests : checkAllocations(expired)
       \/ \E p \in Procs : ProcessStart(p) \/ ProcessOne(p) \/ ProcessEnd(p)

Spec == Init /\ [][Next]_vars

\* Goroutines and the ticker go on; clients finish their calls and give back
\* what they were given; resources go on reporting what is in use.
ClientStep(q) == ~ crashed /\ (RequestQueued(q) \/ ReleaseResource(q))
ReportStep(r) ==
    ~ crashed /\ \E l \in Loads : Heartbeat(r, l, InUse(r)) /\ used'[r] = InUse(r)
ProcessStep(p) == ~ crashed /\ (ProcessStart(p) \/ ProcessOne(p) \/ ProcessEnd(p))

FairSpec ==
    /\ Spec
    /\ \A q \in Requests : WF_vars(ClientStep(q))
    /\ \A r \in Resources : WF_vars(ReportStep(r))
    /\ \A p \in Procs : WF_vars(ProcessStep(p))

-----------------------------------------------------------------------------
(* Properties. *)

\* The requests a processing call has in its two slices.
Slices(p) == todo[p] \o remaining[p]

(* However many processPendingRequests calls overlap with each other and   *)
(* with RequestResource, a request is in the pending queue or in the       *)
(* slices of one call exactly once while it waits, nowhere when it does    *)
(* not, and it has an allocation exactly when it was given a resource.     *)
RequestOnce ==
    /\ IsInjective(pendingQueue)
    /\ \A p \in Procs :
          /\ IsInjective(Slices(p))
          /\ ToSet(Slices(p)) \cap ToSet(pendingQueue) = {}
          /\ \A o \in Procs \ {p} : ToSet(Slices(p)) \cap ToSet(Slices(o)) = {}
    /\ \A q \in Requests :
          /\ place[q] = "waiting" <=>
                \/ q \in ToSet(pendingQueue)
                \/ \E p \in Procs : q \in ToSet(Slices(p))
          /\ allocations[q] # NoResource <=> place[q] = "allocated"

(* The account in used covers what clients have in use of a resource, the  *)
(* holders of expired allocations included, after any mix of allocations,  *)
(* releases, expiries and heartbeats, unless the last account the resource *)
(* sent left something out; and a resource is given more than its capacity *)
(* only by an allocation made on such an account.                          *)
NoOvercommit ==
    \A r \in Resources :
        /\ ~ short[r] => \A t \in Types : InUse(r)[t] <= used[r][t]
        /\ ~ misled[r] => \A t \in DOMAIN Capacity[r] : InUse(r)[t] <= Capacity[r][t]

\* r stays in service, and would have room for q if it held nothing else.
Serves(r, q) ==
    /\ ~ stopped /\ ~ crashed
    /\ r \in registered /\ status[r] \in {"available", "busy"}
    /\ Type[r] = ModelType[q] /\ hasRequiredCapabilities(r, q)
    /\ \A t \in DOMAIN Requirements[q] :
          t \in DOMAIN Capacity[r] /\ Capacity[r][t] >= Requirements[q][t]

\* What changes the account of r, other than r being registered or given a
\* request, is a report, and a true one.
Reported(r) ==
    registered' = registered /\ using' = using
        => used'[r] \in {used[r], InUse(r)}

(* A waiting request is given a resource (or times out) as long as some    *)
(* resource that could serve it stays in service and reports truly from    *)
(* some time on, although releasing an allocation does not give its units  *)
(* back: the next heartbeat does.                                          *)
Served ==
    \A q \in Requests :
        (\E r \in Resources : <>[]Serves(r, q) /\ <>[][Reported(r)]_vars)
            => (place[q] = "waiting" ~> place[q] # "waiting")
=============================================================================
