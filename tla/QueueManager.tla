---------------------------- MODULE QueueManager ----------------------------
(***************************************************************************)
(* QueueManager (internal/priorityqueue/queue_manager.go): named queues    *)
(* that can be deleted and created again while clients use them.  Every    *)
(* operation first reads the table of queues under qm.mu, gives the lock   *)
(* up, and then works on the MultiLevelQueue it found; CompleteMessage and *)
(* FailMessage look the name up a second time.  Each MultiLevelQueue ever  *)
(* made is an incarnation of its name, so a client may hold one that is no *)
(* longer, or not any more, the one in the table.                          *)
(***************************************************************************)
EXTENDS QueueItems, Integers, FiniteSets, Sequences, SequencesExt

CONSTANTS
    Names,             \* queue names
    Clients,           \* goroutines calling the manager
    Msgs,              \* the messages they push, each once
    Submitted,         \* the priority each message is created with
    VIP,               \* messages whose metadata has "vip_user"
    Long,              \* messages with more than 10000 bytes of content
    DefaultMaxSize,    \* QueueManagerConfig.DefaultMaxSize
    Sizes,             \* sizes CreateQueue is called with
    BatchSize,         \* largest count BatchPopMessages is called with
    MaxIncarnations    \* bound: queues ever created

ASSUME MsgsFinite == IsFiniteSet(Msgs)
ASSUME SubmittedType == Submitted \in [Msgs -> Priorities]
ASSUME SizesType == DefaultMaxSize \in Nat /\ Sizes \subseteq Int
ASSUME BoundsType == BatchSize \in Nat /\ MaxIncarnations \in Nat

VARIABLES
    table,         \* qm.queues: name -> incarnation, 0 when absent
    queues,        \* the incarnations: name, limit, entries, statistics
    clock,         \* the instant the next entry is stamped with
    priority,      \* Message.Priority
    call,          \* the call each client is in
    origin,        \* history: incarnation a message was popped from, or 0
    settledAt,     \* history: incarnation that counted its end, or 0
    fate           \* history: what has happened to each message

vars == <<table, queues, clock, priority, call, origin, settledAt, fate>>

-----------------------------------------------------------------------------
High == 2
Low == 4

\* The messages each rule matches and the priority it sets, in order.
createPriorityRules ==
    <<[matches |-> VIP, new |-> High], [matches |-> Long, new |-> Low]>>

\* The first rule that matches sets the priority.
applyPriorityRules(m, p) ==
    LET hits == {k \in DOMAIN createPriorityRules :
                    m \in createPriorityRules[k].matches}
    IN  IF hits = {} THEN p ELSE createPriorityRules[Min(hits)].new

NoStats == [pending |-> 0, processing |-> 0, completed |-> 0, failed |-> 0]
Idle == [op |-> "none", q |-> 0, count |-> 0, todo |-> <<>>]

Incarnations == DOMAIN queues
HeldIn(k) == {i.msg : i \in queues[k].items}

Init ==
    /\ table = [n \in Names |-> 0]
    /\ queues = <<>>
    /\ clock = 0
    /\ priority = Submitted
    /\ call = [c \in Clients |-> Idle]
    /\ origin = [m \in Msgs |-> 0]
    /\ settledAt = [m \in Msgs |-> 0]
    /\ fate = [m \in Msgs |-> "new"]

-----------------------------------------------------------------------------
(* Creating and deleting. *)

\* CreateQueue of a name that is not in the table.
CreateQueue(n, size) ==
    /\ table[n] = 0
    /\ Len(queues) < MaxIncarnations
    /\ queues' = Append(queues,
                    [name |-> n, items |-> {}, stats |-> NoStats,
                     limit |-> IF size <= 0 THEN DefaultMaxSize ELSE size])
    /\ table' = [table EXCEPT ![n] = Len(queues) + 1]
    /\ UNCHANGED <<clock, priority, call, origin, settledAt, fate>>

DeleteQueue(n) ==
    /\ table[n] # 0
    /\ table' = [table EXCEPT ![n] = 0]
    /\ UNCHANGED <<queues, clock, priority, call, origin, settledAt, fate>>

-----------------------------------------------------------------------------
(* Pushing: PushMessage of one message, BatchPushMessages of several.      *)

\* The look-up; an unknown name is an error and nothing happens.
PushLookup(c, n, ms) ==
    /\ call[c] = Idle
    /\ table[n] # 0
    /\ \A m \in Range(ms) : fate[m] = "new"
    /\ call' = [call EXCEPT
          ![c] = [op |-> "push", q |-> table[n], count |-> 0, todo |-> ms]]
    /\ fate' = [m \in Msgs |-> IF m \in Range(ms) THEN "pushing" ELSE fate[m]]
    /\ UNCHANGED <<table, queues, clock, priority, origin, settledAt>>

\* Variant of PushOne for mutation: the limit is off by one.
PushOneTooMany(c) ==
    /\ call[c].op = "push" /\ call[c].todo # <<>>
    /\ LET m == Head(call[c].todo)
           q == call[c].q
           p == applyPriorityRules(m, priority[m])
       IN  /\ priority' = [priority EXCEPT ![m] = p]
           /\ IF FullAt(Cardinality(queues[q].items), queues[q].limit + 1)
              THEN /\ fate' = [fate EXCEPT ![m] = "refused"]
                   /\ UNCHANGED <<queues, clock>>
              ELSE /\ queues' = [queues EXCEPT
                         ![q].items = @ \cup {QueueItem(m, p, clock)},
                         ![q].stats.pending = @ + 1]
                   /\ clock' = clock + 1
                   /\ fate' = [fate EXCEPT ![m] = "queued"]
    /\ call' = [call EXCEPT ![c].todo = Tail(@)]
    /\ UNCHANGED <<table, origin, settledAt>>

\* One queue.Push on the incarnation found; a batch goes on after an error.
PushOne(c) ==
    /\ call[c].op = "push" /\ call[c].todo # <<>>
    /\ LET m == Head(call[c].todo)
           q == call[c].q
           p == applyPriorityRules(m, priority[m])
       IN  /\ priority' = [priority EXCEPT ![m] = p]
           /\ IF FullAt(Cardinality(queues[q].items), queues[q].limit)
              THEN /\ fate' = [fate EXCEPT ![m] = "refused"]
                   /\ UNCHANGED <<queues, clock>>
              ELSE /\ queues' = [queues EXCEPT
                         ![q].items = @ \cup {QueueItem(m, p, clock)},
                         ![q].stats.pending = @ + 1]
                   /\ clock' = clock + 1
                   /\ fate' = [fate EXCEPT ![m] = "queued"]
    /\ call' = [call EXCEPT ![c].todo = Tail(@)]
    /\ UNCHANGED <<table, origin, settledAt>>

-----------------------------------------------------------------------------
(* Popping: PopMessage is BatchPopMessages with a count of one.            *)

PopLookup(c, n, count) ==
    /\ call[c] = Idle
    /\ table[n] # 0
    /\ call' = [call EXCEPT
          ![c] = [op |-> "pop", q |-> table[n], count |-> count, todo |-> <<>>]]
    /\ UNCHANGED <<table, queues, clock, priority, origin, settledAt, fate>>

\* Variant of PopOne for mutation: the entry is read but not removed.
PopOnePeeks(c) ==
    /\ call[c].op = "pop"
    /\ Len(call[c].todo) < call[c].count
    /\ LET q == call[c].q
       IN  \E i \in Heads(queues[q].items) :
              /\ queues' = [queues EXCEPT ![q].stats.pending = @ - 1,
                                          ![q].stats.processing = @ + 1]
              /\ call' = [call EXCEPT ![c].todo = Append(@, i.msg)]
              /\ origin' = [origin EXCEPT ![i.msg] = q]
              /\ fate' = [fate EXCEPT ![i.msg] = "popped"]
    /\ UNCHANGED <<table, clock, priority, settledAt>>

\* One queue.Pop; todo collects the result.
PopOne(c) ==
    /\ call[c].op = "pop"
    /\ Len(call[c].todo) < call[c].count
    /\ LET q == call[c].q
       IN  \E i \in Heads(queues[q].items) :
              /\ queues' = [queues EXCEPT ![q].items = @ \ {i},
                                          ![q].stats.pending = @ - 1,
                                          ![q].stats.processing = @ + 1]
              /\ call' = [call EXCEPT ![c].todo = Append(@, i.msg)]
              /\ origin' = [origin EXCEPT ![i.msg] = q]
              /\ fate' = [fate EXCEPT ![i.msg] = "popped"]
    /\ UNCHANGED <<table, clock, priority, settledAt>>

\* The batch is full or the queue is empty; the client goes on to settle what
\* it has popped.
PopReturns(c) ==
    /\ call[c].op = "pop"
    /\ \/ Len(call[c].todo) = call[c].count
       \/ queues[call[c].q].items = {}
    /\ call' = [call EXCEPT ![c].op = "settle", ![c].q = 0]
    /\ UNCHANGED <<table, queues, clock, priority, origin, settledAt, fate>>

-----------------------------------------------------------------------------
(* CompleteMessage and FailMessage of a popped message, by queue name.     *)

\* The second look-up: the name may stand for another incarnation by now, or
\* for none, and then the call returns without counting anything.
SettleLookup(c) ==
    /\ call[c].op = "settle" /\ call[c].q = 0 /\ call[c].todo # <<>>
    /\ LET m == Head(call[c].todo)
           k == table[queues[origin[m]].name]
       IN  IF k = 0
           THEN /\ call' = [call EXCEPT ![c].todo = Tail(@)]
                /\ fate' = [fate EXCEPT ![m] = "uncounted"]
           ELSE /\ call' = [call EXCEPT ![c].q = k]
                /\ UNCHANGED fate
    /\ UNCHANGED <<table, queues, clock, priority, origin, settledAt>>

\* Variant of Settle for mutation: ProcessingCount is not lowered on failure.
SettleKeepsProcessing(c) ==
    /\ call[c].op = "settle" /\ call[c].q # 0
    /\ LET m == Head(call[c].todo)
           k == call[c].q
       IN  /\ \/ queues' = [queues EXCEPT ![k].stats.processing = @ - 1,
                                          ![k].stats.completed = @ + 1]
              \/ queues' = [queues EXCEPT ![k].stats.failed = @ + 1]
           /\ settledAt' = [settledAt EXCEPT ![m] = k]
           /\ fate' = [fate EXCEPT ![m] = "settled"]
    /\ call' = [call EXCEPT ![c].q = 0, ![c].todo = Tail(@)]
    /\ UNCHANGED <<table, clock, priority, origin>>

\* The statistics of the incarnation found are updated.
Settle(c) ==
    /\ call[c].op = "settle" /\ call[c].q # 0
    /\ LET m == Head(call[c].todo)
           k == call[c].q
       IN  /\ \/ queues' = [queues EXCEPT ![k].stats.processing = @ - 1,
                                          ![k].stats.completed = @ + 1]
              \/ queues' = [queues EXCEPT ![k].stats.processing = @ - 1,
                                          ![k].stats.failed = @ + 1]
           /\ settledAt' = [settledAt EXCEPT ![m] = k]
           /\ fate' = [fate EXCEPT ![m] = "settled"]
    /\ call' = [call EXCEPT ![c].q = 0, ![c].todo = Tail(@)]
    /\ UNCHANGED <<table, clock, priority, origin>>

\* A call returns to its client.
Return(c) ==
    /\ call[c].op \in {"push", "settle"} /\ call[c].todo = <<>>
    /\ call' = [call EXCEPT ![c] = Idle]
    /\ UNCHANGED <<table, queues, clock, priority, origin, settledAt, fate>>

-----------------------------------------------------------------------------
\* The batches a client may push: one message, or two in either order.
Batches == {<<m>> : m \in Msgs} \cup {<<m, k>> : m \in Msgs, k \in Msgs}

ClientStep(c) ==
    \/ \E n \in Names, count \in 1..BatchSize : PopLookup(c, n, count)
    \/ \E n \in Names, ms \in Batches : IsInjective(ms) /\ PushLookup(c, n, ms)
    \/ PushOne(c) \/ PopOne(c) \/ PopReturns(c)
    \/ SettleLookup(c) \/ Settle(c) \/ Return(c)

Next ==
    \/ \E n \in Names : DeleteQueue(n) \/ \E s \in Sizes : CreateQueue(n, s)
    \/ \E c \in Clients : ClientStep(c)

Spec == Init /\ [][Next]_vars

-----------------------------------------------------------------------------
(* Properties. *)

(* A message is in at most one incarnation, and in one exactly between the *)
(* push that returned nil and the pop that took it, whichever incarnations *)
(* the two clients had found under the name.                               *)
OneIncarnation ==
    /\ \A m \in Msgs :
          Cardinality({k \in Incarnations : m \in HeldIn(k)})
              = IF fate[m] = "queued" THEN 1 ELSE 0
    /\ \A k \in Incarnations :
          \A i, j \in queues[k].items : i.msg = j.msg => i = j

(* The limit of every incarnation holds under concurrent pushes, also of   *)
(* one that has been deleted while a batch was being pushed to it.         *)
LimitsHold ==
    \A k \in Incarnations :
        queues[k].limit > 0 => Cardinality(queues[k].items) <= queues[k].limit

(* The statistics of an incarnation: pending entries, and for the rest the *)
(* pops it served against the ends it counted.  Completion is counted at   *)
(* the incarnation the name stands for then, so the difference is what a   *)
(* deletion leaves behind.                                                 *)
InstanceAccounting ==
    \A k \in Incarnations :
        LET s == queues[k].stats
            settled == Cardinality({m \in Msgs : settledAt[m] = k})
        IN  /\ s.pending = Cardinality(queues[k].items)
            /\ s.completed + s.failed = settled
            /\ s.processing = Cardinality({m \in Msgs : origin[m] = k}) - settled

=============================================================================
