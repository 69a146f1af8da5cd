------------------------- MODULE QueueManagerProofs -------------------------
(***************************************************************************)
(* Proofs about QueueManager, for any names, clients, sizes and batches,   *)
(* any finite set of messages and any number of incarnations.              *)
(***************************************************************************)
EXTENDS QueueManager, FiniteSetTheorems, SequenceTheorems, TLAPS

-----------------------------------------------------------------------------
(* Types. *)

Counters == [pending : Int, processing : Int, completed : Int, failed : Int]
Queues == [name : Names, items : SUBSET Items(Msgs), stats : Counters, limit : Nat]
Calls == [op : {"none", "push", "pop", "settle"}, q : Nat, count : Nat,
          todo : Seq(Msgs)]
Fates == {"new", "pushing", "refused", "queued", "popped", "uncounted", "settled"}

\* The incarnation a call works on: one that exists, though perhaps deleted.
CallOK(r, n) ==
    /\ r.op \in {"push", "pop"} => r.q \in 1..n
    /\ r.op = "settle" => r.q \in 0..n /\ (r.q # 0 => r.todo # <<>>)

\* The types of the variables.
TypeOK ==
    /\ queues \in Seq(Queues)
    /\ table \in [Names -> 0..Len(queues)]
    /\ clock \in Nat
    /\ priority \in [Msgs -> Priorities]
    /\ call \in [Clients -> Calls]
    /\ \A c \in Clients : CallOK(call[c], Len(queues))
    /\ origin \in [Msgs -> 0..Len(queues)]
    /\ settledAt \in [Msgs -> 0..Len(queues)]
    /\ fate \in [Msgs -> Fates]

\* A message that a client has popped and not settled yet was popped from an
\* incarnation: SettleLookup asks for that one's name.
OriginKnown ==
    \A c \in Clients : call[c].op \in {"pop", "settle"} =>
        \A p \in 1..Len(call[c].todo) : origin[call[c].todo[p]] # 0

-----------------------------------------------------------------------------
(* Facts about the operators. *)

\* A rule that matches sets one of the four priorities.
LEMMA RulesType ==
    ASSUME NEW m, NEW p \in Priorities
    PROVE  applyPriorityRules(m, p) \in Priorities
<1> DEFINE rules == createPriorityRules
           hits == {k \in DOMAIN rules : m \in rules[k].matches}
<1>1. DOMAIN rules = {1, 2} /\ \A k \in {1, 2} : rules[k].new \in Priorities
  BY DEF createPriorityRules, High, Low, Priorities
<1>2. CASE hits # {}
  <2>1. Min(hits) \in hits
    <3>1. \E x \in hits : \A y \in hits : x =< y
      BY <1>1, <1>2
    <3>2. QED BY <3>1 DEF Min
  <2>2. QED BY <1>1, <1>2, <2>1 DEF applyPriorityRules
<1>3. CASE hits = {}
  BY <1>3 DEF applyPriorityRules
<1>4. QED BY <1>2, <1>3

\* The incarnations are the positions of queues.
LEMMA Positions ==
    ASSUME TypeOK
    PROVE  /\ Len(queues) \in Nat /\ Incarnations = 1..Len(queues)
           /\ \A k \in 1..Len(queues) : queues[k] \in Queues
BY LenProperties DEF TypeOK, Incarnations

\* Replacing one incarnation's record.
LEMMA ChangeQueue ==
    ASSUME TypeOK, NEW q \in 1..Len(queues), NEW r \in Queues,
           queues' = [queues EXCEPT ![q] = r]
    PROVE  /\ queues' \in Seq(Queues) /\ Len(queues') = Len(queues)
           /\ Incarnations' = 1..Len(queues) /\ queues'[q] = r
           /\ \A k \in 1..Len(queues) : k # q => queues'[k] = queues[k]
<1>1. queues' \in Seq(Queues) /\ Len(queues') = Len(queues)
  BY ExceptSeq DEF TypeOK
<1>2. \A k \in 1..Len(queues) : queues'[k] = IF k = q THEN r ELSE queues[k]
  BY ExceptSeq DEF TypeOK
<1>3. Incarnations' = 1..Len(queues)
  BY <1>1, LenProperties DEF Incarnations
<1>4. QED BY <1>1, <1>2, <1>3

\* What is left of a list of messages when its head has been dealt with.
LEMMA TailOf ==
    ASSUME NEW s \in Seq(Msgs), s # <<>>
    PROVE  /\ Tail(s) \in Seq(Msgs) /\ Head(s) = s[1] /\ Head(s) \in Msgs
           /\ Len(s) \in Nat \ {0}
           /\ \A p \in 1..Len(Tail(s)) : p + 1 \in 1..Len(s) /\ Tail(s)[p] = s[p + 1]
BY HeadTailProperties, EmptySeq

-----------------------------------------------------------------------------
(* What the actions do to the one incarnation they work on. *)

\* The incarnation after a push, a pop and a settled message.
AfterPush(r, i) == [r EXCEPT !.items = @ \cup {i}, !.stats.pending = @ + 1]
AfterPop(r, i) ==
    [r EXCEPT !.items = @ \ {i}, !.stats.pending = @ - 1, !.stats.processing = @ + 1]
AfterCompleted(r) ==
    [r EXCEPT !.stats.processing = @ - 1, !.stats.completed = @ + 1]
AfterFailed(r) ==
    [r EXCEPT !.stats.processing = @ - 1, !.stats.failed = @ + 1]

\* Field by field.
LEMMA CountersExcept ==
    ASSUME NEW s \in Counters
    PROVE  /\ [s EXCEPT !.pending = @ + 1] \in Counters
           /\ [s EXCEPT !.pending = @ - 1, !.processing = @ + 1] \in Counters
           /\ [s EXCEPT !.processing = @ - 1, !.completed = @ + 1] \in Counters
           /\ [s EXCEPT !.processing = @ - 1, !.failed = @ + 1] \in Counters
<1>1. /\ s.pending + 1 \in Int /\ s.pending - 1 \in Int
      /\ s.processing + 1 \in Int /\ s.processing - 1 \in Int
      /\ s.completed + 1 \in Int /\ s.failed + 1 \in Int
  BY DEF Counters
<1>2. [s EXCEPT !.pending = @ + 1] \in Counters
  BY <1>1 DEF Counters
<1>3. [s EXCEPT !.pending = @ - 1, !.processing = @ + 1] \in Counters
  BY <1>1 DEF Counters
<1>4. [s EXCEPT !.processing = @ - 1, !.completed = @ + 1] \in Counters
  BY <1>1 DEF Counters
<1>5. [s EXCEPT !.processing = @ - 1, !.failed = @ + 1] \in Counters
  BY <1>1 DEF Counters
<1>6. QED BY <1>2, <1>3, <1>4, <1>5

LEMMA AfterPushFields ==
    ASSUME NEW r \in Queues, NEW i \in Items(Msgs)
    PROVE  LET a == AfterPush(r, i)
           IN  /\ a \in Queues /\ a.name = r.name /\ a.limit = r.limit
               /\ a.items = r.items \cup {i}
               /\ a.stats = [r.stats EXCEPT !.pending = @ + 1]
<1> DEFINE s == [r.stats EXCEPT !.pending = @ + 1]
<1>1. s \in Counters
  BY CountersExcept DEF Queues
<1>2. AfterPush(r, i) = [r EXCEPT !.items = @ \cup {i}, !.stats = s]
  BY DEF AfterPush, Queues
<1> HIDE DEF s
<1>3. QED BY <1>1, <1>2 DEF Queues, s

LEMMA AfterPopFields ==
    ASSUME NEW r \in Queues, NEW i \in r.items
    PROVE  LET a == AfterPop(r, i)
           IN  /\ a \in Queues /\ a.name = r.name /\ a.limit = r.limit
               /\ a.items = r.items \ {i}
               /\ a.stats = [r.stats EXCEPT !.pending = @ - 1, !.processing = @ + 1]
<1> DEFINE s == [r.stats EXCEPT !.pending = @ - 1, !.processing = @ + 1]
<1>1. s \in Counters
  BY CountersExcept DEF Queues
<1>2. AfterPop(r, i) = [r EXCEPT !.items = @ \ {i}, !.stats = s]
  BY DEF AfterPop, Queues, Counters
<1> HIDE DEF s
<1>3. QED BY <1>1, <1>2 DEF Queues, s

LEMMA AfterSettledFields ==
    ASSUME NEW r \in Queues, NEW a \in {AfterCompleted(r), AfterFailed(r)}
    PROVE  /\ a \in Queues /\ a.name = r.name /\ a.limit = r.limit
           /\ a.items = r.items /\ a.stats.pending = r.stats.pending
           /\ a.stats.processing = r.stats.processing - 1
           /\ a.stats.completed + a.stats.failed
                 = r.stats.completed + r.stats.failed + 1
<1> DEFINE s == [r.stats EXCEPT !.processing = @ - 1, !.completed = @ + 1]
           t == [r.stats EXCEPT !.processing = @ - 1, !.failed = @ + 1]
<1>1. r.stats \in Counters /\ s \in Counters /\ t \in Counters
  BY CountersExcept DEF Queues
<1>2. \A u \in {s, t} : /\ u.pending = r.stats.pending
                        /\ u.processing = r.stats.processing - 1
                        /\ u.completed + u.failed
                              = r.stats.completed + r.stats.failed + 1
  <2>1. /\ s.pending = r.stats.pending /\ t.pending = r.stats.pending
        /\ s.processing = r.stats.processing - 1
        /\ t.processing = r.stats.processing - 1
        /\ s.completed = r.stats.completed + 1 /\ s.failed = r.stats.failed
        /\ t.completed = r.stats.completed /\ t.failed = r.stats.failed + 1
    BY <1>1 DEF Counters
  <2>2. r.stats.completed \in Int /\ r.stats.failed \in Int
    BY <1>1 DEF Counters
  <2> HIDE DEF s, t
  <2>3. QED BY <2>1, <2>2
<1>3. /\ AfterCompleted(r) = [r EXCEPT !.stats = s]
      /\ AfterFailed(r) = [r EXCEPT !.stats = t]
  BY DEF AfterCompleted, AfterFailed, Queues, Counters
<1> HIDE DEF s, t
<1>4. QED BY <1>1, <1>2, <1>3 DEF Queues

\* PushOne: the queue is full and the message refused, or it gains an entry.
LEMMA PushEffect ==
    ASSUME TypeOK, NEW c \in Clients, PushOne(c)
    PROVE  LET m == Head(call[c].todo)
               q == call[c].q
           IN  /\ call[c].op = "push" /\ call[c].todo # <<>>
               /\ call[c].todo \in Seq(Msgs) /\ m \in Msgs /\ q \in 1..Len(queues)
               /\ queues[q] \in Queues
               /\ call' = [call EXCEPT ![c].todo = Tail(@)]
               /\ UNCHANGED <<table, origin, settledAt>>
               /\ clock' \in Nat /\ priority' \in [Msgs -> Priorities]
               /\ \/ queues' = queues /\ fate' = [fate EXCEPT ![m] = "refused"]
                  \/ \E i \in Items(Msgs) :
                        /\ ~ FullAt(Cardinality(queues[q].items), queues[q].limit)
                        /\ i.msg = m
                        /\ queues' = [queues EXCEPT ![q] = AfterPush(queues[q], i)]
                        /\ fate' = [fate EXCEPT ![m] = "queued"]
<1> DEFINE m == Head(call[c].todo)
           q == call[c].q
           p == applyPriorityRules(m, priority[m])
           i == QueueItem(m, p, clock)
<1>1. /\ call[c].op = "push" /\ call[c].todo # <<>> /\ call[c].todo \in Seq(Msgs)
      /\ q \in 1..Len(queues)
  BY DEF PushOne, TypeOK, CallOK, Calls
<1>2. m \in Msgs
  BY <1>1, TailOf
<1>3. queues[q] \in Queues
  BY <1>1, Positions
<1>4. p \in Priorities
  BY <1>2, RulesType DEF TypeOK
<1>5. i \in Items(Msgs) /\ i.msg = m
  BY <1>2, <1>4 DEF QueueItem, Items, TypeOK
<1>6. /\ call' = [call EXCEPT ![c].todo = Tail(@)]
      /\ UNCHANGED <<table, origin, settledAt>>
      /\ priority' = [priority EXCEPT ![m] = p]
      /\ IF FullAt(Cardinality(queues[q].items), queues[q].limit)
         THEN fate' = [fate EXCEPT ![m] = "refused"] /\ UNCHANGED <<queues, clock>>
         ELSE /\ queues' = [queues EXCEPT ![q].items = @ \cup {i},
                                          ![q].stats.pending = @ + 1]
              /\ clock' = clock + 1
              /\ fate' = [fate EXCEPT ![m] = "queued"]
  BY DEF PushOne
<1> HIDE DEF m, q, p, i
<1>7. ASSUME queues' = [queues EXCEPT ![q].items = @ \cup {i},
                                      ![q].stats.pending = @ + 1]
      PROVE  queues' = [queues EXCEPT ![q] = AfterPush(queues[q], i)]
  BY <1>1, <1>3, <1>7, LenProperties DEF AfterPush, TypeOK, Queues, Counters
<1>8. clock' \in Nat /\ priority' \in [Msgs -> Priorities]
  BY <1>2, <1>4, <1>6 DEF TypeOK
<1>9. QED BY <1>1, <1>2, <1>3, <1>5, <1>6, <1>7, <1>8 DEF m, q

\* PopOne: the queue loses an entry to the result.
LEMMA PopEffect ==
    ASSUME TypeOK, NEW c \in Clients, PopOne(c)
    PROVE  LET q == call[c].q
           IN  /\ call[c].op = "pop" /\ q \in 1..Len(queues) /\ queues[q] \in Queues
               /\ call[c].todo \in Seq(Msgs)
               /\ UNCHANGED <<table, clock, priority, settledAt>>
               /\ \E i \in queues[q].items :
                     /\ i.msg \in Msgs
                     /\ queues' = [queues EXCEPT ![q] = AfterPop(queues[q], i)]
                     /\ call' = [call EXCEPT ![c].todo = Append(@, i.msg)]
                     /\ origin' = [origin EXCEPT ![i.msg] = q]
                     /\ fate' = [fate EXCEPT ![i.msg] = "popped"]
<1> DEFINE q == call[c].q
<1>1. /\ call[c].op = "pop" /\ call[c].todo \in Seq(Msgs) /\ q \in 1..Len(queues)
  BY DEF PopOne, TypeOK, CallOK, Calls
<1>2. queues[q] \in Queues
  BY <1>1, Positions
<1>3. PICK i \in Heads(queues[q].items) :
         /\ queues' = [queues EXCEPT ![q].items = @ \ {i},
                                     ![q].stats.pending = @ - 1,
                                     ![q].stats.processing = @ + 1]
         /\ call' = [call EXCEPT ![c].todo = Append(@, i.msg)]
         /\ origin' = [origin EXCEPT ![i.msg] = q]
         /\ fate' = [fate EXCEPT ![i.msg] = "popped"]
  BY DEF PopOne
<1>4. i \in queues[q].items /\ i.msg \in Msgs
  BY <1>2, <1>3 DEF Heads, Queues, Items
<1> HIDE DEF q
<1>5. queues' = [queues EXCEPT ![q] = AfterPop(queues[q], i)]
  BY <1>1, <1>2, <1>3, LenProperties DEF AfterPop, TypeOK, Queues, Counters
<1>6. UNCHANGED <<table, clock, priority, settledAt>>
  BY DEF PopOne
<1>7. QED BY <1>1, <1>2, <1>3, <1>4, <1>5, <1>6 DEF q

\* Settle: the incarnation found counts one end.
LEMMA SettleEffect ==
    ASSUME TypeOK, NEW c \in Clients, Settle(c)
    PROVE  LET m == Head(call[c].todo)
               q == call[c].q
           IN  /\ call[c].op = "settle" /\ q \in 1..Len(queues) /\ queues[q] \in Queues
               /\ \E a \in {AfterCompleted(queues[q]), AfterFailed(queues[q])} :
                     queues' = [queues EXCEPT ![q] = a]
               /\ settledAt' = [settledAt EXCEPT ![m] = q]
               /\ fate' = [fate EXCEPT ![m] = "settled"]
               /\ call' = [call EXCEPT ![c].q = 0, ![c].todo = Tail(@)]
               /\ UNCHANGED <<table, clock, priority, origin>>
<1> DEFINE m == Head(call[c].todo)
           q == call[c].q
<1>1. call[c].op = "settle" /\ q \in 1..Len(queues)
  BY LenProperties DEF Settle, TypeOK, CallOK, Calls
<1>2. queues[q] \in Queues
  BY <1>1, Positions
<1>3. /\ \/ queues' = [queues EXCEPT ![q].stats.processing = @ - 1,
                                     ![q].stats.completed = @ + 1]
         \/ queues' = [queues EXCEPT ![q].stats.processing = @ - 1,
                                     ![q].stats.failed = @ + 1]
      /\ settledAt' = [settledAt EXCEPT ![m] = q]
      /\ fate' = [fate EXCEPT ![m] = "settled"]
      /\ call' = [call EXCEPT ![c].q = 0, ![c].todo = Tail(@)]
      /\ UNCHANGED <<table, clock, priority, origin>>
  BY DEF Settle
<1> HIDE DEF m, q
<1>4. \/ queues' = [queues EXCEPT ![q] = AfterCompleted(queues[q])]
      \/ queues' = [queues EXCEPT ![q] = AfterFailed(queues[q])]
  BY <1>1, <1>2, <1>3, LenProperties
     DEF AfterCompleted, AfterFailed, TypeOK, Queues, Counters
<1>5. QED BY <1>1, <1>2, <1>3, <1>4 DEF m, q

\* CreateQueue: one more incarnation, with no entries and no history.
LEMMA CreateEffect ==
    ASSUME TypeOK, NEW n \in Names, NEW s \in Sizes, CreateQueue(n, s)
    PROVE  \E r \in Queues :
              /\ r.items = {} /\ r.stats = NoStats /\ r.name = n
              /\ queues' = Append(queues, r) /\ queues' \in Seq(Queues)
              /\ Len(queues') = Len(queues) + 1
              /\ Incarnations' = 1..(Len(queues) + 1)
              /\ queues'[Len(queues) + 1] = r
              /\ \A k \in 1..Len(queues) : queues'[k] = queues[k]
<1> DEFINE r == [name |-> n, items |-> {}, stats |-> NoStats,
                 limit |-> IF s <= 0 THEN DefaultMaxSize ELSE s]
<1>1. NoStats \in Counters
  BY DEF NoStats, Counters
<1>2. (IF s <= 0 THEN DefaultMaxSize ELSE s) \in Nat
  BY SizesType
<1>3. r \in Queues
  BY <1>1, <1>2 DEF Queues
<1>4. queues' = Append(queues, r) /\ r.items = {} /\ r.stats = NoStats /\ r.name = n
  BY DEF CreateQueue
<1> HIDE DEF r
<1>5. /\ queues' \in Seq(Queues) /\ Len(queues') = Len(queues) + 1
      /\ queues'[Len(queues) + 1] = r
      /\ \A k \in 1..Len(queues) : queues'[k] = queues[k]
  BY <1>3, <1>4, AppendProperties DEF TypeOK
<1>6. Incarnations' = 1..(Len(queues) + 1)
  BY <1>5, LenProperties DEF Incarnations
<1>7. QED BY <1>3, <1>4, <1>5, <1>6

-----------------------------------------------------------------------------
(* Type correctness. *)

\* Fields of the record of a call that goes on.
LEMMA CallFields ==
    ASSUME NEW r \in Calls, NEW s \in Seq(Msgs)
    PROVE  /\ [r EXCEPT !.todo = s] \in Calls
           /\ [r EXCEPT !.todo = s].op = r.op /\ [r EXCEPT !.todo = s].q = r.q
           /\ [r EXCEPT !.todo = s].todo = s
           /\ [r EXCEPT !.q = 0, !.todo = s] \in Calls
           /\ [r EXCEPT !.q = 0, !.todo = s].op = r.op
           /\ [r EXCEPT !.q = 0, !.todo = s].q = 0
           /\ [r EXCEPT !.q = 0, !.todo = s].todo = s
BY DEF Calls

\* The record of a call after a step of it.
LEMMA CallType ==
    ASSUME TypeOK, NEW c \in Clients, NEW r \in Calls, CallOK(r, Len(queues)),
           call' = [call EXCEPT ![c] = r], Len(queues') = Len(queues)
    PROVE  call' \in [Clients -> Calls]
           /\ \A d \in Clients : CallOK(call'[d], Len(queues'))
BY DEF TypeOK

\* No call is a call.
LEMMA IdleType == \A n : Idle \in Calls /\ CallOK(Idle, n) /\ Idle.todo = <<>>
BY DEF Idle, Calls, CallOK

\* Every action keeps the types.
LEMMA StepTypeOK == TypeOK /\ OriginKnown /\ [Next]_vars => TypeOK'
<1> SUFFICES ASSUME TypeOK, OriginKnown, [Next]_vars PROVE TypeOK'
  OBVIOUS
<1>0. Len(queues) \in Nat
  BY Positions
<1>1. ASSUME NEW n \in Names, NEW s \in Sizes, CreateQueue(n, s) PROVE TypeOK'
  <2>1. queues' \in Seq(Queues) /\ Len(queues') = Len(queues) + 1
    BY <1>1, CreateEffect
  <2>2. \A k \in 0..Len(queues) : k \in 0..Len(queues')
    BY <1>0, <2>1
  <2>3. Len(queues) + 1 \in 0..Len(queues')
    BY <1>0, <2>1
  <2>4. table' \in [Names -> 0..Len(queues')]
    BY <1>1, <2>2, <2>3 DEF CreateQueue, TypeOK
  <2>5. /\ origin' \in [Msgs -> 0..Len(queues')]
        /\ settledAt' \in [Msgs -> 0..Len(queues')]
    BY <1>1, <2>2 DEF CreateQueue, TypeOK
  <2>6. \A c \in Clients : CallOK(call'[c], Len(queues'))
    BY <1>0, <1>1, <2>1 DEF CreateQueue, TypeOK, CallOK
  <2>7. QED BY <1>1, <2>1, <2>4, <2>5, <2>6 DEF CreateQueue, TypeOK
<1>2. ASSUME NEW n \in Names, DeleteQueue(n) PROVE TypeOK'
  BY <1>0, <1>2 DEF DeleteQueue, TypeOK
<1>3. ASSUME NEW c \in Clients, NEW n \in Names, NEW k \in 1..BatchSize,
             PopLookup(c, n, k)
      PROVE  TypeOK'
  <2> DEFINE r == [op |-> "pop", q |-> table[n], count |-> k, todo |-> <<>>]
  <2>1. table[n] \in 1..Len(queues) /\ k \in Nat
    BY <1>0, <1>3, BoundsType DEF PopLookup, TypeOK
  <2>2. r \in Calls /\ CallOK(r, Len(queues))
    BY <1>0, <2>1 DEF Calls, CallOK
  <2>3. call' = [call EXCEPT ![c] = r] /\ UNCHANGED queues
    BY <1>3 DEF PopLookup
  <2> HIDE DEF r
  <2>4. QED BY <1>3, <2>2, <2>3, CallType DEF PopLookup, TypeOK
<1>4. ASSUME NEW c \in Clients, NEW n \in Names, NEW ms \in Batches,
             PushLookup(c, n, ms)
      PROVE  TypeOK'
  <2> DEFINE r == [op |-> "push", q |-> table[n], count |-> 0, todo |-> ms]
  <2>1. table[n] \in 1..Len(queues) /\ ms \in Seq(Msgs)
    <3>1. table[n] \in 1..Len(queues)
      BY <1>0, <1>4 DEF PushLookup, TypeOK
    <3>2. ms \in Seq(Msgs)
      <4>1. \A m, k \in Msgs : <<m>> \in Seq(Msgs) /\ <<m, k>> \in Seq(Msgs)
        OBVIOUS
      <4>2. (\E m \in Msgs : ms = <<m>>) \/ (\E m, k \in Msgs : ms = <<m, k>>)
        BY DEF Batches
      <4>3. QED BY <4>1, <4>2
    <3>3. QED BY <3>1, <3>2
  <2>2. r \in Calls /\ CallOK(r, Len(queues))
    BY <1>0, <2>1 DEF Calls, CallOK
  <2>3. call' = [call EXCEPT ![c] = r] /\ UNCHANGED queues
    BY <1>4 DEF PushLookup
  <2> HIDE DEF r
  <2>4. fate' \in [Msgs -> Fates]
    BY <1>4 DEF PushLookup, TypeOK, Fates
  <2>5. QED BY <1>4, <2>2, <2>3, <2>4, CallType DEF PushLookup, TypeOK
<1>5. ASSUME NEW c \in Clients, PushOne(c) PROVE TypeOK'
  <2> DEFINE m == Head(call[c].todo)
             q == call[c].q
             r == [call[c] EXCEPT !.todo = Tail(@)]
  <2>1. /\ call[c].todo \in Seq(Msgs) /\ call[c].todo # <<>> /\ m \in Msgs
        /\ q \in 1..Len(queues) /\ queues[q] \in Queues
        /\ call' = [call EXCEPT ![c] = r] /\ call[c].op = "push"
        /\ UNCHANGED <<table, origin, settledAt>>
        /\ clock' \in Nat /\ priority' \in [Msgs -> Priorities]
        /\ \/ queues' = queues /\ fate' = [fate EXCEPT ![m] = "refused"]
           \/ \E i \in Items(Msgs) :
                 /\ queues' = [queues EXCEPT ![q] = AfterPush(queues[q], i)]
                 /\ fate' = [fate EXCEPT ![m] = "queued"]
    BY <1>5, PushEffect
  <2>2. r \in Calls /\ CallOK(r, Len(queues))
    <3>1. Tail(call[c].todo) \in Seq(Msgs) /\ call[c] \in Calls
      BY <2>1, TailOf DEF TypeOK
    <3>2. QED BY <2>1, <3>1 DEF Calls, CallOK
  <2> HIDE DEF m, q, r
  <2>3. queues' \in Seq(Queues) /\ Len(queues') = Len(queues)
    BY <2>1, AfterPushFields, ChangeQueue DEF TypeOK
  <2>4. fate' \in [Msgs -> Fates]
    BY <2>1 DEF TypeOK, Fates
  <2>5. QED BY <2>1, <2>2, <2>3, <2>4, CallType DEF TypeOK
<1>6. ASSUME NEW c \in Clients, PopOne(c) PROVE TypeOK'
  <2> DEFINE q == call[c].q
  <2>1. /\ call[c].op = "pop" /\ call[c].todo \in Seq(Msgs)
        /\ q \in 1..Len(queues) /\ queues[q] \in Queues
        /\ UNCHANGED <<table, clock, priority, settledAt>>
    BY <1>6, PopEffect
  <2>2. PICK i \in queues[q].items :
           /\ i.msg \in Msgs
           /\ queues' = [queues EXCEPT ![q] = AfterPop(queues[q], i)]
           /\ call' = [call EXCEPT ![c].todo = Append(@, i.msg)]
           /\ origin' = [origin EXCEPT ![i.msg] = q]
           /\ fate' = [fate EXCEPT ![i.msg] = "popped"]
    BY <1>6, PopEffect
  <2> DEFINE r == [call[c] EXCEPT !.todo = Append(@, i.msg)]
  <2>3. r \in Calls /\ CallOK(r, Len(queues)) /\ call' = [call EXCEPT ![c] = r]
    BY <2>1, <2>2, AppendProperties DEF TypeOK, Calls, CallOK
  <2> HIDE DEF q, r
  <2>4. queues' \in Seq(Queues) /\ Len(queues') = Len(queues)
    BY <2>1, <2>2, AfterPopFields, ChangeQueue
  <2>5. fate' \in [Msgs -> Fates] /\ origin' \in [Msgs -> 0..Len(queues')]
    BY <1>0, <2>1, <2>2, <2>4 DEF TypeOK, Fates
  <2>6. QED BY <2>1, <2>3, <2>4, <2>5, CallType DEF TypeOK
<1>7. ASSUME NEW c \in Clients, PopReturns(c) PROVE TypeOK'
  <2> DEFINE r == [call[c] EXCEPT !.op = "settle", !.q = 0]
  <2>1. r \in Calls /\ CallOK(r, Len(queues)) /\ call' = [call EXCEPT ![c] = r]
    BY <1>0, <1>7 DEF PopReturns, TypeOK, Calls, CallOK
  <2> HIDE DEF r
  <2>2. QED BY <1>7, <2>1, CallType DEF PopReturns, TypeOK
<1>8. ASSUME NEW c \in Clients, SettleLookup(c) PROVE TypeOK'
  <2> DEFINE m == Head(call[c].todo)
             k == table[queues[origin[m]].name]
  <2>1. /\ call[c] \in Calls /\ call[c].todo \in Seq(Msgs) /\ call[c].todo # <<>>
        /\ m \in Msgs /\ call[c].op = "settle" /\ call[c].q = 0
    BY <1>8, TailOf DEF SettleLookup, TypeOK, Calls
  <2>2. CASE k = 0
    <3> DEFINE r == [call[c] EXCEPT !.todo = Tail(@)]
    <3>1. r \in Calls /\ CallOK(r, Len(queues))
      <4>1. Tail(call[c].todo) \in Seq(Msgs)
        BY <2>1, TailOf
      <4>2. /\ r \in Calls /\ r.op = "settle" /\ r.q = 0
        BY <2>1, <4>1, CallFields
      <4> HIDE DEF r
      <4>3. QED BY <1>0, <4>2 DEF CallOK
    <3>2. call' = [call EXCEPT ![c] = r] /\ fate' = [fate EXCEPT ![m] = "uncounted"]
      BY <1>8, <2>2 DEF SettleLookup
    <3> HIDE DEF r
    <3>3. fate' \in [Msgs -> Fates]
      BY <3>2 DEF TypeOK, Fates
    <3>4. QED BY <1>8, <3>1, <3>2, <3>3, CallType DEF SettleLookup, TypeOK
  <2>3. CASE k # 0
    <3> DEFINE r == [call[c] EXCEPT !.q = k]
    <3>1. call' = [call EXCEPT ![c] = r] /\ UNCHANGED fate
      BY <1>8, <2>3 DEF SettleLookup
    <3>2. k \in 0..Len(queues)
      <4>1. call[c].todo[1] = m /\ 1 \in 1..Len(call[c].todo)
        BY <2>1, TailOf
      <4>2. origin[m] \in 1..Len(queues)
        BY <1>0, <2>1, <4>1 DEF TypeOK, OriginKnown
      <4>3. queues[origin[m]].name \in Names
        BY <4>2, Positions DEF Queues
      <4>4. QED BY <4>3 DEF TypeOK
    <3>3. r \in Calls /\ CallOK(r, Len(queues))
      <4>1. k \in Nat
        BY <1>0, <3>2
      <4> HIDE DEF k
      <4>2. QED BY <2>1, <3>2, <4>1 DEF Calls, CallOK
    <3> HIDE DEF r
    <3>4. QED BY <1>8, <3>1, <3>3, CallType DEF SettleLookup, TypeOK
  <2>4. QED BY <2>2, <2>3
<1>9. ASSUME NEW c \in Clients, Settle(c) PROVE TypeOK'
  <2> DEFINE m == Head(call[c].todo)
             q == call[c].q
             r == [call[c] EXCEPT !.q = 0, !.todo = Tail(@)]
  <2>1. /\ call[c].op = "settle" /\ q \in 1..Len(queues) /\ queues[q] \in Queues
        /\ \E a \in {AfterCompleted(queues[q]), AfterFailed(queues[q])} :
              queues' = [queues EXCEPT ![q] = a]
        /\ settledAt' = [settledAt EXCEPT ![m] = q]
        /\ fate' = [fate EXCEPT ![m] = "settled"]
        /\ call' = [call EXCEPT ![c] = r]
        /\ UNCHANGED <<table, clock, priority, origin>>
    BY <1>9, SettleEffect
  <2>2. call[c].todo # <<>> /\ call[c].todo \in Seq(Msgs) /\ call[c] \in Calls
    BY <1>0, <2>1 DEF TypeOK, CallOK, Calls
  <2>3. r \in Calls /\ CallOK(r, Len(queues))
    <3>1. Tail(call[c].todo) \in Seq(Msgs)
      BY <2>2, TailOf
    <3>2. r.op = "settle" /\ r.q = 0 /\ r \in Calls
      BY <2>1, <2>2, <3>1, CallFields
    <3>3. QED BY <1>0, <3>2 DEF CallOK
  <2> HIDE DEF q, r
  <2>4. queues' \in Seq(Queues) /\ Len(queues') = Len(queues)
    BY <2>1, AfterSettledFields, ChangeQueue
  <2>5. fate' \in [Msgs -> Fates] /\ settledAt' \in [Msgs -> 0..Len(queues')]
    <3>1. q \in 0..Len(queues)
      BY <1>0, <2>1
    <3> HIDE DEF m
    <3>2. QED BY <2>1, <2>4, <3>1 DEF TypeOK, Fates
  <2>6. UNCHANGED <<table, clock, priority, origin>>
    BY <2>1
  <2>7. QED BY <2>1, <2>3, <2>4, <2>5, <2>6, CallType DEF TypeOK
<1>10. ASSUME NEW c \in Clients, Return(c) PROVE TypeOK'
  BY <1>10, IdleType, CallType DEF Return, TypeOK
<1>11. ASSUME UNCHANGED vars PROVE TypeOK'
  BY <1>11 DEF vars, TypeOK
<1>12. QED
  BY <1>1, <1>2, <1>3, <1>4, <1>5, <1>6, <1>7, <1>8, <1>9, <1>10, <1>11
     DEF Next, ClientStep

\* The messages in a client's hands after a step that takes the first, or adds
\* one at the end.
LEMMA OriginTail ==
    ASSUME TypeOK, OriginKnown, NEW c \in Clients, call[c].todo # <<>>,
           call'[c].todo = Tail(call[c].todo), call'[c].op = call[c].op,
           \A d \in Clients \ {c} : call'[d] = call[d], origin' = origin
    PROVE  OriginKnown'
<1>1. \A p \in 1..Len(Tail(call[c].todo)) :
          /\ p + 1 \in 1..Len(call[c].todo)
          /\ Tail(call[c].todo)[p] = call[c].todo[p + 1]
  BY TailOf DEF TypeOK, Calls
<1>2. call[c].op \in {"pop", "settle"} =>
         \A p \in 1..Len(call'[c].todo) : origin[call'[c].todo[p]] # 0
  BY <1>1 DEF OriginKnown
<1>3. SUFFICES ASSUME NEW d \in Clients, call'[d].op \in {"pop", "settle"},
                      NEW p \in 1..Len(call'[d].todo)
               PROVE  origin'[call'[d].todo[p]] # 0
  BY DEF OriginKnown
<1>4. CASE d = c
  BY <1>2, <1>3, <1>4
<1>5. CASE d # c
  BY <1>3, <1>5 DEF OriginKnown
<1>6. QED BY <1>4, <1>5

\* Every action keeps the origins known.
LEMMA StepOriginKnown == TypeOK /\ OriginKnown /\ [Next]_vars => OriginKnown'
<1> SUFFICES ASSUME TypeOK, OriginKnown, [Next]_vars PROVE OriginKnown'
  OBVIOUS
<1>1. ASSUME NEW n \in Names,
             DeleteQueue(n) \/ \E s \in Sizes : CreateQueue(n, s)
      PROVE  OriginKnown'
  BY <1>1 DEF CreateQueue, DeleteQueue, OriginKnown
<1>2. ASSUME NEW c \in Clients, NEW n \in Names, NEW k \in 1..BatchSize,
             PopLookup(c, n, k)
      PROVE  OriginKnown'
  BY <1>2 DEF PopLookup, OriginKnown, TypeOK
<1>3. ASSUME NEW c \in Clients, NEW n \in Names, NEW ms \in Batches,
             PushLookup(c, n, ms)
      PROVE  OriginKnown'
  BY <1>3 DEF PushLookup, OriginKnown, TypeOK
<1>4. ASSUME NEW c \in Clients, PushOne(c) PROVE OriginKnown'
  <2>1. call[c] \in Calls
    BY DEF TypeOK
  <2>2. QED BY <1>4, <2>1, OriginTail DEF PushOne, TypeOK, Calls
<1>5. ASSUME NEW c \in Clients, PopOne(c) PROVE OriginKnown'
  <2>1. PICK m \in Msgs : call' = [call EXCEPT ![c].todo = Append(@, m)]
                          /\ origin' = [origin EXCEPT ![m] = call[c].q]
    BY <1>5, PopEffect
  <2>2. call[c].op = "pop" /\ call[c].q # 0 /\ call[c] \in Calls
    BY <1>5, Positions DEF PopOne, TypeOK, CallOK
  <2>3. /\ call'[c].todo = Append(call[c].todo, m)
        /\ \A d \in Clients \ {c} : call'[d] = call[d]
        /\ \A k \in Msgs : origin[k] # 0 => origin'[k] # 0
        /\ origin'[m] # 0
    BY <2>1, <2>2 DEF TypeOK, Calls
  <2>4. \A p \in 1..Len(call'[c].todo) : call'[c].todo[p] = m
            \/ (p \in 1..Len(call[c].todo) /\ call'[c].todo[p] = call[c].todo[p])
    BY <2>2, <2>3, AppendProperties, LenProperties DEF Calls
  <2>5. \A d \in Clients : \A p \in 1..Len(call[d].todo) : call[d].todo[p] \in Msgs
    BY LenProperties DEF TypeOK, Calls
  <2>6. \A p \in 1..Len(call'[c].todo) : origin'[call'[c].todo[p]] # 0
    BY <2>2, <2>3, <2>4, <2>5 DEF OriginKnown
  <2>7. \A d \in Clients \ {c} : call[d].op \in {"pop", "settle"} =>
           \A p \in 1..Len(call[d].todo) : origin'[call[d].todo[p]] # 0
    BY <2>3, <2>5 DEF OriginKnown
  <2>8. QED BY <2>3, <2>6, <2>7 DEF OriginKnown
<1>6. ASSUME NEW c \in Clients, PopReturns(c) PROVE OriginKnown'
  <2>1. call[c] \in Calls
    BY DEF TypeOK
  <2>2. /\ call[c].op = "pop" /\ call'[c].todo = call[c].todo
        /\ \A d \in Clients \ {c} : call'[d] = call[d]
        /\ origin' = origin
    BY <1>6, <2>1 DEF PopReturns, TypeOK, Calls
  <2>3. QED BY <2>2 DEF OriginKnown
<1>7. ASSUME NEW c \in Clients, SettleLookup(c) PROVE OriginKnown'
  <2>1. call[c] \in Calls /\ origin' = origin
    BY <1>7 DEF TypeOK, SettleLookup
  <2>2. CASE call' = [call EXCEPT ![c].todo = Tail(@)]
    <3>1. /\ call[c].todo # <<>> /\ call'[c] = [call[c] EXCEPT !.todo = Tail(@)]
          /\ \A d \in Clients \ {c} : call'[d] = call[d]
      BY <1>7, <2>2 DEF SettleLookup, TypeOK
    <3>2. call'[c].todo = Tail(call[c].todo) /\ call'[c].op = call[c].op
      BY <2>1, <3>1 DEF Calls
    <3>3. QED BY <2>1, <3>1, <3>2, OriginTail
  <2>3. CASE \E k : call' = [call EXCEPT ![c].q = k]
    <3>1. PICK k : call' = [call EXCEPT ![c].q = k]
      BY <2>3
    <3>2. \A d \in Clients : call'[d].op = call[d].op /\ call'[d].todo = call[d].todo
      BY <2>1, <3>1 DEF TypeOK, Calls
    <3>3. QED BY <2>1, <3>2 DEF OriginKnown
  <2>4. QED BY <1>7, <2>2, <2>3 DEF SettleLookup
<1>8. ASSUME NEW c \in Clients, Settle(c) PROVE OriginKnown'
  <2>1. call[c] \in Calls /\ call[c].todo # <<>>
    BY <1>8 DEF TypeOK, CallOK, Settle
  <2>2. QED BY <1>8, <2>1, OriginTail DEF TypeOK, Calls, Settle
<1>9. ASSUME NEW c \in Clients, Return(c) PROVE OriginKnown'
  BY <1>9 DEF Return, OriginKnown, TypeOK, Idle
<1>10. ASSUME UNCHANGED vars PROVE OriginKnown'
  BY <1>10 DEF vars, OriginKnown
<1>11. QED
  BY <1>1, <1>2, <1>3, <1>4, <1>5, <1>6, <1>7, <1>8, <1>9, <1>10
     DEF Next, ClientStep

\* The manager starts well typed.
LEMMA InitTypeOK == Init => TypeOK
<1> SUFFICES ASSUME Init PROVE TypeOK
  OBVIOUS
<1>1. queues \in Seq(Queues) /\ Len(queues) = 0
  BY EmptySeq DEF Init
<1>2. call \in [Clients -> Calls] /\ \A c \in Clients : CallOK(call[c], Len(queues))
  BY IdleType DEF Init
<1>3. fate \in [Msgs -> Fates]
  BY DEF Init, Fates
<1>4. QED BY <1>1, <1>2, <1>3, SubmittedType DEF Init, TypeOK

(* The variables keep their types: a call always works on an incarnation   *)
(* that exists, and every message keeps one of the four priorities.        *)
THEOREM TypeCorrect == Spec => []TypeOK
<1>1. TypeOK /\ OriginKnown /\ [Next]_vars => (TypeOK /\ OriginKnown)'
  BY StepTypeOK, StepOriginKnown
<1>2. Init => TypeOK /\ OriginKnown
  BY InitTypeOK DEF Init, OriginKnown, Idle
<1>3. QED BY <1>1, <1>2, PTL DEF Spec

-----------------------------------------------------------------------------
(* Entries.  A message is queued in one incarnation, or it is in the hands *)
(* of one client, which is about to push it or has popped it, or neither.  *)

HeldInv ==
    /\ \A m \in Msgs : fate[m] = "queued" <=>
          \E k \in Incarnations : \E i \in queues[k].items : i.msg = m
    /\ \A k, l \in Incarnations : \A i \in queues[k].items, j \in queues[l].items :
          i.msg = j.msg => k = l /\ i = j

\* What a client has in hand says what has happened to it; no two clients have
\* the same message, and none has it twice.
TodoInv ==
    /\ \A c \in Clients : \A p \in 1..Len(call[c].todo) :
          fate[call[c].todo[p]] = IF call[c].op = "push" THEN "pushing" ELSE "popped"
    /\ \A c, d \in Clients :
          \A p \in 1..Len(call[c].todo), q \in 1..Len(call[d].todo) :
             call[c].todo[p] = call[d].todo[q] => c = d /\ p = q

\* The messages in hand are messages.
LEMMA TodoType ==
    ASSUME TypeOK
    PROVE  \A c \in Clients : /\ call[c].todo \in Seq(Msgs)
                              /\ Len(call[c].todo) \in Nat
                              /\ \A p \in 1..Len(call[c].todo) : call[c].todo[p] \in Msgs
BY LenProperties DEF TypeOK, Calls

\* HeldInv is the property.
LEMMA HeldInvMeaning == TypeOK /\ HeldInv => OneIncarnation
<1> SUFFICES ASSUME TypeOK, HeldInv PROVE OneIncarnation
  OBVIOUS
<1>1. ASSUME NEW m \in Msgs
      PROVE  Cardinality({k \in Incarnations : m \in HeldIn(k)})
                = IF fate[m] = "queued" THEN 1 ELSE 0
  <2> DEFINE S == {k \in Incarnations : m \in HeldIn(k)}
  <2>1. \A k \in Incarnations :
           m \in HeldIn(k) <=> \E i \in queues[k].items : i.msg = m
    BY DEF HeldIn
  <2>2. CASE fate[m] = "queued"
    <3>1. PICK k \in Incarnations : \E i \in queues[k].items : i.msg = m
      BY <2>2 DEF HeldInv
    <3>2. S = {k}
      BY <2>1, <3>1 DEF HeldInv
    <3>3. QED BY <2>2, <3>2, FS_Singleton
  <2>3. CASE fate[m] # "queued"
    <3>1. S = {}
      BY <2>1, <2>3 DEF HeldInv
    <3>2. QED BY <2>3, <3>1, FS_EmptySet
  <2>4. QED BY <2>2, <2>3
<1>2. \A k \in Incarnations : \A i, j \in queues[k].items : i.msg = j.msg => i = j
  BY DEF HeldInv
<1>3. QED BY <1>1, <1>2 DEF OneIncarnation

\* Where no entry comes or goes.
LEMMA HeldSame ==
    ASSUME HeldInv, Incarnations \subseteq Incarnations',
           \A k \in Incarnations : queues'[k].items = queues[k].items,
           \A k \in Incarnations' \ Incarnations : queues'[k].items = {},
           \A m \in Msgs : fate'[m] = "queued" <=> fate[m] = "queued"
    PROVE  HeldInv'
<1>1. \A k \in Incarnations' : \A i \in queues'[k].items :
         k \in Incarnations /\ i \in queues[k].items
  OBVIOUS
<1>2. \A m \in Msgs : fate'[m] = "queued" <=>
         \E k \in Incarnations' : \E i \in queues'[k].items : i.msg = m
  BY <1>1 DEF HeldInv
<1>3. \A k, l \in Incarnations' : \A i \in queues'[k].items, j \in queues'[l].items :
         i.msg = j.msg => k = l /\ i = j
  BY <1>1 DEF HeldInv
<1>4. QED BY <1>2, <1>3 DEF HeldInv

\* A message that no incarnation has gets an entry.
LEMMA HeldPush ==
    ASSUME TypeOK, HeldInv, NEW q \in 1..Len(queues), NEW i \in Items(Msgs),
           queues' = [queues EXCEPT ![q] = AfterPush(queues[q], i)],
           fate[i.msg] # "queued", fate' = [fate EXCEPT ![i.msg] = "queued"]
    PROVE  HeldInv'
<1>1. i.msg \in Msgs /\ queues[q] \in Queues
  BY Positions DEF Items
<1>2. /\ Incarnations' = Incarnations /\ Incarnations = 1..Len(queues)
      /\ queues'[q].items = queues[q].items \cup {i}
      /\ \A k \in Incarnations : k # q => queues'[k] = queues[k]
  <2> DEFINE a == AfterPush(queues[q], i)
  <2>1. a \in Queues /\ a.items = queues[q].items \cup {i}
    BY <1>1, AfterPushFields
  <2> HIDE DEF a
  <2>2. queues' = [queues EXCEPT ![q] = a]
    BY DEF a
  <2>3. QED BY <2>1, <2>2, ChangeQueue, Positions
<1>3. \A k \in Incarnations : \A j \in queues[k].items : j.msg # i.msg
  BY <1>1 DEF HeldInv
<1>4. \A k \in Incarnations : \A j \in queues'[k].items :
         j \in queues[k].items \/ (k = q /\ j = i)
  BY <1>2
<1>5. \A k \in Incarnations : queues[k].items \subseteq queues'[k].items
  BY <1>2
<1>6. \A m \in Msgs : fate'[m] = "queued" <=> m = i.msg \/ fate[m] = "queued"
  BY <1>1 DEF TypeOK
<1>7. ASSUME NEW m \in Msgs
      PROVE  fate'[m] = "queued" <=>
                \E k \in Incarnations' : \E j \in queues'[k].items : j.msg = m
  <2>1. CASE m = i.msg
    BY <1>2, <1>6, <2>1
  <2>2. CASE m # i.msg
    <3>1. (\E k \in Incarnations : \E j \in queues'[k].items : j.msg = m) <=>
             \E k \in Incarnations : \E j \in queues[k].items : j.msg = m
      BY <1>4, <1>5, <2>2
    <3>2. QED BY <1>2, <1>6, <2>2, <3>1 DEF HeldInv
  <2>3. QED BY <2>1, <2>2
<1>8. \A k, l \in Incarnations' : \A a \in queues'[k].items, b \in queues'[l].items :
         a.msg = b.msg => k = l /\ a = b
  BY <1>2, <1>3, <1>4 DEF HeldInv
<1>9. QED BY <1>7, <1>8 DEF HeldInv

\* An entry is taken out.
LEMMA HeldPop ==
    ASSUME TypeOK, HeldInv, NEW q \in 1..Len(queues), NEW i \in queues[q].items,
           queues' = [queues EXCEPT ![q] = AfterPop(queues[q], i)],
           fate' = [fate EXCEPT ![i.msg] = "popped"]
    PROVE  HeldInv' /\ fate[i.msg] = "queued"
<1>1. queues[q] \in Queues /\ i.msg \in Msgs
  BY Positions DEF Queues, Items
<1>2. /\ Incarnations' = Incarnations /\ Incarnations = 1..Len(queues)
      /\ queues'[q].items = queues[q].items \ {i}
      /\ \A k \in Incarnations : k # q => queues'[k] = queues[k]
  <2> DEFINE a == AfterPop(queues[q], i)
  <2>1. a \in Queues /\ a.items = queues[q].items \ {i}
    BY <1>1, AfterPopFields
  <2> HIDE DEF a
  <2>2. queues' = [queues EXCEPT ![q] = a]
    BY DEF a
  <2>3. QED BY <2>1, <2>2, ChangeQueue, Positions
<1>3. \A k \in Incarnations : \A j \in queues[k].items :
         (j.msg = i.msg => k = q /\ j = i) /\ (j.msg # i.msg => j \in queues'[k].items)
  BY <1>2 DEF HeldInv
<1>4. \A k \in Incarnations : \A j \in queues'[k].items :
         j \in queues[k].items /\ j.msg # i.msg
  BY <1>2, <1>3
<1>5. \A m \in Msgs : fate'[m] = "queued" <=> m # i.msg /\ fate[m] = "queued"
  BY <1>1 DEF TypeOK
<1>6. \A m \in Msgs : fate'[m] = "queued" <=>
         \E k \in Incarnations' : \E j \in queues'[k].items : j.msg = m
  BY <1>2, <1>3, <1>4, <1>5 DEF HeldInv
<1>7. \A k, l \in Incarnations' : \A a \in queues'[k].items, b \in queues'[l].items :
         a.msg = b.msg => k = l /\ a = b
  BY <1>2, <1>4 DEF HeldInv
<1>8. fate[i.msg] = "queued"
  BY <1>1, <1>2 DEF HeldInv
<1>9. QED BY <1>6, <1>7, <1>8 DEF HeldInv

\* A client has dealt with the first of its messages.
LEMMA TodoTail ==
    ASSUME TypeOK, TodoInv, NEW c \in Clients, call[c].todo # <<>>,
           call'[c].todo = Tail(call[c].todo), call'[c].op = call[c].op,
           \A d \in Clients \ {c} : call'[d] = call[d],
           \A m \in Msgs : m # Head(call[c].todo) => fate'[m] = fate[m]
    PROVE  TodoInv'
<1>0. Len(call'[c].todo) \in Nat
  BY TailOf, TodoType, LenProperties
<1>1. \A p \in 1..Len(call'[c].todo) : p + 1 \in 1..Len(call[c].todo)
         /\ call'[c].todo[p] = call[c].todo[p + 1]
  BY TailOf, TodoType
<1>2. Head(call[c].todo) = call[c].todo[1] /\ 1 \in 1..Len(call[c].todo)
  BY TailOf, TodoType
\* The position that a message in hand had before.
<1> DEFINE was(d, p) == IF d = c THEN p + 1 ELSE p
<1>3. ASSUME NEW d \in Clients, NEW p \in 1..Len(call'[d].todo)
      PROVE  /\ was(d, p) \in 1..Len(call[d].todo)
             /\ call'[d].todo[p] = call[d].todo[was(d, p)]
             /\ call'[d].op = call[d].op
             /\ call'[d].todo[p] # Head(call[c].todo)
  <2>1. CASE d = c
    <3>0. p \in 1..Len(call'[c].todo)
      BY <2>1
    <3>1. p + 1 # 1 /\ p + 1 \in 1..Len(call[c].todo)
      <4> DEFINE n == Len(call'[c].todo)
      <4>1. p \in 1..n /\ n \in Nat
        BY <1>0, <3>0
      <4> HIDE DEF n
      <4>2. p + 1 # 1
        BY <4>1
      <4>3. QED BY <1>1, <3>0, <4>2
    <3>2. call[c].todo[p + 1] # call[c].todo[1]
      BY <1>2, <3>1 DEF TodoInv
    <3>3. QED BY <1>1, <1>2, <2>1, <3>2
  <2>2. CASE d # c
    BY <1>2, <2>2 DEF TodoInv
  <2>3. QED BY <2>1, <2>2
<1>4. \A d \in Clients, e \in Clients : \A p \in 1..Len(call'[d].todo),
         q \in 1..Len(call'[e].todo) : d = e /\ was(d, p) = was(e, q) => p = q
  <2>1. \A d \in Clients, p, q \in Int : was(d, p) = was(d, q) => p = q
    OBVIOUS
  <2>2. QED BY <2>1
<1> HIDE DEF was
<1>5. ASSUME NEW d \in Clients, NEW p \in 1..Len(call'[d].todo)
      PROVE  fate'[call'[d].todo[p]]
                = IF call'[d].op = "push" THEN "pushing" ELSE "popped"
  <2>1. call[d].todo[was(d, p)] \in Msgs
    BY <1>3, TodoType
  <2>2. fate'[call'[d].todo[p]] = fate[call[d].todo[was(d, p)]]
    BY <1>3, <2>1
  <2>3. QED BY <1>3, <2>2 DEF TodoInv
<1>6. ASSUME NEW d \in Clients, NEW e \in Clients, NEW p \in 1..Len(call'[d].todo),
             NEW q \in 1..Len(call'[e].todo), call'[d].todo[p] = call'[e].todo[q]
      PROVE  d = e /\ p = q
  <2> DEFINE x == was(d, p)
             y == was(e, q)
  <2>1. x \in 1..Len(call[d].todo) /\ y \in 1..Len(call[e].todo)
    BY <1>3
  <2>2. call[d].todo[x] = call[e].todo[y]
    BY <1>3, <1>6
  <2> HIDE DEF x, y
  <2>3. d = e /\ x = y
    BY <2>1, <2>2 DEF TodoInv
  <2>4. d = e /\ was(d, p) = was(e, q)
    BY <2>3 DEF x, y
  <2>5. QED BY <1>4, <2>4
<1>7. QED BY <1>5, <1>6 DEF TodoInv

\* A client keeps what it has in hand.
LEMMA TodoSame ==
    ASSUME TypeOK, TodoInv,
           \A d \in Clients : \/ call'[d].todo = <<>>
                              \/ /\ call'[d].todo = call[d].todo
                                 /\ call'[d].op = "push" <=> call[d].op = "push",
           \A m \in Msgs : fate'[m] = fate[m]
    PROVE  TodoInv'
<1>1. ASSUME NEW d \in Clients, NEW p \in 1..Len(call'[d].todo)
      PROVE  /\ p \in 1..Len(call[d].todo) /\ call'[d].todo[p] = call[d].todo[p]
             /\ call'[d].op = "push" <=> call[d].op = "push"
             /\ call[d].todo[p] \in Msgs
  <2>1. CASE call'[d].todo = <<>>
    BY <1>1, <2>1
  <2>2. CASE call'[d].todo # <<>>
    BY <2>2, TodoType
  <2>3. QED BY <2>1, <2>2
<1>2. QED BY <1>1 DEF TodoInv

\* An action that leaves the incarnations alone leaves the entries alone.
LEMMA QueuesSame ==
    ASSUME HeldInv, queues' = queues,
           \A m \in Msgs : fate'[m] = "queued" <=> fate[m] = "queued"
    PROVE  HeldInv'
BY HeldSame DEF Incarnations

\* Every action keeps every message in one place.
LEMMA StepEntries ==
    TypeOK /\ HeldInv /\ TodoInv /\ [Next]_vars => (HeldInv /\ TodoInv)'
<1> SUFFICES ASSUME TypeOK, HeldInv, TodoInv, [Next]_vars PROVE HeldInv' /\ TodoInv'
  OBVIOUS
<1>1. ASSUME NEW n \in Names, NEW s \in Sizes, CreateQueue(n, s)
      PROVE  HeldInv' /\ TodoInv'
  <2>1. fate' = fate /\ call' = call
    BY <1>1 DEF CreateQueue
  <2>2. /\ Incarnations = 1..Len(queues) /\ Len(queues) \in Nat
        /\ Incarnations' = 1..(Len(queues) + 1)
        /\ queues'[Len(queues) + 1].items = {}
        /\ \A k \in 1..Len(queues) : queues'[k] = queues[k]
    BY <1>1, CreateEffect, Positions
  <2>3. \A k \in Incarnations' \ Incarnations : queues'[k].items = {}
    BY <2>2
  <2>4. HeldInv'
    BY <2>1, <2>2, <2>3, HeldSame
  <2>5. QED BY <2>1, <2>4, TodoSame
<1>2. ASSUME NEW n \in Names, DeleteQueue(n) PROVE HeldInv' /\ TodoInv'
  BY <1>2, QueuesSame, TodoSame DEF DeleteQueue
<1>3. ASSUME NEW c \in Clients, NEW n \in Names, NEW k \in 1..BatchSize,
             PopLookup(c, n, k)
      PROVE  HeldInv' /\ TodoInv'
  <2>1. fate' = fate /\ queues' = queues
    BY <1>3 DEF PopLookup
  <2>2. call'[c].todo = <<>> /\ \A d \in Clients \ {c} : call'[d] = call[d]
    BY <1>3 DEF PopLookup, TypeOK
  <2>3. QED BY <2>1, <2>2, QueuesSame, TodoSame
<1>4. ASSUME NEW c \in Clients, NEW n \in Names, NEW ms \in Batches,
             IsInjective(ms), PushLookup(c, n, ms)
      PROVE  HeldInv' /\ TodoInv'
  <2>1. /\ queues' = queues
        /\ call'[c].todo = ms /\ call'[c].op = "push"
        /\ \A d \in Clients \ {c} : call'[d] = call[d]
        /\ \A m \in Range(ms) : fate[m] = "new"
        /\ \A m \in Msgs : fate'[m] = IF m \in Range(ms) THEN "pushing" ELSE fate[m]
    BY <1>4 DEF PushLookup, TypeOK
  <2>2. HeldInv'
    BY <2>1, QueuesSame
  <2>3. /\ \A p \in 1..Len(ms) : ms[p] \in Range(ms) /\ ms[p] \in Msgs
        /\ \A p, q \in 1..Len(ms) : ms[p] = ms[q] => p = q
    <3>1. (\E m \in Msgs : ms = <<m>>) \/ (\E m, k \in Msgs : ms = <<m, k>>)
      BY <1>4 DEF Batches
    <3>2. ms \in Seq(Msgs)
      <4>1. \A m, k \in Msgs : <<m>> \in Seq(Msgs) /\ <<m, k>> \in Seq(Msgs)
        OBVIOUS
      <4>2. QED BY <3>1, <4>1
    <3>3. DOMAIN ms = 1..Len(ms) /\ \A p \in 1..Len(ms) : ms[p] \in Msgs
      BY <3>2, LenProperties
    <3>4. QED BY <1>4, <3>3 DEF IsInjective, Range
  <2>4. \A d \in Clients \ {c} : \A p \in 1..Len(call'[d].todo) :
           /\ call'[d].todo[p] \notin Range(ms) /\ call'[d].todo[p] \in Msgs
           /\ call'[d] = call[d]
    BY <2>1, TodoType DEF TodoInv
  <2>5. ASSUME NEW d \in Clients, NEW p \in 1..Len(call'[d].todo)
        PROVE  fate'[call'[d].todo[p]]
                  = IF call'[d].op = "push" THEN "pushing" ELSE "popped"
    <3>1. CASE d = c
      BY <2>1, <2>3, <3>1
    <3>2. CASE d # c
      BY <2>1, <2>4, <3>2 DEF TodoInv
    <3>3. QED BY <3>1, <3>2
  <2>6. ASSUME NEW d \in Clients, NEW e \in Clients,
               NEW p \in 1..Len(call'[d].todo), NEW q \in 1..Len(call'[e].todo),
               call'[d].todo[p] = call'[e].todo[q]
        PROVE  d = e /\ p = q
    <3>1. CASE d = c /\ e = c
      BY <2>1, <2>3, <2>6, <3>1
    <3>2. CASE (d = c) # (e = c)
      BY <2>1, <2>3, <2>4, <2>6, <3>2
    <3>3. CASE d # c /\ e # c
      <4>1. call'[d] = call[d] /\ call'[e] = call[e]
        BY <2>1, <3>3
      <4>2. /\ p \in 1..Len(call[d].todo) /\ q \in 1..Len(call[e].todo)
            /\ call[d].todo[p] = call[e].todo[q]
        BY <2>6, <4>1
      <4>3. QED BY <4>2 DEF TodoInv
    <3>4. QED BY <3>1, <3>2, <3>3
  <2>7. TodoInv'
    BY <2>5, <2>6 DEF TodoInv
  <2>8. QED BY <2>2, <2>7
<1>5. ASSUME NEW c \in Clients, PushOne(c) PROVE HeldInv' /\ TodoInv'
  <2> DEFINE m == Head(call[c].todo)
  <2>1. /\ call[c].op = "push" /\ call[c].todo # <<>> /\ m \in Msgs
        /\ call' = [call EXCEPT ![c].todo = Tail(@)]
        /\ call[c].q \in 1..Len(queues)
    BY <1>5, PushEffect
  <2>2. m = call[c].todo[1] /\ 1 \in 1..Len(call[c].todo) /\ call[c] \in Calls
    BY <2>1, TailOf, TodoType DEF TypeOK
  <2>3. fate[m] = "pushing"
    BY <2>1, <2>2 DEF TodoInv
  <2>4. /\ call'[c].todo = Tail(call[c].todo) /\ call'[c].op = call[c].op
        /\ \A d \in Clients \ {c} : call'[d] = call[d]
    BY <2>1, <2>2 DEF TypeOK, Calls
  <2>5. CASE queues' = queues /\ fate' = [fate EXCEPT ![m] = "refused"]
    <3>1. \A k \in Msgs : k # m => fate'[k] = fate[k]
      BY <2>5 DEF TypeOK
    <3>2. \A k \in Msgs : fate'[k] = "queued" <=> fate[k] = "queued"
      BY <2>1, <2>3, <2>5 DEF TypeOK
    <3>3. QED BY <2>1, <2>4, <2>5, <3>1, <3>2, QueuesSame, TodoTail
  <2>6. CASE \E i \in Items(Msgs) :
                /\ i.msg = m
                /\ queues' = [queues EXCEPT
                      ![call[c].q] = AfterPush(queues[call[c].q], i)]
                /\ fate' = [fate EXCEPT ![m] = "queued"]
    <3>1. \A k \in Msgs : k # m => fate'[k] = fate[k]
      BY <2>6 DEF TypeOK
    <3>2. TodoInv'
      BY <2>1, <2>4, <3>1, TodoTail
    <3> HIDE DEF m
    <3>3. HeldInv'
      BY <2>1, <2>3, <2>6, HeldPush
    <3>4. QED BY <3>2, <3>3
  <2>7. QED BY <1>5, <2>5, <2>6, PushEffect
<1>6. ASSUME NEW c \in Clients, PopOne(c) PROVE HeldInv' /\ TodoInv'
  <2> DEFINE q == call[c].q
  <2>1. /\ call[c].op = "pop" /\ q \in 1..Len(queues) /\ call[c].todo \in Seq(Msgs)
        /\ call[c] \in Calls
    BY <1>6, PopEffect DEF TypeOK
  <2>2. PICK i \in queues[q].items :
           /\ i.msg \in Msgs
           /\ queues' = [queues EXCEPT ![q] = AfterPop(queues[q], i)]
           /\ call' = [call EXCEPT ![c].todo = Append(@, i.msg)]
           /\ fate' = [fate EXCEPT ![i.msg] = "popped"]
    BY <1>6, PopEffect
  <2> HIDE DEF q
  <2>3. HeldInv' /\ fate[i.msg] = "queued"
    BY <2>1, <2>2, HeldPop
  <2>4. /\ call'[c].todo = Append(call[c].todo, i.msg) /\ call'[c].op = "pop"
        /\ \A d \in Clients \ {c} : call'[d] = call[d]
    BY <2>1, <2>2 DEF TypeOK, Calls
  <2> DEFINE n == Len(call[c].todo)
  <2>5. /\ n \in Nat /\ Len(call'[c].todo) = n + 1
        /\ call'[c].todo[n + 1] = i.msg
        /\ \A p \in 1..n : call'[c].todo[p] = call[c].todo[p]
    BY <2>1, <2>2, <2>4, AppendProperties, LenProperties
  <2> HIDE DEF n
  <2>6. ASSUME NEW d \in Clients, NEW p \in 1..Len(call'[d].todo)
        PROVE  /\ call'[d].op = call[d].op
               /\ \/ d = c /\ p = n + 1 /\ call'[d].todo[p] = i.msg
                  \/ /\ p \in 1..Len(call[d].todo)
                     /\ call'[d].todo[p] = call[d].todo[p]
                     /\ call[d].todo[p] \in Msgs
                     /\ call[d].todo[p] # i.msg
    <3>1. \A k \in 1..Len(call[d].todo) :
             call[d].todo[k] \in Msgs /\ call[d].todo[k] # i.msg
      BY <2>3, TodoType DEF TodoInv
    <3>2. CASE d = c
      <4>1. p = n + 1 \/ p \in 1..n
        BY <2>5, <3>2
      <4>2. QED BY <2>1, <2>4, <2>5, <3>1, <3>2, <4>1 DEF n
    <3>3. CASE d # c
      BY <2>4, <3>1, <3>3
    <3>4. QED BY <3>2, <3>3
  <2>7. ASSUME NEW d \in Clients, NEW p \in 1..Len(call'[d].todo)
        PROVE  fate'[call'[d].todo[p]]
                  = IF call'[d].op = "push" THEN "pushing" ELSE "popped"
    <3>1. CASE d = c /\ p = n + 1 /\ call'[d].todo[p] = i.msg
      BY <2>2, <2>4, <3>1 DEF TypeOK
    <3>2. CASE /\ p \in 1..Len(call[d].todo)
               /\ call'[d].todo[p] = call[d].todo[p]
               /\ call[d].todo[p] \in Msgs
               /\ call[d].todo[p] # i.msg
      <4>1. fate'[call[d].todo[p]] = fate[call[d].todo[p]]
        BY <2>2, <3>2 DEF TypeOK
      <4>2. QED BY <2>6, <3>2, <4>1 DEF TodoInv
    <3>3. QED BY <2>6, <3>1, <3>2
  <2>8. ASSUME NEW d \in Clients, NEW e \in Clients,
               NEW p \in 1..Len(call'[d].todo), NEW k \in 1..Len(call'[e].todo),
               call'[d].todo[p] = call'[e].todo[k]
        PROVE  d = e /\ p = k
    BY <2>6, <2>8 DEF TodoInv
  <2>9. TodoInv'
    BY <2>7, <2>8 DEF TodoInv
  <2>10. QED BY <2>3, <2>9
<1>7. ASSUME NEW c \in Clients, PopReturns(c) PROVE HeldInv' /\ TodoInv'
  <2>1. call[c] \in Calls /\ fate' = fate /\ queues' = queues
    BY <1>7 DEF TypeOK, PopReturns
  <2>2. /\ call'[c].todo = call[c].todo /\ call'[c].op = "settle" /\ call[c].op = "pop"
        /\ \A d \in Clients \ {c} : call'[d] = call[d]
    BY <1>7, <2>1 DEF PopReturns, TypeOK, Calls
  <2>3. QED BY <2>1, <2>2, QueuesSame, TodoSame
<1>8. ASSUME NEW c \in Clients, SettleLookup(c) PROVE HeldInv' /\ TodoInv'
  <2> DEFINE m == Head(call[c].todo)
  <2>1. /\ call[c] \in Calls /\ queues' = queues /\ call[c].todo # <<>>
        /\ call[c].op = "settle"
    BY <1>8 DEF TypeOK, SettleLookup
  <2>2. m = call[c].todo[1] /\ 1 \in 1..Len(call[c].todo) /\ m \in Msgs
    BY <2>1, TailOf, TodoType
  <2>3. fate[m] = "popped"
    BY <2>1, <2>2 DEF TodoInv
  <2>4. CASE /\ call' = [call EXCEPT ![c].todo = Tail(@)]
             /\ fate' = [fate EXCEPT ![m] = "uncounted"]
    <3>1. /\ call'[c].todo = Tail(call[c].todo) /\ call'[c].op = call[c].op
          /\ \A d \in Clients \ {c} : call'[d] = call[d]
      BY <2>1, <2>4 DEF TypeOK, Calls
    <3>2. \A k \in Msgs : k # m => fate'[k] = fate[k]
      BY <2>4 DEF TypeOK
    <3>3. \A k \in Msgs : fate'[k] = "queued" <=> fate[k] = "queued"
      BY <2>2, <2>3, <2>4 DEF TypeOK
    <3>4. QED BY <2>1, <3>1, <3>2, <3>3, QueuesSame, TodoTail
  <2>5. CASE fate' = fate /\ \E k : call' = [call EXCEPT ![c].q = k]
    <3>1. \A d \in Clients : call'[d].todo = call[d].todo /\ call'[d].op = call[d].op
      BY <2>1, <2>5 DEF TypeOK, Calls
    <3>2. QED BY <2>1, <2>5, <3>1, QueuesSame, TodoSame
  <2>6. QED BY <1>8, <2>4, <2>5 DEF SettleLookup
<1>9. ASSUME NEW c \in Clients, Settle(c) PROVE HeldInv' /\ TodoInv'
  <2> DEFINE m == Head(call[c].todo)
             q == call[c].q
  <2>1. /\ call[c].op = "settle" /\ q \in 1..Len(queues) /\ queues[q] \in Queues
        /\ fate' = [fate EXCEPT ![m] = "settled"]
        /\ call' = [call EXCEPT ![c].q = 0, ![c].todo = Tail(@)]
        /\ \E a \in {AfterCompleted(queues[q]), AfterFailed(queues[q])} :
              queues' = [queues EXCEPT ![q] = a]
    BY <1>9, SettleEffect
  <2>2. call[c] \in Calls /\ call[c].todo # <<>>
    BY <1>9 DEF TypeOK, CallOK, Settle
  <2>3. m = call[c].todo[1] /\ 1 \in 1..Len(call[c].todo) /\ m \in Msgs
    BY <2>2, TailOf, TodoType
  <2>4. fate[m] = "popped"
    BY <2>1, <2>3 DEF TodoInv
  <2>5. /\ call'[c].todo = Tail(call[c].todo) /\ call'[c].op = call[c].op
        /\ \A d \in Clients \ {c} : call'[d] = call[d]
    BY <2>1, <2>2 DEF TypeOK, Calls
  <2>6. \A k \in Msgs : k # m => fate'[k] = fate[k]
    BY <2>1 DEF TypeOK
  <2>7. \A k \in Msgs : fate'[k] = "queued" <=> fate[k] = "queued"
    BY <2>1, <2>3, <2>4 DEF TypeOK
  <2> HIDE DEF m, q
  <2>8. /\ Incarnations' = Incarnations
        /\ \A k \in Incarnations : queues'[k].items = queues[k].items
    <3>1. PICK a \in {AfterCompleted(queues[q]), AfterFailed(queues[q])} :
             queues' = [queues EXCEPT ![q] = a]
      BY <2>1
    <3>2. a \in Queues /\ a.items = queues[q].items
      BY <2>1, <3>1, AfterSettledFields
    <3>3. QED BY <2>1, <3>1, <3>2, ChangeQueue, Positions
  <2>9. HeldInv'
    BY <2>7, <2>8, HeldSame
  <2>10. TodoInv'
    BY <2>2, <2>5, <2>6, TodoTail DEF m
  <2>11. QED BY <2>9, <2>10
<1>10. ASSUME NEW c \in Clients, Return(c) PROVE HeldInv' /\ TodoInv'
  <2>1. fate' = fate /\ queues' = queues
    BY <1>10 DEF Return
  <2>2. call'[c].todo = <<>> /\ \A d \in Clients \ {c} : call'[d] = call[d]
    BY <1>10, IdleType DEF Return, TypeOK
  <2>3. QED BY <2>1, <2>2, QueuesSame, TodoSame
<1>11. ASSUME UNCHANGED vars PROVE HeldInv' /\ TodoInv'
  BY <1>11, QueuesSame, TodoSame DEF vars
<1>12. QED
  BY <1>1, <1>2, <1>3, <1>4, <1>5, <1>6, <1>7, <1>8, <1>9, <1>10, <1>11
     DEF Next, ClientStep

\* At the start there are no incarnations and nobody has a message in hand.
LEMMA InitEntries == Init => HeldInv /\ TodoInv
<1> SUFFICES ASSUME Init PROVE HeldInv /\ TodoInv
  OBVIOUS
<1>1. Incarnations = {}
  BY DEF Init, Incarnations
<1>2. HeldInv
  BY <1>1 DEF Init, HeldInv
<1>3. TodoInv
  BY IdleType DEF Init, TodoInv
<1>4. QED BY <1>2, <1>3

\* What the theorems below share.
EntryInv == TypeOK /\ OriginKnown /\ HeldInv /\ TodoInv

LEMMA InitEntryInv == Init => EntryInv
BY InitTypeOK, InitEntries DEF Init, EntryInv, OriginKnown, Idle

LEMMA StepEntryInv == EntryInv /\ [Next]_vars => EntryInv'
BY StepTypeOK, StepOriginKnown, StepEntries DEF EntryInv

(* A message is in at most one incarnation, and in one exactly while it is *)
(* queued: clients that found different incarnations under one name do not *)
(* push, pop or lose a message twice, for any number of them.              *)
THEOREM OneIncarnationOnly == Spec => []OneIncarnation
<1>1. EntryInv => OneIncarnation
  BY HeldInvMeaning DEF EntryInv
<1>2. QED BY <1>1, InitEntryInv, StepEntryInv, PTL DEF Spec

-----------------------------------------------------------------------------
(* Accounts.  Each message is recorded at most once at the incarnation it  *)
(* was popped from, and at most once at the one that counted its end.      *)

RecordedAt(f, k) == Cardinality({m \in Msgs : f[m] = k})

\* An incarnation r that served that many pops and counted that many ends.
Balanced(r, pops, ends) ==
    /\ IsFiniteSet(r.items)
    /\ r.stats.pending = Cardinality(r.items)
    /\ r.stats.completed + r.stats.failed = ends
    /\ r.stats.processing = pops - ends
    /\ r.limit > 0 => Cardinality(r.items) <= r.limit

AccountInv ==
    /\ \A k \in 1..Len(queues) :
          Balanced(queues[k], RecordedAt(origin, k), RecordedAt(settledAt, k))
    /\ \A m \in Msgs : fate[m] \in {"new", "pushing", "refused", "queued"}
                          => origin[m] = 0
    /\ \A m \in Msgs : fate[m] # "settled" => settledAt[m] = 0

\* AccountInv is both properties.
LEMMA AccountInvMeaning ==
    TypeOK /\ AccountInv => InstanceAccounting /\ LimitsHold
BY Positions DEF AccountInv, Balanced, RecordedAt, InstanceAccounting, LimitsHold

\* A message that was not recorded is recorded at q.
LEMMA Recorded ==
    ASSUME NEW f \in [Msgs -> Nat], NEW m \in Msgs, f[m] = 0,
           NEW q \in Nat \ {0}, NEW k \in Nat \ {0},
           NEW g, \A x \in Msgs : g[x] = IF x = m THEN q ELSE f[x]
    PROVE  /\ RecordedAt(f, k) \in Nat
           /\ RecordedAt(g, k)
                 = IF k = q THEN RecordedAt(f, k) + 1 ELSE RecordedAt(f, k)
<1> DEFINE S == {x \in Msgs : f[x] = k}
           T == {x \in Msgs : g[x] = k}
<1>1. IsFiniteSet(S) /\ Cardinality(S) \in Nat
  BY MsgsFinite, FS_Subset, FS_CardinalityType
<1>2. T = IF k = q THEN S \cup {m} ELSE S
  OBVIOUS
<1>3. m \notin S
  OBVIOUS
<1> HIDE DEF S, T
<1>4. Cardinality(T) = IF k = q THEN Cardinality(S) + 1 ELSE Cardinality(S)
  BY <1>1, <1>2, <1>3, FS_AddElement
<1>5. QED BY <1>1, <1>4 DEF S, T, RecordedAt

\* Numbers of records are numbers.
LEMMA RecordedType == \A f, k : RecordedAt(f, k) \in Nat
<1> SUFFICES ASSUME NEW f, NEW k PROVE RecordedAt(f, k) \in Nat
  OBVIOUS
<1>1. IsFiniteSet({m \in Msgs : f[m] = k})
  BY MsgsFinite, FS_Subset
<1>2. QED BY <1>1, FS_CardinalityType DEF RecordedAt

\* Where nothing is counted.
LEMMA AccountSame ==
    ASSUME TypeOK, AccountInv, queues' = queues, origin' = origin,
           settledAt' = settledAt,
           \A m \in Msgs : fate'[m] \in {"new", "pushing", "refused", "queued"}
              => fate[m] \in {"new", "pushing", "refused", "queued"},
           \A m \in Msgs : fate[m] = "settled" => fate'[m] = "settled"
    PROVE  AccountInv'
BY DEF AccountInv

\* Every action keeps the accounts.
LEMMA StepAccounts == EntryInv /\ AccountInv /\ [Next]_vars => AccountInv'
<1> SUFFICES ASSUME TypeOK, HeldInv, TodoInv, AccountInv, [Next]_vars
             PROVE  AccountInv'
  BY DEF EntryInv
<1>0. /\ Len(queues) \in Nat
      /\ \A k \in 1..Len(queues) : queues[k] \in Queues
  BY Positions
<1>1. ASSUME NEW n \in Names, NEW z \in Sizes, CreateQueue(n, z) PROVE AccountInv'
  <2>1. PICK r \in Queues :
           /\ r.items = {} /\ r.stats = NoStats
           /\ Len(queues') = Len(queues) + 1
           /\ queues'[Len(queues) + 1] = r
           /\ \A k \in 1..Len(queues) : queues'[k] = queues[k]
    BY <1>1, CreateEffect
  <2>2. fate' = fate /\ origin' = origin /\ settledAt' = settledAt
    BY <1>1 DEF CreateQueue
  <2>3. \A k \in 1..Len(queues) :
           Balanced(queues'[k], RecordedAt(origin', k), RecordedAt(settledAt', k))
    BY <2>1, <2>2 DEF AccountInv
  <2> DEFINE l == Len(queues) + 1
  <2>4. Balanced(queues'[l], RecordedAt(origin', l), RecordedAt(settledAt', l))
    <3>1. {m \in Msgs : origin[m] = l} = {} /\ {m \in Msgs : settledAt[m] = l} = {}
      BY <1>0 DEF TypeOK
    <3>2. RecordedAt(origin', l) = 0 /\ RecordedAt(settledAt', l) = 0
      BY <2>2, <3>1, FS_EmptySet DEF RecordedAt
    <3>3. r.limit \in Nat
      BY DEF Queues
    <3>4. /\ r.stats.pending = 0 /\ r.stats.processing = 0
          /\ r.stats.completed = 0 /\ r.stats.failed = 0
      BY <2>1 DEF NoStats
    <3>5. queues'[l] = r
      BY <2>1
    <3>6. r.items = {} /\ IsFiniteSet(r.items) /\ Cardinality(r.items) = 0
      BY <2>1, FS_EmptySet
    <3> HIDE DEF l
    <3>7. Balanced(r, 0, 0)
      BY <3>3, <3>4, <3>6 DEF Balanced
    <3>8. QED BY <3>2, <3>5, <3>7
  <2>5. \A k \in 1..Len(queues') : k \in 1..Len(queues) \/ k = l
    BY <1>0, <2>1
  <2>6. QED BY <2>2, <2>3, <2>4, <2>5 DEF AccountInv
<1>2. ASSUME NEW n \in Names, DeleteQueue(n) PROVE AccountInv'
  BY <1>2, AccountSame DEF DeleteQueue
<1>3. ASSUME NEW c \in Clients, NEW n \in Names, NEW k \in 1..BatchSize,
             PopLookup(c, n, k)
      PROVE  AccountInv'
  BY <1>3, AccountSame DEF PopLookup
<1>4. ASSUME NEW c \in Clients, NEW n \in Names, NEW ms \in Batches,
             PushLookup(c, n, ms)
      PROVE  AccountInv'
  <2>1. \A m \in Msgs : fate'[m] = fate[m] \/ (fate[m] = "new" /\ fate'[m] = "pushing")
    BY <1>4 DEF PushLookup
  <2>2. QED BY <1>4, <2>1, AccountSame DEF PushLookup
<1>5. ASSUME NEW c \in Clients, PushOne(c) PROVE AccountInv'
  <2> DEFINE m == Head(call[c].todo)
             q == call[c].q
  <2>1. /\ call[c].op = "push" /\ call[c].todo # <<>> /\ m \in Msgs
        /\ q \in 1..Len(queues) /\ queues[q] \in Queues
        /\ UNCHANGED <<table, origin, settledAt>>
    BY <1>5, PushEffect
  <2>2. m = call[c].todo[1] /\ 1 \in 1..Len(call[c].todo)
    BY <2>1, TailOf, TodoType
  <2>3. fate[m] = "pushing"
    BY <2>1, <2>2 DEF TodoInv
  <2>4. CASE queues' = queues /\ fate' = [fate EXCEPT ![m] = "refused"]
    <3>1. \A x \in Msgs : fate'[x] = fate[x] \/ (fate[x] = "pushing" /\ fate'[x] = "refused")
      BY <2>3, <2>4 DEF TypeOK
    <3>2. QED BY <2>1, <2>4, <3>1, AccountSame
  <2>5. CASE \E i \in Items(Msgs) :
                /\ ~ FullAt(Cardinality(queues[q].items), queues[q].limit)
                /\ i.msg = m
                /\ queues' = [queues EXCEPT ![q] = AfterPush(queues[q], i)]
                /\ fate' = [fate EXCEPT ![m] = "queued"]
    <3>1. PICK i \in Items(Msgs) :
                /\ ~ FullAt(Cardinality(queues[q].items), queues[q].limit)
                /\ i.msg = m
                /\ queues' = [queues EXCEPT ![q] = AfterPush(queues[q], i)]
                /\ fate' = [fate EXCEPT ![m] = "queued"]
      BY <2>5
    <3>2. i \notin queues[q].items
      BY <2>1, <2>3, <3>1, Positions DEF HeldInv
    <3>3. \A x \in Msgs : fate'[x] = fate[x] \/ (fate[x] = "pushing" /\ fate'[x] = "queued")
      BY <2>3, <3>1 DEF TypeOK
    <3> DEFINE a == AfterPush(queues[q], i)
    <3> HIDE DEF m, q
    <3>4. /\ a \in Queues /\ a.limit = queues[q].limit
          /\ a.items = queues[q].items \cup {i}
          /\ a.stats = [queues[q].stats EXCEPT !.pending = @ + 1]
      BY <2>1, AfterPushFields
    <3>5. /\ Len(queues') = Len(queues) /\ queues'[q] = a
          /\ \A k \in 1..Len(queues) : k # q => queues'[k] = queues[k]
      BY <2>1, <3>1, <3>4, ChangeQueue
    <3> HIDE DEF a
    <3>6. /\ a.stats.pending = queues[q].stats.pending + 1
          /\ a.stats.processing = queues[q].stats.processing
          /\ a.stats.completed = queues[q].stats.completed
          /\ a.stats.failed = queues[q].stats.failed
      BY <2>1, <3>4 DEF Queues, Counters
    <3>7. Balanced(queues[q], RecordedAt(origin, q), RecordedAt(settledAt, q))
      BY <2>1 DEF AccountInv
    <3>8. /\ IsFiniteSet(a.items)
          /\ Cardinality(a.items) = Cardinality(queues[q].items) + 1
          /\ Cardinality(queues[q].items) \in Nat
      BY <3>2, <3>4, <3>7, FS_AddElement, FS_CardinalityType DEF Balanced
    <3>9. a.limit > 0 => Cardinality(a.items) <= a.limit
      BY <2>1, <3>1, <3>4, <3>8 DEF FullAt, Queues
    <3>10. Balanced(queues'[q], RecordedAt(origin', q), RecordedAt(settledAt', q))
      BY <2>1, <3>5, <3>6, <3>7, <3>8, <3>9 DEF Balanced
    <3>11. \A k \in 1..Len(queues) : k # q =>
           Balanced(queues'[k], RecordedAt(origin', k), RecordedAt(settledAt', k))
      BY <2>1, <3>5 DEF AccountInv
    <3>12. QED BY <2>1, <3>3, <3>5, <3>10, <3>11 DEF AccountInv
  <2>6. QED BY <1>5, <2>4, <2>5, PushEffect
<1>6. ASSUME NEW c \in Clients, PopOne(c) PROVE AccountInv'
  <2> DEFINE q == call[c].q
  <2>1. /\ q \in 1..Len(queues) /\ queues[q] \in Queues
        /\ UNCHANGED <<table, clock, priority, settledAt>>
    BY <1>6, PopEffect
  <2>2. PICK i \in queues[q].items :
           /\ i.msg \in Msgs
           /\ queues' = [queues EXCEPT ![q] = AfterPop(queues[q], i)]
           /\ origin' = [origin EXCEPT ![i.msg] = q]
           /\ fate' = [fate EXCEPT ![i.msg] = "popped"]
    BY <1>6, PopEffect
  <2> HIDE DEF q
  <2>3. fate[i.msg] = "queued" /\ origin[i.msg] = 0
    BY <2>1, <2>2, HeldPop DEF AccountInv
  <2> DEFINE a == AfterPop(queues[q], i)
  <2>4. /\ a \in Queues /\ a.limit = queues[q].limit
        /\ a.items = queues[q].items \ {i}
        /\ a.stats = [queues[q].stats EXCEPT !.pending = @ - 1, !.processing = @ + 1]
    BY <2>1, <2>2, AfterPopFields
  <2>5. /\ Len(queues') = Len(queues) /\ queues'[q] = a
        /\ \A k \in 1..Len(queues) : k # q => queues'[k] = queues[k]
    BY <2>1, <2>2, <2>4, ChangeQueue
  <2> HIDE DEF a
  <2>6. /\ a.stats.pending = queues[q].stats.pending - 1
        /\ a.stats.processing = queues[q].stats.processing + 1
        /\ a.stats.completed = queues[q].stats.completed
        /\ a.stats.failed = queues[q].stats.failed
        /\ queues[q].limit \in Nat
    BY <2>1, <2>4 DEF Queues, Counters
  <2>7. Balanced(queues[q], RecordedAt(origin, q), RecordedAt(settledAt, q))
    BY <2>1 DEF AccountInv
  <2>8. /\ IsFiniteSet(a.items)
        /\ Cardinality(a.items) = Cardinality(queues[q].items) - 1
        /\ Cardinality(queues[q].items) \in Nat
    BY <2>2, <2>4, <2>7, FS_RemoveElement, FS_CardinalityType DEF Balanced
  <2>9. \A k \in 1..Len(queues) : RecordedAt(origin', k)
           = IF k = q THEN RecordedAt(origin, k) + 1 ELSE RecordedAt(origin, k)
    <3>1. /\ origin \in [Msgs -> Nat] /\ q \in Nat \ {0}
          /\ \A x \in Msgs : origin'[x] = IF x = i.msg THEN q ELSE origin[x]
      BY <1>0, <2>1, <2>2 DEF TypeOK
    <3> DEFINE m == i.msg
    <3> HIDE DEF m
    <3>2. ASSUME NEW k \in 1..Len(queues)
          PROVE  RecordedAt(origin', k)
                    = IF k = q THEN RecordedAt(origin, k) + 1 ELSE RecordedAt(origin, k)
      <4>1. k \in Nat \ {0}
        BY <1>0
      <4>2. /\ origin \in [Msgs -> Nat] /\ q \in Nat \ {0}
            /\ m \in Msgs /\ origin[m] = 0
            /\ \A x \in Msgs : origin'[x] = IF x = m THEN q ELSE origin[x]
        BY <2>2, <2>3, <3>1 DEF m
      <4>3. QED BY <4>1, <4>2, Recorded
    <3>3. QED BY <3>2
  <2>10. Balanced(queues'[q], RecordedAt(origin', q), RecordedAt(settledAt', q))
    <3>1. /\ RecordedAt(origin', q) = RecordedAt(origin, q) + 1
          /\ RecordedAt(settledAt', q) = RecordedAt(settledAt, q)
          /\ RecordedAt(origin, q) \in Nat /\ RecordedAt(settledAt, q) \in Nat
      BY <2>1, <2>9, RecordedType
    <3>2. /\ queues[q].stats.pending \in Int /\ queues[q].stats.processing \in Int
          /\ queues[q].stats.completed \in Int /\ queues[q].stats.failed \in Int
      BY <2>1 DEF Queues, Counters
    <3>3. /\ a.stats.pending = Cardinality(a.items)
          /\ a.stats.completed + a.stats.failed = RecordedAt(settledAt, q)
      BY <2>6, <2>7, <2>8 DEF Balanced
    <3>4. a.stats.processing = RecordedAt(origin', q) - RecordedAt(settledAt, q)
      BY <2>6, <2>7, <3>1, <3>2 DEF Balanced
    <3>5. a.limit > 0 => Cardinality(a.items) <= a.limit
      BY <2>4, <2>6, <2>7, <2>8 DEF Balanced
    <3>6. Balanced(a, RecordedAt(origin', q), RecordedAt(settledAt, q))
      BY <2>8, <3>3, <3>4, <3>5 DEF Balanced
    <3>7. QED BY <2>5, <3>1, <3>6
  <2>11. \A k \in 1..Len(queues) : k # q =>
           Balanced(queues'[k], RecordedAt(origin', k), RecordedAt(settledAt', k))
    BY <2>1, <2>5, <2>9 DEF AccountInv
  <2>12. \A x \in Msgs : x # i.msg => fate'[x] = fate[x] /\ origin'[x] = origin[x]
    BY <2>2 DEF TypeOK
  <2>13. fate'[i.msg] = "popped" /\ settledAt[i.msg] = 0
    BY <2>2, <2>3 DEF TypeOK, AccountInv
  <2>14. QED BY <2>1, <2>5, <2>10, <2>11, <2>12, <2>13 DEF AccountInv
<1>7. ASSUME NEW c \in Clients, PopReturns(c) PROVE AccountInv'
  BY <1>7, AccountSame DEF PopReturns
<1>8. ASSUME NEW c \in Clients, SettleLookup(c) PROVE AccountInv'
  <2> DEFINE m == Head(call[c].todo)
  <2>1. call[c].todo # <<>> /\ call[c].op = "settle"
    BY <1>8 DEF SettleLookup
  <2>2. m = call[c].todo[1] /\ 1 \in 1..Len(call[c].todo) /\ m \in Msgs
    BY <2>1, TailOf, TodoType
  <2>3. fate[m] = "popped"
    BY <2>1, <2>2 DEF TodoInv
  <2>4. fate' = fate \/ fate' = [fate EXCEPT ![m] = "uncounted"]
    BY <1>8 DEF SettleLookup
  <2>5. \A x \in Msgs : fate'[x] = fate[x] \/ (fate[x] = "popped" /\ fate'[x] = "uncounted")
    BY <2>3, <2>4 DEF TypeOK
  <2>6. QED BY <1>8, <2>5, AccountSame DEF SettleLookup
<1>9. ASSUME NEW c \in Clients, Settle(c) PROVE AccountInv'
  <2> DEFINE m == Head(call[c].todo)
             q == call[c].q
  <2>1. /\ call[c].op = "settle" /\ q \in 1..Len(queues) /\ queues[q] \in Queues
        /\ fate' = [fate EXCEPT ![m] = "settled"]
        /\ settledAt' = [settledAt EXCEPT ![m] = q]
        /\ UNCHANGED <<table, clock, priority, origin>>
    BY <1>9, SettleEffect
  <2>2. PICK a \in {AfterCompleted(queues[q]), AfterFailed(queues[q])} :
           queues' = [queues EXCEPT ![q] = a]
    BY <1>9, SettleEffect
  <2>3. call[c].todo # <<>>
    BY <1>9 DEF TypeOK, CallOK, Settle
  <2>4. m = call[c].todo[1] /\ 1 \in 1..Len(call[c].todo) /\ m \in Msgs
    BY <2>3, TailOf, TodoType
  <2>5. fate[m] = "popped"
    BY <2>1, <2>4 DEF TodoInv
  <2>6. settledAt[m] = 0
    BY <2>4, <2>5 DEF AccountInv
  <2> HIDE DEF m, q
  <2>7. /\ a \in Queues /\ a.limit = queues[q].limit
        /\ a.items = queues[q].items /\ a.stats.pending = queues[q].stats.pending
        /\ a.stats.processing = queues[q].stats.processing - 1
        /\ a.stats.completed + a.stats.failed
              = queues[q].stats.completed + queues[q].stats.failed + 1
    BY <2>1, <2>2, AfterSettledFields
  <2>8. /\ Len(queues') = Len(queues) /\ queues'[q] = a
        /\ \A k \in 1..Len(queues) : k # q => queues'[k] = queues[k]
    BY <2>1, <2>2, <2>7, ChangeQueue
  <2>9. Balanced(queues[q], RecordedAt(origin, q), RecordedAt(settledAt, q))
    BY <2>1 DEF AccountInv
  <2>10. \A k \in 1..Len(queues) : RecordedAt(settledAt', k)
           = IF k = q THEN RecordedAt(settledAt, k) + 1 ELSE RecordedAt(settledAt, k)
    <3>1. settledAt \in [Msgs -> Nat] /\ q \in Nat \ {0}
      BY <1>0, <2>1 DEF TypeOK
    <3>4. m \in Msgs /\ settledAt[m] = 0
      BY <2>4, <2>6
    <3>5. \A x \in Msgs : settledAt'[x] = IF x = m THEN q ELSE settledAt[x]
      BY <2>1, <3>1 DEF TypeOK
    <3>2. ASSUME NEW k \in 1..Len(queues)
          PROVE  RecordedAt(settledAt', k)
                    = IF k = q THEN RecordedAt(settledAt, k) + 1
                               ELSE RecordedAt(settledAt, k)
      <4>1. k \in Nat \ {0}
        BY <1>0
      <4>2. QED BY <3>1, <3>4, <3>5, <4>1, Recorded
    <3>3. QED BY <3>2
  <2>11. Balanced(queues'[q], RecordedAt(origin', q), RecordedAt(settledAt', q))
    <3>1. /\ RecordedAt(settledAt', q) = RecordedAt(settledAt, q) + 1
          /\ RecordedAt(origin', q) = RecordedAt(origin, q)
          /\ RecordedAt(origin, q) \in Nat /\ RecordedAt(settledAt, q) \in Nat
      BY <2>1, <2>10, RecordedType
    <3>2. QED BY <2>7, <2>8, <2>9, <3>1 DEF Balanced
  <2>12. \A k \in 1..Len(queues) : k # q =>
           Balanced(queues'[k], RecordedAt(origin', k), RecordedAt(settledAt', k))
    BY <2>1, <2>8, <2>10 DEF AccountInv
  <2>13. \A x \in Msgs : x # m => fate'[x] = fate[x] /\ settledAt'[x] = settledAt[x]
    BY <2>1 DEF TypeOK
  <2>14. fate'[m] = "settled"
    BY <2>1, <2>4 DEF TypeOK
  <2>15. QED BY <2>1, <2>8, <2>11, <2>12, <2>13, <2>14 DEF AccountInv
<1>10. ASSUME NEW c \in Clients, Return(c) PROVE AccountInv'
  BY <1>10, AccountSame DEF Return
<1>11. ASSUME UNCHANGED vars PROVE AccountInv'
  BY <1>11, AccountSame DEF vars
<1>12. QED
  BY <1>1, <1>2, <1>3, <1>4, <1>5, <1>6, <1>7, <1>8, <1>9, <1>10, <1>11
     DEF Next, ClientStep

\* EntryInv and AccountInv together are inductive.
LEMMA AccountsInductive ==
    /\ Init => EntryInv /\ AccountInv
    /\ EntryInv /\ AccountInv /\ [Next]_vars => (EntryInv /\ AccountInv)'
<1>1. Init => AccountInv
  BY EmptySeq DEF Init, AccountInv
<1>2. QED BY <1>1, InitEntryInv, StepEntryInv, StepAccounts

(* The limit of every incarnation holds, whichever clients push to it at   *)
(* the same time and whether or not it is still the one in the table.      *)
THEOREM NoIncarnationOverfull == Spec => []LimitsHold
<1>1. EntryInv /\ AccountInv => LimitsHold
  BY AccountInvMeaning DEF EntryInv
<1>2. QED BY <1>1, AccountsInductive, PTL DEF Spec

(* The statistics of every incarnation are the entries, pops and ends they *)
(* name; a pending count never drifts, and what the other counts miss is   *)
(* what was settled after a deletion.                                      *)
THEOREM AccountsBalance == Spec => []InstanceAccounting
<1>1. EntryInv /\ AccountInv => InstanceAccounting
  BY AccountInvMeaning DEF EntryInv
<1>2. QED BY <1>1, AccountsInductive, PTL DEF Spec

=============================================================================
