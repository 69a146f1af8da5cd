---------------------------- MODULE WorkerProofs ----------------------------
(***************************************************************************)
(* Proofs about Worker, for any finite set of messages and any set of      *)
(* workers, whatever the capacity, the batch size, the number of           *)
(* concurrent goroutines and the number of retries: where a message is,    *)
(* tokens and goroutines, retries, the refinement of MessageDelivery, and  *)
(* the statistics of the queue.                                            *)
(***************************************************************************)
EXTENDS Worker, FiniteSetTheorems, SequenceTheorems, TLAPS

-----------------------------------------------------------------------------
(* Facts about the operators the model is built from. *)

\* Appending to a popped batch adds one element to its range.
LEMMA AppendRange ==
    ASSUME NEW S, NEW s \in Seq(S), NEW e \in S
    PROVE  /\ Append(s, e) \in Seq(S)
           /\ Range(Append(s, e)) = Range(s) \cup {e}
           /\ IsInjective(s) /\ e \notin Range(s) => IsInjective(Append(s, e))
<1>1. /\ Append(s, e) \in Seq(S)
      /\ Len(Append(s, e)) = Len(s) + 1
      /\ \A k \in 1..Len(s) : Append(s, e)[k] = s[k]
      /\ Append(s, e)[Len(s) + 1] = e
      /\ DOMAIN s = 1..Len(s)
      /\ DOMAIN Append(s, e) = 1..(Len(s) + 1)
      /\ Len(s) \in Nat
  OBVIOUS
<1>2. Range(Append(s, e)) = Range(s) \cup {e}
  BY <1>1 DEF Range
<1>3. ASSUME IsInjective(s), e \notin Range(s) PROVE IsInjective(Append(s, e))
  BY <1>1, <1>3 DEF Range, IsInjective
<1>4. QED BY <1>1, <1>2, <1>3

\* Handing the first message of a batch to a goroutine takes it, and only it,
\* out of the batch.
LEMMA TailRange ==
    ASSUME NEW S, NEW s \in Seq(S), s # <<>>, IsInjective(s)
    PROVE  /\ Head(s) \in Range(s)
           /\ Head(s) \in S
           /\ Tail(s) \in Seq(S)
           /\ Range(Tail(s)) = Range(s) \ {Head(s)}
           /\ IsInjective(Tail(s))
<1>1. /\ Len(s) \in Nat /\ Len(s) > 0
      /\ DOMAIN s = 1..Len(s)
      /\ Head(s) = s[1]
      /\ Head(s) \in S
      /\ Tail(s) \in Seq(S)
      /\ Len(Tail(s)) = Len(s) - 1
      /\ DOMAIN Tail(s) = 1..(Len(s) - 1)
      /\ \A k \in 1..(Len(s) - 1) : Tail(s)[k] = s[k + 1]
  BY EmptySeq, HeadTailProperties
<1>2. Head(s) \in Range(s)
  BY <1>1 DEF Range
<1>3. \A k \in 1..(Len(s) - 1) : s[k + 1] # s[1]
  BY <1>1 DEF IsInjective
<1>4. Range(Tail(s)) \subseteq Range(s) \ {Head(s)}
  BY <1>1, <1>3 DEF Range
<1>5. ASSUME NEW x \in Range(s) \ {Head(s)} PROVE x \in Range(Tail(s))
  <2>1. PICK k \in 1..Len(s) : x = s[k]
    BY <1>1 DEF Range
  <2>2. k # 1 /\ k - 1 \in 1..(Len(s) - 1)
    BY <2>1, <1>1
  <2>3. x = Tail(s)[k - 1]
    BY <2>1, <2>2, <1>1
  <2>4. QED BY <2>2, <2>3, <1>1 DEF Range
<1>6. IsInjective(Tail(s))
  BY <1>1 DEF IsInjective
<1>7. QED BY <1>1, <1>2, <1>4, <1>5, <1>6

-----------------------------------------------------------------------------
(* Types. *)

\* The state Worker starts in is well typed.
LEMMA InitTypeOK == Init => TypeOK
BY RetriesNat DEF Init, TypeOK, Open, Settled, Phases, QueueStats

\* The ways the counters of QueueStats move.
LEMMA StatsUpdate ==
    ASSUME NEW s \in QueueStats
    PROVE  /\ [s EXCEPT !.pending = @ + 1] \in QueueStats
           /\ [s EXCEPT !.pending = @ - 1, !.processing = @ + 1] \in QueueStats
           /\ [s EXCEPT !.processing = @ - 1, !.completed = @ + 1] \in QueueStats
           /\ [s EXCEPT !.processing = @ - 1, !.failed = @ + 1] \in QueueStats
<1>1. ASSUME NEW x \in Int, NEW y \in Int
      PROVE  /\ [s EXCEPT !.pending = x] \in QueueStats
             /\ [s EXCEPT !.pending = x, !.processing = y] \in QueueStats
             /\ [s EXCEPT !.processing = x, !.completed = y] \in QueueStats
             /\ [s EXCEPT !.processing = x, !.failed = y] \in QueueStats
  BY DEF QueueStats
<1>2. /\ s.pending + 1 \in Int
      /\ s.pending - 1 \in Int /\ s.processing + 1 \in Int
      /\ s.processing - 1 \in Int /\ s.completed + 1 \in Int
      /\ s.failed + 1 \in Int
  BY DEF QueueStats
<1>3. QED BY <1>1, <1>2

\* updateMetrics adds one to a counter of one worker.
LEMMA MetricsUpdate ==
    ASSUME NEW f \in [Workers -> [success : Nat, failure : Nat]],
           NEW w \in Workers
    PROVE  /\ [f EXCEPT ![w].success = @ + 1]
                 \in [Workers -> [success : Nat, failure : Nat]]
           /\ [f EXCEPT ![w].failure = @ + 1]
                 \in [Workers -> [success : Nat, failure : Nat]]
OBVIOUS

\* A push that finds room keeps the queue, the clock and the statistics typed.
LEMMA EnqueueType ==
    ASSUME TypeOK, NEW m \in Msgs, Enqueue(m)
    PROVE  /\ queue' \subseteq Items(Msgs)
           /\ clock' \in Nat
           /\ stats' \in QueueStats
<1>1. stats' \in QueueStats
  BY StatsUpdate DEF TypeOK, Enqueue
<1>2. QueueItem(m, Priority[m], clock) \in Items(Msgs)
  BY PriorityType DEF TypeOK, Items, QueueItem
<1>3. QED BY <1>1, <1>2 DEF TypeOK, Enqueue

\* What the handlers' common end leaves of a goroutine and its counter is typed.
LEMMA LeaveType ==
    ASSUME TypeOK, NEW w \in Workers, NEW m \in Msgs, Leave(w, m)
    PROVE  /\ goroutine' \in [Workers -> [Msgs -> Phases]]
           /\ exiting' \in [Workers -> Nat]
           /\ UNCHANGED <<attempts, loop, stop, batch, semaphore, wg, metrics>>
BY DEF TypeOK, Leave, Phases

\* Every action keeps the types.
LEMMA StepTypeOK == TypeOK /\ [Next]_vars => TypeOK'
<1> SUFFICES ASSUME TypeOK, [Next]_vars PROVE TypeOK'
  OBVIOUS
<1> USE DEF TypeOK, msgVars, workerVars
<1>1. ASSUME NEW m \in Msgs, PushMessage(m) PROVE TypeOK'
  BY <1>1, EnqueueType DEF PushMessage, Open, Settled
<1>2. ASSUME NEW w \in Workers, Start(w) PROVE TypeOK'
  <2>1. wg' \in [Workers -> Int]
    BY <1>2 DEF Start
  <2>2. QED BY <1>2, <2>1 DEF Start
<1>3. ASSUME NEW w \in Workers, Tick(w) PROVE TypeOK'
  BY <1>3 DEF Tick
<1>4. ASSUME NEW w \in Workers, LoopExit(w) PROVE TypeOK'
  <2>1. wg' \in [Workers -> Int]
    BY <1>4 DEF LoopExit
  <2>2. QED BY <1>4, <2>1 DEF LoopExit
<1>5. ASSUME NEW w \in Workers, BatchPop(w) PROVE TypeOK'
  <2>1. PICK i \in Heads(queue) :
            queue' = queue \ {i} /\ batch' = [batch EXCEPT ![w] = Append(@, i.msg)]
    BY <1>5 DEF BatchPop
  <2>2. i.msg \in Msgs
    BY DEF Heads, Items
  <2>3. batch' \in [Workers -> Seq(Msgs)]
    BY <2>1, <2>2, AppendRange
  <2>4. stats' \in QueueStats
    BY <1>5, StatsUpdate DEF BatchPop
  <2>5. QED BY <1>5, <2>1, <2>3, <2>4 DEF BatchPop
<1>6. ASSUME NEW w \in Workers, BatchPopReturns(w) PROVE TypeOK'
  BY <1>6 DEF BatchPopReturns
<1>7. ASSUME NEW w \in Workers, Spawn(w) PROVE TypeOK'
  <2>1. Head(batch[w]) \in Msgs /\ Tail(batch[w]) \in Seq(Msgs)
    BY <1>7, HeadTailProperties DEF Spawn
  <2>2. batch' \in [Workers -> Seq(Msgs)]
    BY <1>7, <2>1 DEF Spawn
  <2>3. goroutine' \in [Workers -> [Msgs -> Phases]]
    BY <1>7, <2>1 DEF Spawn, Phases
  <2>4. semaphore' \in [Workers -> Int] /\ wg' \in [Workers -> Int]
    BY <1>7 DEF Spawn
  <2>5. QED BY <1>7, <2>2, <2>3, <2>4 DEF Spawn
<1>8. ASSUME NEW w \in Workers, EndBatch(w) PROVE TypeOK'
  BY <1>8 DEF EndBatch
<1>9. ASSUME NEW w \in Workers, Stop(w) PROVE TypeOK'
  BY <1>9 DEF Stop
<1>10. ASSUME NEW w \in Workers, StopReturns(w) PROVE TypeOK'
  BY <1>10 DEF StopReturns
<1>11. ASSUME NEW w \in Workers, NEW m \in Msgs, ProcessMessage(w, m) PROVE TypeOK'
  <2>1. CASE /\ goroutine' = [goroutine EXCEPT ![w][m] = "ok"]
             /\ metrics' = [metrics EXCEPT ![w].success = @ + 1]
    <3>1. metrics' \in [Workers -> [success : Nat, failure : Nat]]
      BY <2>1, MetricsUpdate
    <3>2. goroutine' \in [Workers -> [Msgs -> Phases]]
      BY <2>1 DEF Phases
    <3>3. attempts' \in [Msgs -> Nat]
      BY <1>11 DEF ProcessMessage
    <3>4. QED BY <1>11, <3>1, <3>2, <3>3 DEF ProcessMessage
  <2>2. CASE /\ goroutine' = [goroutine EXCEPT ![w][m] = "err"]
             /\ metrics' = [metrics EXCEPT ![w].failure = @ + 1]
    <3>1. metrics' \in [Workers -> [success : Nat, failure : Nat]]
      BY <2>2, MetricsUpdate
    <3>2. goroutine' \in [Workers -> [Msgs -> Phases]]
      BY <2>2 DEF Phases
    <3>3. attempts' \in [Msgs -> Nat]
      BY <1>11 DEF ProcessMessage
    <3>4. QED BY <1>11, <3>1, <3>2, <3>3 DEF ProcessMessage
  <2>3. QED BY <1>11, <2>1, <2>2 DEF ProcessMessage, updateMetrics
<1>12. ASSUME NEW w \in Workers, NEW m \in Msgs, HandleSuccess(w, m) PROVE TypeOK'
  <2>1. stats' \in QueueStats
    BY <1>12, StatsUpdate DEF HandleSuccess
  <2>2. outcome' \in [Msgs -> Open \cup Settled \cup {"accepted"}]
    BY <1>12 DEF HandleSuccess, Settled
  <2>3. QED BY <1>12, <2>1, <2>2, LeaveType DEF HandleSuccess
<1>13. ASSUME NEW w \in Workers, NEW m \in Msgs, Retry(w, m) PROVE TypeOK'
  <2>1. retryCount' \in [Msgs -> 0..MaxRetries]
    BY <1>13, RetriesNat DEF Retry
  <2>2. outcome' \in [Msgs -> Open \cup Settled \cup {"accepted"}]
    BY <1>13 DEF Retry, Settled
  <2>3. queue' \subseteq Items(Msgs) /\ clock' \in Nat /\ stats' \in QueueStats
    BY <1>13, EnqueueType DEF Retry
  <2>4. QED BY <1>13, <2>1, <2>2, <2>3, LeaveType DEF Retry
<1>14. ASSUME NEW w \in Workers, NEW m \in Msgs, FailMessage(w, m) PROVE TypeOK'
  <2>1. stats' \in QueueStats
    BY <1>14, StatsUpdate DEF FailMessage
  <2>2. outcome' \in [Msgs -> Open \cup Settled \cup {"accepted"}]
    BY <1>14 DEF FailMessage, Settled
  <2>3. QED BY <1>14, <2>1, <2>2, LeaveType DEF FailMessage
<1>15. ASSUME NEW w \in Workers, GoroutineExit(w) PROVE TypeOK'
  <2>1. exiting' \in [Workers -> Nat]
    BY <1>15 DEF GoroutineExit
  <2>2. semaphore' \in [Workers -> Int] /\ wg' \in [Workers -> Int]
    BY <1>15 DEF GoroutineExit
  <2>3. QED BY <1>15, <2>1, <2>2 DEF GoroutineExit
<1>16. ASSUME UNCHANGED vars PROVE TypeOK'
  BY <1>16 DEF vars
<1>17. QED
  BY <1>1, <1>2, <1>3, <1>4, <1>5, <1>6, <1>7, <1>8, <1>9, <1>10, <1>11, <1>12,
     <1>13, <1>14, <1>15, <1>16 DEF Next, LoopStep, GoroutineStep, Terminated

\* Every variable keeps its type, for every instance.
THEOREM TypeCorrect == Spec => []TypeOK
BY InitTypeOK, StepTypeOK, PTL DEF Spec

-----------------------------------------------------------------------------
(* Where a message is.  PlaceInv is NoDoubleDelivery and Conservation with *)
(* the union over the workers replaced by quantifiers; it is inductive     *)
(* relative to the types.                                                  *)

Holds(w) == Batched(w) \cup Running(w)

PlaceInv ==
    /\ \A i, j \in queue : i.msg = j.msg => i = j
    /\ \A w \in Workers : IsInjective(batch[w])
    /\ \A w \in Workers : Batched(w) \cap Running(w) = {}
    /\ \A v, w \in Workers : v # w => Holds(v) \cap Holds(w) = {}
    /\ \A w \in Workers : Queued \cap Holds(w) = {}
    /\ \A m \in Msgs :
          outcome[m] = "accepted" <=> m \in Queued \/ \E w \in Workers : m \in Holds(w)

\* PlaceInv is the two properties together, in a form steps can be checked against.
LEMMA PlaceInvMeaning == PlaceInv <=> NoDoubleDelivery /\ Conservation
<1>1. \A m : m \in InFlight <=> \E w \in Workers : m \in Holds(w)
  BY DEF InFlight, Holds
<1>2. Queued \cap InFlight = {} <=> \A w \in Workers : Queued \cap Holds(w) = {}
  BY <1>1
<1>3. Conservation <=> \A m \in Msgs :
          outcome[m] = "accepted" <=> m \in Queued \/ \E w \in Workers : m \in Holds(w)
  BY <1>1 DEF Conservation
<1>4. QED BY <1>2, <1>3 DEF PlaceInv, NoDoubleDelivery, Holds

\* Steps that touch neither the queue, nor a batch, nor a goroutine.
LEMMA PlaceUnchanged ==
    ASSUME PlaceInv, UNCHANGED <<queue, batch, goroutine, outcome>>
    PROVE  PlaceInv'
BY DEF PlaceInv, Holds, Queued, Batched, Running, Range, IsInjective

\* Push adds one message to the queue.
LEMMA EnqueuePlace ==
    ASSUME NEW m \in Msgs, Enqueue(m)
    PROVE  /\ Queued' = Queued \cup {m}
           /\ m \notin Queued /\ (\A i, j \in queue : i.msg = j.msg => i = j)
                => \A i, j \in queue' : i.msg = j.msg => i = j
<1> DEFINE n == QueueItem(m, Priority[m], clock)
<1>1. queue' = queue \cup {n} /\ n.msg = m
  BY DEF Enqueue, QueueItem
<1>2. Queued' = {i.msg : i \in queue'} /\ Queued = {i.msg : i \in queue}
  BY DEF Queued
<1> HIDE DEF n
<1>3. QED BY <1>1, <1>2

\* A finished handler lets go of its message, and of nothing else.
LEMMA LeavePlace ==
    ASSUME TypeOK, NEW w \in Workers, NEW m \in Msgs, Leave(w, m)
    PROVE  /\ Running(w)' = Running(w) \ {m}
           /\ \A v \in Workers \ {w} : Running(v)' = Running(v)
           /\ \A v \in Workers : Batched(v)' = Batched(v)
           /\ \A v \in Workers : batch'[v] = batch[v]
BY DEF TypeOK, Leave, Running, Batched

\* At the start nobody holds a message and none is accepted.
LEMMA InitPlace == Init => PlaceInv
<1> SUFFICES ASSUME Init PROVE PlaceInv
  OBVIOUS
<1>1. Queued = {}
  BY DEF Init, Queued
<1>2. \A w \in Workers : batch[w] = <<>> /\ Range(batch[w]) = {}
  BY DEF Init, Range
<1>3. \A w \in Workers : IsInjective(batch[w])
  BY <1>2 DEF IsInjective
<1>4. \A w \in Workers : Batched(w) = {} /\ Running(w) = {}
  BY <1>2 DEF Batched, Running, Init
<1>5. QED BY <1>1, <1>3, <1>4 DEF Init, PlaceInv, Holds

\* A handler that has finished with a held message: the message is settled,
\* or goes back to the queue.
LEMMA SettlePlace ==
    ASSUME TypeOK, PlaceInv, NEW w \in Workers, NEW m \in Msgs,
           m \in Running(w), Leave(w, m), queue' = queue,
           \E o \in Settled : outcome' = [outcome EXCEPT ![m] = o]
    PROVE  PlaceInv'
<1>1. Queued' = Queued
  BY DEF Queued
<1>2. outcome'[m] # "accepted" /\ \A k \in Msgs \ {m} : outcome'[k] = outcome[k]
  BY DEF TypeOK, Settled
<1>3. \A v \in Workers : IsInjective(batch'[v])
  BY LeavePlace DEF PlaceInv
<1>4. /\ Holds(w)' = Holds(w) \ {m}
      /\ \A v \in Workers \ {w} : Holds(v)' = Holds(v)
  BY LeavePlace DEF PlaceInv, Holds
<1>5. \A v \in Workers : Batched(v)' \cap Running(v)' = {}
  BY LeavePlace DEF PlaceInv
<1>6. m \notin Queued /\ \A v \in Workers \ {w} : m \notin Holds(v)
  BY DEF PlaceInv, Holds
<1>7. QED BY <1>1, <1>2, <1>3, <1>4, <1>5, <1>6 DEF PlaceInv

\* A retry that finds room moves the message from its goroutine to the queue.
LEMMA RequeuePlace ==
    ASSUME TypeOK, PlaceInv, NEW w \in Workers, NEW m \in Msgs,
           m \in Running(w), Leave(w, m), Enqueue(m), UNCHANGED outcome
    PROVE  PlaceInv'
<1>1. m \notin Queued /\ \A v \in Workers \ {w} : m \notin Holds(v)
  BY DEF PlaceInv, Holds
<1>2. Queued' = Queued \cup {m} /\ \A i, j \in queue' : i.msg = j.msg => i = j
  BY <1>1, EnqueuePlace DEF PlaceInv
<1>3. \A v \in Workers : IsInjective(batch'[v])
  BY LeavePlace DEF PlaceInv
<1>4. /\ Holds(w)' = Holds(w) \ {m}
      /\ \A v \in Workers \ {w} : Holds(v)' = Holds(v)
  BY LeavePlace DEF PlaceInv, Holds
<1>5. \A v \in Workers : Batched(v)' \cap Running(v)' = {}
  BY LeavePlace DEF PlaceInv
<1>6. outcome[m] = "accepted"
  BY DEF PlaceInv, Holds
<1>7. QED BY <1>1, <1>2, <1>3, <1>4, <1>5, <1>6 DEF PlaceInv

\* Every action keeps each accepted message in exactly one place.
LEMMA StepPlace == TypeOK /\ PlaceInv /\ [Next]_vars => PlaceInv'
<1> SUFFICES ASSUME TypeOK, PlaceInv, [Next]_vars PROVE PlaceInv'
  OBVIOUS
<1> USE DEF msgVars, workerVars
<1>1. ASSUME NEW m \in Msgs, PushMessage(m) PROVE PlaceInv'
  <2>1. /\ \A w \in Workers : Batched(w)' = Batched(w) /\ Running(w)' = Running(w)
        /\ \A w \in Workers : Holds(w)' = Holds(w) /\ batch'[w] = batch[w]
    BY <1>1 DEF PushMessage, Batched, Running, Holds
  <2>2. outcome[m] # "accepted" /\ m \notin Queued
        /\ \A w \in Workers : m \notin Holds(w)
    BY <1>1 DEF PushMessage, Open, PlaceInv
  <2>3. CASE Full
    <3>1. /\ Queued' = Queued /\ queue' = queue
          /\ outcome'[m] # "accepted"
          /\ \A k \in Msgs \ {m} : outcome'[k] = outcome[k]
      BY <1>1, <2>3 DEF PushMessage, TypeOK, Queued
    <3>2. QED BY <2>1, <2>2, <3>1 DEF PlaceInv
  <2>4. CASE ~ Full
    <3>1. /\ Queued' = Queued \cup {m}
          /\ \A i, j \in queue' : i.msg = j.msg => i = j
      BY <1>1, <2>2, <2>4, EnqueuePlace DEF PushMessage, PlaceInv
    <3>2. outcome'[m] = "accepted" /\ \A k \in Msgs \ {m} : outcome'[k] = outcome[k]
      BY <1>1, <2>4 DEF PushMessage, TypeOK
    <3>3. QED BY <2>1, <2>2, <3>1, <3>2 DEF PlaceInv
  <2>5. QED BY <2>3, <2>4
<1>2. ASSUME NEW w \in Workers, BatchPop(w) PROVE PlaceInv'
  <2>1. PICK i \in queue :
            queue' = queue \ {i} /\ batch' = [batch EXCEPT ![w] = Append(@, i.msg)]
    BY <1>2 DEF BatchPop, Heads
  <2>2. i.msg \in Msgs /\ i.msg \in Queued
    BY DEF TypeOK, Items, Queued
  <2>3. Queued' = Queued \ {i.msg}
    BY <2>1 DEF PlaceInv, Queued
  <2>4. i.msg \notin Batched(w) /\ \A v \in Workers : i.msg \notin Holds(v)
    BY <2>2 DEF PlaceInv, Holds
  <2>5. batch'[w] = Append(batch[w], i.msg) /\ batch[w] \in Seq(Msgs)
        /\ \A v \in Workers \ {w} : batch'[v] = batch[v]
    BY <2>1 DEF TypeOK
  <2>6. Batched(w)' = Batched(w) \cup {i.msg} /\ IsInjective(batch'[w])
    BY <2>2, <2>4, <2>5, AppendRange DEF Batched, PlaceInv
  <2>7. \A v \in Workers \ {w} : Batched(v)' = Batched(v) /\ IsInjective(batch'[v])
    BY <2>5 DEF Batched, PlaceInv
  <2>8. \A v \in Workers : Running(v)' = Running(v)
    BY <1>2 DEF BatchPop, Running
  <2>9. /\ Holds(w)' = Holds(w) \cup {i.msg}
        /\ \A v \in Workers \ {w} : Holds(v)' = Holds(v)
    BY <2>6, <2>7, <2>8 DEF Holds
  <2>10. \A v \in Workers : Batched(v)' \cap Running(v)' = {}
    BY <2>4, <2>6, <2>7, <2>8 DEF PlaceInv, Holds
  <2>11. outcome' = outcome
    BY <1>2 DEF BatchPop
  <2>12. QED
    BY <2>1, <2>2, <2>3, <2>4, <2>6, <2>7, <2>9, <2>10, <2>11 DEF PlaceInv
<1>3. ASSUME NEW w \in Workers, Spawn(w) PROVE PlaceInv'
  <2> DEFINE h == Head(batch[w])
  <2>1. /\ h \in Batched(w) /\ h \in Msgs
        /\ Range(Tail(batch[w])) = Batched(w) \ {h}
        /\ IsInjective(Tail(batch[w]))
    BY <1>3, TailRange DEF Spawn, TypeOK, PlaceInv, Batched
  <2>2. batch'[w] = Tail(batch[w]) /\ \A v \in Workers \ {w} : batch'[v] = batch[v]
    BY <1>3 DEF Spawn, TypeOK
  <2>3. \A v \in Workers : IsInjective(batch'[v])
    BY <2>1, <2>2 DEF PlaceInv
  <2>4. Batched(w)' = Batched(w) \ {h}
        /\ \A v \in Workers \ {w} : Batched(v)' = Batched(v)
    BY <2>1, <2>2 DEF Batched
  <2>5. Running(w)' = Running(w) \cup {h}
        /\ \A v \in Workers \ {w} : Running(v)' = Running(v)
    BY <1>3, <2>1 DEF Spawn, TypeOK, Running
  <2> HIDE DEF h
  <2>6. \A v \in Workers : Holds(v)' = Holds(v)
    BY <2>1, <2>4, <2>5 DEF Holds
  <2>7. \A v \in Workers : Batched(v)' \cap Running(v)' = {}
    BY <2>4, <2>5 DEF PlaceInv
  <2>8. queue' = queue /\ Queued' = Queued /\ outcome' = outcome
    BY <1>3 DEF Spawn, Queued
  <2>9. QED BY <2>3, <2>6, <2>7, <2>8 DEF PlaceInv
<1>4. ASSUME NEW w \in Workers, NEW m \in Msgs, ProcessMessage(w, m) PROVE PlaceInv'
  <2>1. \A v \in Workers : Running(v)' = Running(v)
    <3>1. PICK p \in {"ok", "err"} : goroutine' = [goroutine EXCEPT ![w][m] = p]
      BY <1>4 DEF ProcessMessage
    <3>2. \A v \in Workers : \A k \in Msgs :
             goroutine'[v][k] # "none" <=> goroutine[v][k] # "none"
      BY <1>4, <3>1 DEF ProcessMessage, TypeOK
    <3>3. QED BY <3>2 DEF Running
  <2>2. UNCHANGED <<queue, batch, outcome>> /\ Queued' = Queued
    BY <1>4 DEF ProcessMessage, Queued
  <2>3. \A v \in Workers : Batched(v)' = Batched(v) /\ Holds(v)' = Holds(v)
    BY <2>1, <2>2 DEF Holds, Batched
  <2>4. QED BY <2>1, <2>2, <2>3 DEF PlaceInv
<1>5. ASSUME NEW w \in Workers, NEW m \in Msgs, HandleSuccess(w, m) PROVE PlaceInv'
  <2>1. m \in Running(w)
    BY <1>5 DEF HandleSuccess, Running
  <2>2. QED BY <1>5, <2>1, SettlePlace DEF HandleSuccess, Settled
<1>6. ASSUME NEW w \in Workers, NEW m \in Msgs, Retry(w, m) PROVE PlaceInv'
  <2>1. m \in Running(w)
    BY <1>6 DEF Retry, Running
  <2>2. QED BY <1>6, <2>1, SettlePlace, RequeuePlace DEF Retry, Settled
<1>7. ASSUME NEW w \in Workers, NEW m \in Msgs, FailMessage(w, m) PROVE PlaceInv'
  <2>1. m \in Running(w)
    BY <1>7 DEF FailMessage, Running
  <2>2. QED BY <1>7, <2>1, SettlePlace DEF FailMessage, Settled
<1>8. ASSUME NEW w \in Workers,
             \/ Start(w) \/ Tick(w) \/ LoopExit(w) \/ BatchPopReturns(w)
             \/ EndBatch(w) \/ Stop(w) \/ StopReturns(w) \/ GoroutineExit(w)
      PROVE  PlaceInv'
  BY <1>8, PlaceUnchanged DEF Start, Tick, LoopExit, BatchPopReturns, EndBatch,
     Stop, StopReturns, GoroutineExit
<1>9. ASSUME UNCHANGED vars PROVE PlaceInv'
  BY <1>9, PlaceUnchanged DEF vars
<1>10. QED
  BY <1>1, <1>2, <1>3, <1>4, <1>5, <1>6, <1>7, <1>8, <1>9
  DEF Next, LoopStep, GoroutineStep, Terminated

\* PlaceInv holds throughout.
LEMMA PlaceInvariant == Spec => []PlaceInv
<1>1. Init => PlaceInv
  BY InitPlace
<1>2. QED BY <1>1, TypeCorrect, StepPlace, PTL DEF Spec

\* No message is ever in two places: popping one by one without the lock,
\* retrying while the old goroutine is leaving and stopping in mid-batch
\* never hand a message to two goroutines.
THEOREM NeverDeliveredTwice == Spec => []NoDoubleDelivery
<1>1. PlaceInv => NoDoubleDelivery
  BY PlaceInvMeaning
<1>2. QED BY <1>1, PlaceInvariant, PTL

\* An accepted message is in the queue, in a batch or in a goroutine exactly
\* until a handler has settled it.
THEOREM AcceptedIsKept == Spec => []Conservation
<1>1. PlaceInv => Conservation
  BY PlaceInvMeaning
<1>2. QED BY <1>1, PlaceInvariant, PTL

-----------------------------------------------------------------------------
(* Tokens, the WaitGroup, and Stop.  To see that a Stop that has returned  *)
(* leaves nothing behind, the invariant also says when a batch can be      *)
(* non-empty and that Stop comes after Start.                              *)

LoopInv ==
    \A w \in Workers :
        /\ loop[w] \in {"idle", "select", "done"} => batch[w] = <<>>
        /\ loop[w] = "idle" => stop[w] = "no"

CountInv == LoopInv /\ ConcurrencyBound /\ StopIsQuiescent

\* The goroutines of a worker can be counted.
LEMMA RunningFinite ==
    ASSUME NEW w \in Workers
    PROVE  /\ IsFiniteSet(Running(w))
           /\ Cardinality(Running(w)) \in Nat
           /\ Cardinality(Running(w)) = 0 <=> Running(w) = {}
<1>1. Running(w) \subseteq Msgs
  BY DEF Running
<1>2. IsFiniteSet(Running(w))
  BY <1>1, MsgsFinite, FS_Subset
<1>3. QED BY <1>2, FS_CardinalityType, FS_EmptySet

\* At the start there are no tokens, no goroutines and no WaitGroup counts.
LEMMA InitCount == Init => CountInv
<1> SUFFICES ASSUME Init PROVE CountInv
  OBVIOUS
<1>1. \A w \in Workers : Running(w) = {} /\ Cardinality(Running(w)) = 0
  BY FS_EmptySet DEF Init, Running
<1>2. LoopInv /\ StopIsQuiescent
  BY DEF Init, LoopInv, StopIsQuiescent
<1>3. ConcurrencyBound
  BY <1>1, ConcurrentPositive DEF Init, ConcurrencyBound, LoopCount
<1>4. QED BY <1>2, <1>3 DEF CountInv

\* ConcurrencyBound for one worker.
TokenLaw(w) ==
    /\ semaphore[w] = Cardinality(Running(w)) + exiting[w]
    /\ semaphore[w] <= MaxConcurrent
    /\ wg[w] = semaphore[w] + LoopCount(w)

\* ConcurrencyBound, worker by worker.
LEMMA TokenLaws == ConcurrencyBound <=> \A w \in Workers : TokenLaw(w)
BY DEF ConcurrencyBound, TokenLaw

\* The other workers' tokens.
LEMMA TokenFrame ==
    ASSUME NEW v \in Workers, TokenLaw(v), Running(v)' = Running(v),
           exiting'[v] = exiting[v], semaphore'[v] = semaphore[v],
           wg'[v] = wg[v], loop'[v] = loop[v]
    PROVE  TokenLaw(v)'
BY DEF TokenLaw, LoopCount

\* Steps after which nothing that the token count speaks of has changed.
LEMMA TokensUnchanged ==
    ASSUME ConcurrencyBound, UNCHANGED <<goroutine, exiting, semaphore, wg>>,
           \A w \in Workers : loop'[w] \in {"idle", "done"}
                                <=> loop[w] \in {"idle", "done"}
    PROVE  ConcurrencyBound'
<1>1. \A w \in Workers : Running(w)' = Running(w)
  BY DEF Running
<1>2. QED BY <1>1 DEF ConcurrencyBound, LoopCount

\* A handler passes its token on to the deferred calls.
LEMMA LeaveTokens ==
    ASSUME TypeOK, CountInv, NEW w \in Workers, NEW m \in Msgs, m \in Running(w),
           Leave(w, m)
    PROVE  CountInv'
<1>1. /\ Running(w)' = Running(w) \ {m}
      /\ \A v \in Workers \ {w} : Running(v)' = Running(v)
  BY LeavePlace
<1>2. Cardinality(Running(w)') = Cardinality(Running(w)) - 1
  BY <1>1, RunningFinite, FS_RemoveElement
<1>3. /\ exiting'[w] = exiting[w] + 1
      /\ \A v \in Workers \ {w} : exiting'[v] = exiting[v]
      /\ UNCHANGED <<loop, stop, batch, semaphore, wg>>
  BY DEF Leave, TypeOK
<1>4. Cardinality(Running(w)) \in Nat /\ exiting[w] \in Nat
  BY RunningFinite DEF TypeOK
<1>5. LoopInv'
  BY <1>3 DEF CountInv, LoopInv
<1>6. ConcurrencyBound'
  <2>1. \A v \in Workers : TokenLaw(v)
    BY TokenLaws DEF CountInv
  <2>2. \A v \in Workers \ {w} : TokenLaw(v)'
    BY <1>1, <1>3, <2>1, TokenFrame
  <2>3. TokenLaw(w)'
    BY <1>2, <1>3, <1>4, <2>1 DEF TokenLaw, LoopCount
  <2>4. QED BY <2>2, <2>3 DEF TokenLaw, ConcurrencyBound
<1>7. StopIsQuiescent'
  <2>1. stop[w] # "returned"
    BY DEF CountInv, StopIsQuiescent
  <2>2. QED BY <1>1, <1>3, <2>1 DEF CountInv, StopIsQuiescent
<1>8. QED BY <1>5, <1>6, <1>7 DEF CountInv

\* Every action keeps tokens and WaitGroup counts with their owners.
LEMMA StepCount == TypeOK /\ PlaceInv /\ CountInv /\ [Next]_vars => CountInv'
<1> SUFFICES ASSUME TypeOK, PlaceInv, CountInv, [Next]_vars PROVE CountInv'
  OBVIOUS
<1> USE DEF msgVars, workerVars
<1>1. ASSUME NEW m \in Msgs, PushMessage(m) PROVE CountInv'
  <2>1. UNCHANGED workerVars
    BY <1>1 DEF PushMessage
  <2>2. QED
    BY <2>1, TokensUnchanged DEF CountInv, LoopInv, StopIsQuiescent, Running
<1>2. ASSUME NEW w \in Workers, Start(w) PROVE CountInv'
  <2>1. /\ loop[w] = "idle" /\ loop'[w] = "select" /\ wg'[w] = wg[w] + 1
        /\ \A v \in Workers \ {w} : loop'[v] = loop[v] /\ wg'[v] = wg[v]
        /\ UNCHANGED <<stop, batch, goroutine, exiting, semaphore>>
    BY <1>2 DEF Start, TypeOK
  <2>2. \A v \in Workers : Running(v)' = Running(v)
    BY <2>1 DEF Running
  <2>3. ConcurrencyBound'
    <3>1. \A v \in Workers : TokenLaw(v)
      BY TokenLaws DEF CountInv
    <3>2. \A v \in Workers \ {w} : TokenLaw(v)'
      BY <2>1, <2>2, <3>1, TokenFrame
    <3>3. semaphore[w] \in Int /\ wg[w] \in Int
      BY DEF TypeOK
    <3>4. TokenLaw(w)'
      BY <2>1, <2>2, <3>1, <3>3 DEF TokenLaw, LoopCount
    <3>5. QED BY <3>2, <3>4 DEF TokenLaw, ConcurrencyBound
  <2>4. LoopInv' /\ StopIsQuiescent'
    BY <2>1, <2>2 DEF CountInv, LoopInv, StopIsQuiescent
  <2>5. QED BY <2>3, <2>4 DEF CountInv
<1>3. ASSUME NEW w \in Workers, LoopExit(w) PROVE CountInv'
  <2>1. /\ loop[w] = "select" /\ loop'[w] = "done" /\ wg'[w] = wg[w] - 1
        /\ stop[w] # "no"
        /\ \A v \in Workers \ {w} : loop'[v] = loop[v] /\ wg'[v] = wg[v]
        /\ UNCHANGED <<stop, batch, goroutine, exiting, semaphore>>
    BY <1>3 DEF LoopExit, TypeOK, Cancelled
  <2>2. \A v \in Workers : Running(v)' = Running(v)
    BY <2>1 DEF Running
  <2>3. ConcurrencyBound'
    <3>1. \A v \in Workers : TokenLaw(v)
      BY TokenLaws DEF CountInv
    <3>2. \A v \in Workers \ {w} : TokenLaw(v)'
      BY <2>1, <2>2, <3>1, TokenFrame
    <3>3. semaphore[w] \in Int /\ wg[w] \in Int
      BY DEF TypeOK
    <3>4. TokenLaw(w)'
      BY <2>1, <2>2, <3>1, <3>3 DEF TokenLaw, LoopCount
    <3>5. QED BY <3>2, <3>4 DEF TokenLaw, ConcurrencyBound
  <2>4. LoopInv' /\ StopIsQuiescent'
    BY <2>1, <2>2 DEF CountInv, LoopInv, StopIsQuiescent
  <2>5. QED BY <2>3, <2>4 DEF CountInv
<1>4. ASSUME NEW w \in Workers, Tick(w) \/ BatchPopReturns(w) \/ EndBatch(w)
      PROVE  CountInv'
  <2>1. /\ loop[w] \notin {"idle", "done"} /\ loop'[w] \notin {"idle", "done"}
        /\ loop'[w] = "select" => batch[w] = <<>>
        /\ \A v \in Workers \ {w} : loop'[v] = loop[v]
        /\ UNCHANGED <<stop, batch, goroutine, exiting, semaphore, wg>>
    BY <1>4 DEF Tick, BatchPopReturns, EndBatch, TypeOK
  <2>2. ConcurrencyBound'
    BY <2>1, TokensUnchanged DEF CountInv
  <2>3. \A v \in Workers : Running(v)' = Running(v)
    BY <2>1 DEF Running
  <2>4. LoopInv' /\ StopIsQuiescent'
    BY <2>1, <2>3 DEF CountInv, LoopInv, StopIsQuiescent
  <2>5. QED BY <2>2, <2>4 DEF CountInv
<1>5. ASSUME NEW w \in Workers, BatchPop(w) PROVE CountInv'
  <2>1. /\ loop[w] = "pop"
        /\ \A v \in Workers \ {w} : batch'[v] = batch[v]
        /\ UNCHANGED <<loop, stop, goroutine, exiting, semaphore, wg>>
    BY <1>5 DEF BatchPop, TypeOK
  <2>2. ConcurrencyBound'
    BY <2>1, TokensUnchanged DEF CountInv
  <2>3. \A v \in Workers : Running(v)' = Running(v)
    BY <2>1 DEF Running
  <2>4. LoopInv' /\ StopIsQuiescent'
    BY <2>1, <2>3 DEF CountInv, LoopInv, StopIsQuiescent
  <2>5. QED BY <2>2, <2>4 DEF CountInv
<1>6. ASSUME NEW w \in Workers, Spawn(w) PROVE CountInv'
  <2> DEFINE h == Head(batch[w])
  <2>1. h \in Batched(w) /\ h \in Msgs
    BY <1>6, TailRange DEF Spawn, TypeOK, PlaceInv, Batched
  <2>2. Running(w)' = Running(w) \cup {h}
        /\ \A v \in Workers \ {w} : Running(v)' = Running(v)
    BY <1>6, <2>1 DEF Spawn, TypeOK, Running
  <2>3. h \notin Running(w)
    BY <2>1 DEF PlaceInv
  <2>4. /\ loop[w] = "spawn" /\ semaphore[w] < MaxConcurrent
        /\ semaphore'[w] = semaphore[w] + 1 /\ wg'[w] = wg[w] + 1
        /\ \A v \in Workers \ {w} : /\ semaphore'[v] = semaphore[v]
                                    /\ wg'[v] = wg[v] /\ batch'[v] = batch[v]
        /\ UNCHANGED <<loop, stop, exiting>>
    BY <1>6 DEF Spawn, TypeOK
  <2> HIDE DEF h
  <2>5. Cardinality(Running(w)') = Cardinality(Running(w)) + 1
    BY <2>2, <2>3, RunningFinite, FS_AddElement
  <2>6. ConcurrencyBound'
    <3>1. \A v \in Workers : TokenLaw(v)
      BY TokenLaws DEF CountInv
    <3>2. \A v \in Workers \ {w} : TokenLaw(v)'
      BY <2>2, <2>4, <3>1, TokenFrame
    <3>3. /\ semaphore[w] \in Int /\ wg[w] \in Int /\ exiting[w] \in Nat
          /\ Cardinality(Running(w)) \in Nat /\ MaxConcurrent \in Nat
      BY RunningFinite, ConcurrentPositive DEF TypeOK
    <3>4. TokenLaw(w)'
      BY <2>4, <2>5, <3>1, <3>3 DEF TokenLaw, LoopCount
    <3>5. QED BY <3>2, <3>4 DEF TokenLaw, ConcurrencyBound
  <2>7. LoopInv' /\ StopIsQuiescent'
    BY <2>2, <2>4 DEF CountInv, LoopInv, StopIsQuiescent
  <2>8. QED BY <2>6, <2>7 DEF CountInv
<1>7. ASSUME NEW w \in Workers, Stop(w) PROVE CountInv'
  <2>1. /\ loop[w] # "idle" /\ stop'[w] = "waiting"
        /\ \A v \in Workers \ {w} : stop'[v] = stop[v]
        /\ UNCHANGED <<loop, batch, goroutine, exiting, semaphore, wg>>
    BY <1>7 DEF Stop, TypeOK
  <2>2. \A v \in Workers : Running(v)' = Running(v)
    BY <2>1 DEF Running
  <2>3. ConcurrencyBound'
    BY <2>1, TokensUnchanged DEF CountInv
  <2>4. LoopInv' /\ StopIsQuiescent'
    BY <2>1, <2>2 DEF CountInv, LoopInv, StopIsQuiescent
  <2>5. QED BY <2>3, <2>4 DEF CountInv
<1>8. ASSUME NEW w \in Workers, StopReturns(w) PROVE CountInv'
  <2>1. /\ wg[w] = 0 /\ stop[w] = "waiting" /\ stop'[w] = "returned"
        /\ \A v \in Workers \ {w} : stop'[v] = stop[v]
        /\ UNCHANGED <<loop, batch, goroutine, exiting, semaphore, wg>>
    BY <1>8 DEF StopReturns, TypeOK
  <2>2. /\ loop[w] \in {"idle", "done"}
        /\ Cardinality(Running(w)) = 0 /\ exiting[w] = 0
    BY <2>1, RunningFinite DEF CountInv, ConcurrencyBound, LoopCount, TypeOK
  <2>3. loop[w] = "done" /\ batch[w] = <<>> /\ Running(w) = {}
    BY <2>1, <2>2, RunningFinite DEF CountInv, LoopInv
  <2>4. \A v \in Workers : Running(v)' = Running(v)
    BY <2>1 DEF Running
  <2>5. ConcurrencyBound'
    BY <2>1, TokensUnchanged DEF CountInv
  <2>6. LoopInv' /\ StopIsQuiescent'
    BY <2>1, <2>2, <2>3, <2>4 DEF CountInv, LoopInv, StopIsQuiescent
  <2>7. QED BY <2>5, <2>6 DEF CountInv
<1>9. ASSUME NEW w \in Workers, NEW m \in Msgs, ProcessMessage(w, m) PROVE CountInv'
  <2>1. PICK p \in {"ok", "err"} : goroutine' = [goroutine EXCEPT ![w][m] = p]
    BY <1>9 DEF ProcessMessage
  <2>2. /\ goroutine[w][m] = "running"
        /\ UNCHANGED <<loop, stop, batch, exiting, semaphore, wg>>
    BY <1>9 DEF ProcessMessage
  <2>3. \A v \in Workers : Running(v)' = Running(v)
    BY <2>1, <2>2 DEF Running, TypeOK
  <2>4. ConcurrencyBound'
    BY <2>2, <2>3 DEF CountInv, ConcurrencyBound, LoopCount
  <2>5. LoopInv' /\ StopIsQuiescent'
    BY <2>2, <2>3 DEF CountInv, LoopInv, StopIsQuiescent
  <2>6. QED BY <2>4, <2>5 DEF CountInv
<1>10. ASSUME NEW w \in Workers, NEW m \in Msgs,
              HandleSuccess(w, m) \/ Retry(w, m) \/ FailMessage(w, m)
       PROVE  CountInv'
  <2>1. m \in Running(w) /\ Leave(w, m)
    BY <1>10 DEF HandleSuccess, Retry, FailMessage, Running
  <2>2. QED BY <2>1, LeaveTokens
<1>11. ASSUME NEW w \in Workers, GoroutineExit(w) PROVE CountInv'
  <2>1. /\ exiting[w] > 0 /\ exiting'[w] = exiting[w] - 1
        /\ semaphore'[w] = semaphore[w] - 1 /\ wg'[w] = wg[w] - 1
        /\ \A v \in Workers \ {w} : /\ exiting'[v] = exiting[v]
                                    /\ semaphore'[v] = semaphore[v]
                                    /\ wg'[v] = wg[v]
        /\ UNCHANGED <<loop, stop, batch, goroutine>>
    BY <1>11 DEF GoroutineExit, TypeOK
  <2>2. \A v \in Workers : Running(v)' = Running(v)
    BY <2>1 DEF Running
  <2>3. ConcurrencyBound'
    <3>1. \A v \in Workers : TokenLaw(v)
      BY TokenLaws DEF CountInv
    <3>2. \A v \in Workers \ {w} : TokenLaw(v)'
      BY <2>1, <2>2, <3>1, TokenFrame
    <3>3. /\ semaphore[w] \in Int /\ wg[w] \in Int /\ exiting[w] \in Nat
          /\ Cardinality(Running(w)) \in Nat /\ MaxConcurrent \in Nat
      BY RunningFinite, ConcurrentPositive DEF TypeOK
    <3>4. TokenLaw(w)'
      BY <2>1, <2>2, <3>1, <3>3 DEF TokenLaw, LoopCount
    <3>5. QED BY <3>2, <3>4 DEF TokenLaw, ConcurrencyBound
  <2>4. LoopInv' /\ StopIsQuiescent'
    BY <2>1, <2>2 DEF CountInv, LoopInv, StopIsQuiescent
  <2>5. QED BY <2>3, <2>4 DEF CountInv
<1>12. ASSUME UNCHANGED vars PROVE CountInv'
  BY <1>12, TokensUnchanged DEF vars, CountInv, LoopInv, StopIsQuiescent, Running
<1>13. QED
  BY <1>1, <1>2, <1>3, <1>4, <1>5, <1>6, <1>7, <1>8, <1>9, <1>10, <1>11, <1>12
  DEF Next, LoopStep, GoroutineStep, Terminated

\* CountInv holds throughout.
LEMMA CountInvariant == Spec => []CountInv
<1>1. Init => CountInv
  BY InitCount
<1>2. QED BY <1>1, TypeCorrect, PlaceInvariant, StepCount, PTL DEF Spec

\* The semaphore bounds the goroutines of a worker, leaving ones included,
\* and the WaitGroup counts exactly them and the loop.
THEOREM GoroutinesBounded == Spec => []ConcurrencyBound
<1>1. CountInv => ConcurrencyBound
  BY DEF CountInv
<1>2. QED BY <1>1, CountInvariant, PTL

\* When Stop returns the worker holds no message and runs no goroutine.
THEOREM StopLeavesNothing == Spec => []StopIsQuiescent
<1>1. CountInv => StopIsQuiescent
  BY DEF CountInv
<1>2. QED BY <1>1, CountInvariant, PTL

-----------------------------------------------------------------------------
(* What each step does to the places of messages, seen from one message.   *)

\* processFunc has returned for the current attempt of m.
Attempted(m) ==
    \/ outcome[m] \in {"completed", "failed"}
    \/ \E w \in Workers : goroutine[w][m] \in {"ok", "err"}

RetryInv ==
    \A m \in Msgs :
        /\ attempts[m] = retryCount[m] + IF Attempted(m) THEN 1 ELSE 0
        /\ outcome[m] = "failed" => retryCount[m] = MaxRetries
        /\ outcome[m] = "dropped" => retryCount[m] > 0

\* A message in a goroutine of one worker is accepted, not queued, and in no
\* other worker's goroutine.
LEMMA RunningAlone ==
    ASSUME TypeOK, PlaceInv, NEW w \in Workers, NEW m \in Msgs,
           goroutine[w][m] # "none"
    PROVE  /\ outcome[m] = "accepted"
           /\ m \notin Queued
           /\ \A v \in Workers \ {w} : goroutine[v][m] = "none"
<1>1. m \in Running(w) /\ m \in Holds(w)
  BY DEF Running, Holds
<1>2. outcome[m] = "accepted" /\ m \notin Queued
  BY <1>1 DEF PlaceInv
<1>3. \A v \in Workers \ {w} : m \notin Holds(v)
  BY <1>1 DEF PlaceInv
<1>4. QED BY <1>2, <1>3 DEF Holds, Running

\* Steps that change no outcome, attempt, retry or goroutine.
LEMMA RetryUnchanged ==
    ASSUME RetryInv, UNCHANGED <<retryCount, attempts, outcome, goroutine>>
    PROVE  RetryInv'
BY DEF RetryInv, Attempted

\* The handlers leave every other message alone.
LEMMA LeaveOthers ==
    ASSUME TypeOK, NEW w \in Workers, NEW m \in Msgs, Leave(w, m)
    PROVE  /\ attempts' = attempts
           /\ goroutine'[w][m] = "none"
           /\ \A v \in Workers \ {w} : goroutine'[v][m] = goroutine[v][m]
           /\ \A v \in Workers : \A k \in Msgs \ {m} :
                 goroutine'[v][k] = goroutine[v][k]
BY DEF Leave, TypeOK

\* Every action keeps the attempts in step with the retry count.
LEMMA StepRetry == TypeOK /\ PlaceInv /\ RetryInv /\ [Next]_vars => RetryInv'
<1> SUFFICES ASSUME TypeOK, PlaceInv, RetryInv, [Next]_vars PROVE RetryInv'
  OBVIOUS
<1> USE DEF msgVars, workerVars
<1>1. ASSUME NEW m \in Msgs, PushMessage(m) PROVE RetryInv'
  <2>1. /\ UNCHANGED <<retryCount, attempts, goroutine>>
        /\ outcome[m] \notin {"completed", "failed"}
        /\ outcome'[m] \notin {"completed", "failed", "dropped"}
        /\ \A k \in Msgs \ {m} : outcome'[k] = outcome[k]
    BY <1>1 DEF PushMessage, Open, TypeOK
  <2>2. \A k \in Msgs : Attempted(k)' <=> Attempted(k)
    BY <2>1 DEF Attempted
  <2>3. QED BY <2>1, <2>2 DEF RetryInv
<1>2. ASSUME NEW w \in Workers, Spawn(w) PROVE RetryInv'
  <2> DEFINE h == Head(batch[w])
  <2>1. h \in Batched(w) /\ h \in Msgs
    BY <1>2, TailRange DEF Spawn, TypeOK, PlaceInv, Batched
  <2>2. h \notin Running(w)
    BY <2>1 DEF PlaceInv
  <2>3. /\ goroutine[w][h] = "none" /\ goroutine'[w][h] = "running"
        /\ \A v \in Workers : \A k \in Msgs :
              v # w \/ k # h => goroutine'[v][k] = goroutine[v][k]
        /\ UNCHANGED <<retryCount, attempts, outcome>>
    BY <1>2, <2>1, <2>2 DEF Spawn, TypeOK, Running
  <2> HIDE DEF h
  <2>4. \A v \in Workers : \A k \in Msgs :
           goroutine'[v][k] \in {"ok", "err"} <=> goroutine[v][k] \in {"ok", "err"}
    BY <2>1, <2>3
  <2>5. \A k \in Msgs : Attempted(k)' <=> Attempted(k)
    BY <2>3, <2>4 DEF Attempted
  <2>6. QED BY <2>3, <2>5 DEF RetryInv
<1>3. ASSUME NEW w \in Workers, NEW m \in Msgs, ProcessMessage(w, m) PROVE RetryInv'
  <2>1. PICK p \in {"ok", "err"} : goroutine' = [goroutine EXCEPT ![w][m] = p]
    BY <1>3 DEF ProcessMessage
  <2>2. /\ goroutine[w][m] = "running"
        /\ attempts' = [attempts EXCEPT ![m] = @ + 1]
        /\ UNCHANGED <<retryCount, outcome>>
    BY <1>3 DEF ProcessMessage
  <2>3. /\ goroutine'[w][m] = p
        /\ \A v \in Workers : \A k \in Msgs \ {m} :
              goroutine'[v][k] = goroutine[v][k]
    BY <2>1 DEF TypeOK
  <2>4. outcome[m] = "accepted" /\ ~ Attempted(m) /\ Attempted(m)'
    BY <2>2, <2>3, RunningAlone DEF Attempted
  <2>5. \A k \in Msgs \ {m} : Attempted(k)' <=> Attempted(k)
    BY <2>2, <2>3 DEF Attempted
  <2>6. /\ attempts'[m] = attempts[m] + 1
        /\ \A k \in Msgs \ {m} : attempts'[k] = attempts[k]
        /\ attempts[m] \in Nat /\ retryCount[m] \in Nat
    BY <2>2, RetriesNat DEF TypeOK
  <2>7. QED BY <2>2, <2>4, <2>5, <2>6 DEF RetryInv
<1>4. ASSUME NEW w \in Workers, NEW m \in Msgs,
             HandleSuccess(w, m) \/ FailMessage(w, m)
      PROVE  RetryInv'
  <2>1. /\ Leave(w, m) /\ goroutine[w][m] \in {"ok", "err"}
        /\ outcome'[m] \in {"completed", "failed"}
        /\ outcome'[m] = "failed" => retryCount[m] >= MaxRetries
        /\ \A k \in Msgs \ {m} : outcome'[k] = outcome[k]
        /\ UNCHANGED retryCount
    BY <1>4 DEF HandleSuccess, FailMessage, TypeOK
  <2>2. Attempted(m) /\ Attempted(m)'
    BY <2>1 DEF Attempted
  <2>3. \A k \in Msgs \ {m} : Attempted(k)' <=> Attempted(k)
    BY <2>1, LeaveOthers DEF Attempted
  <2>4. retryCount[m] >= MaxRetries => retryCount[m] = MaxRetries
    BY RetriesNat DEF TypeOK
  <2>5. attempts' = attempts
    BY <2>1, LeaveOthers
  <2>6. QED BY <2>1, <2>2, <2>3, <2>4, <2>5 DEF RetryInv
<1>5. ASSUME NEW w \in Workers, NEW m \in Msgs, Retry(w, m) PROVE RetryInv'
  <2>1. /\ Leave(w, m) /\ goroutine[w][m] = "err"
        /\ retryCount' = [retryCount EXCEPT ![m] = @ + 1]
        /\ outcome'[m] \in {outcome[m], "dropped"}
        /\ \A k \in Msgs \ {m} : outcome'[k] = outcome[k]
    BY <1>5 DEF Retry, TypeOK
  <2>2. Attempted(m)
    BY <2>1 DEF Attempted
  <2>3. outcome[m] = "accepted" /\ ~ Attempted(m)'
    BY <2>1, LeaveOthers, RunningAlone DEF Attempted
  <2>4. \A k \in Msgs \ {m} : Attempted(k)' <=> Attempted(k)
    BY <2>1, LeaveOthers DEF Attempted
  <2>5. /\ retryCount'[m] = retryCount[m] + 1 /\ retryCount[m] \in Nat
        /\ \A k \in Msgs \ {m} : retryCount'[k] = retryCount[k]
        /\ attempts' = attempts
    <3>1. retryCount \in [Msgs -> 0..MaxRetries]
      BY DEF TypeOK
    <3>2. retryCount' = [retryCount EXCEPT ![m] = @ + 1]
      BY <2>1
    <3>3. attempts' = attempts
      BY <2>1, LeaveOthers
    <3>4. QED BY <3>1, <3>2, <3>3, RetriesNat
  <2>6. outcome'[m] # "failed"
    BY <2>1, <2>3
  <2>7. QED BY <2>1, <2>2, <2>3, <2>4, <2>5, <2>6 DEF RetryInv
<1>6. ASSUME NEW w \in Workers,
             \/ Start(w) \/ Tick(w) \/ LoopExit(w) \/ BatchPop(w)
             \/ BatchPopReturns(w) \/ EndBatch(w) \/ Stop(w) \/ StopReturns(w)
             \/ GoroutineExit(w)
      PROVE  RetryInv'
  BY <1>6, RetryUnchanged DEF Start, Tick, LoopExit, BatchPop, BatchPopReturns,
     EndBatch, Stop, StopReturns, GoroutineExit
<1>7. ASSUME UNCHANGED vars PROVE RetryInv'
  BY <1>7, RetryUnchanged DEF vars
<1>8. QED
  BY <1>1, <1>2, <1>3, <1>4, <1>5, <1>6, <1>7
  DEF Next, LoopStep, GoroutineStep, Terminated

\* RetryInv holds throughout.
LEMMA RetryInvariant == Spec => []RetryInv
<1>1. Init => RetryInv
  BY DEF Init, RetryInv, Attempted
<1>2. QED BY <1>1, TypeCorrect, PlaceInvariant, StepRetry, PTL DEF Spec

\* processFunc runs at most MaxRetries + 1 times for a message; a message is
\* failed only after all of them, and a dropped one has used fewer.
THEOREM RetryBudgetKept == Spec => []RetryBudget
<1>1. TypeOK /\ PlaceInv /\ RetryInv => RetryBudget
  <2> SUFFICES ASSUME TypeOK, PlaceInv, RetryInv, NEW m \in Msgs
               PROVE  /\ attempts[m] <= MaxRetries + 1
                      /\ outcome[m] = "failed" => attempts[m] = MaxRetries + 1
                      /\ outcome[m] = "dropped" => attempts[m] \in 1..MaxRetries
    BY DEF RetryBudget
  <2>1. retryCount[m] \in 0..MaxRetries /\ attempts[m] \in Nat /\ MaxRetries \in Nat
    BY RetriesNat DEF TypeOK
  <2>2. outcome[m] = "failed" => Attempted(m)
    BY DEF Attempted
  <2>3. outcome[m] = "dropped" => ~ Attempted(m)
    BY RunningAlone DEF Attempted
  <2>4. QED BY <2>1, <2>2, <2>3 DEF RetryInv
<1>2. QED BY <1>1, TypeCorrect, PlaceInvariant, RetryInvariant, PTL

-----------------------------------------------------------------------------
(* Worker implements MessageDelivery. *)

\* The initial state maps to the initial state of MessageDelivery.
LEMMA RefinesInit == Init => Delivery!Init
BY DEF Init, Delivery!Init, StatusOf

\* Steps that move no message.
LEMMA StatusUnchanged ==
    ASSUME UNCHANGED <<queue, outcome, retryCount>>
    PROVE  UNCHANGED Delivery!vars
BY DEF Delivery!vars, StatusOf, Queued

\* Every step maps to a step of MessageDelivery or leaves it as it is.
LEMMA RefinesNext ==
    TypeOK /\ PlaceInv /\ [Next]_vars => [Delivery!Next]_(Delivery!vars)
<1> SUFFICES ASSUME TypeOK, PlaceInv, [Next]_vars
             PROVE  Delivery!Next \/ UNCHANGED Delivery!vars
  OBVIOUS
<1> DEFINE st == [m \in Msgs |-> StatusOf(m)]
<1> USE DEF msgVars, workerVars
<1>1. ASSUME NEW m \in Msgs, PushMessage(m) PROVE Delivery!Submit(m)
  <2>1. outcome[m] \in Open /\ UNCHANGED retryCount
    BY <1>1 DEF PushMessage
  <2>2. StatusOf(m) \in {"new", "rejected"}
    BY <2>1 DEF StatusOf, Open
  <2>3. \A k \in Msgs \ {m} : outcome'[k] = outcome[k]
    BY <1>1 DEF PushMessage, TypeOK
  <2>4. \A k \in Msgs \ {m} : k \in Queued' <=> k \in Queued
    BY <1>1, EnqueuePlace DEF PushMessage, Queued
  <2>5. \A k \in Msgs \ {m} : StatusOf(k)' = StatusOf(k)
    BY <2>3, <2>4 DEF StatusOf
  <2>6. StatusOf(m)' \in {"pending", "rejected"}
    <3>1. CASE Full
      BY <1>1, <3>1 DEF PushMessage, TypeOK, StatusOf
    <3>2. CASE ~ Full
      BY <1>1, <3>2, EnqueuePlace DEF PushMessage, TypeOK, StatusOf
    <3>3. QED BY <3>1, <3>2
  <2>7. st' = [st EXCEPT ![m] = StatusOf(m)']
    BY <2>5
  <2>8. QED BY <2>1, <2>2, <2>6, <2>7 DEF Delivery!Submit
<1>2. ASSUME NEW w \in Workers, BatchPop(w) PROVE \E m \in Msgs : Delivery!Take(m)
  <2>1. PICK i \in queue : queue' = queue \ {i}
    BY <1>2 DEF BatchPop, Heads
  <2>2. i.msg \in Msgs /\ i.msg \in Queued
    BY DEF TypeOK, Items, Queued
  <2>3. Queued' = Queued \ {i.msg}
    BY <2>1 DEF PlaceInv, Queued
  <2>4. outcome[i.msg] = "accepted" /\ UNCHANGED <<outcome, retryCount>>
    BY <1>2, <2>2 DEF BatchPop, PlaceInv
  <2>5. /\ StatusOf(i.msg) = "pending" /\ StatusOf(i.msg)' = "processing"
        /\ \A k \in Msgs \ {i.msg} : StatusOf(k)' = StatusOf(k)
    BY <2>2, <2>3, <2>4 DEF StatusOf
  <2>6. st' = [st EXCEPT ![i.msg] = "processing"]
    BY <2>5
  <2>7. QED BY <2>2, <2>4, <2>5, <2>6 DEF Delivery!Take
<1>3. ASSUME NEW w \in Workers, NEW m \in Msgs, goroutine[w][m] # "none",
             queue' = queue, NEW o \in Settled, outcome' = [outcome EXCEPT ![m] = o]
      PROVE  st[m] = "processing" /\ st' = [st EXCEPT ![m] = o]
  <2>1. outcome[m] = "accepted" /\ m \notin Queued /\ Queued' = Queued
    BY <1>3, RunningAlone DEF Queued
  <2>2. StatusOf(m) = "processing" /\ StatusOf(m)' = o
        /\ \A k \in Msgs \ {m} : StatusOf(k)' = StatusOf(k)
    BY <1>3, <2>1 DEF StatusOf, TypeOK, Settled
  <2>3. QED BY <2>2
<1>4. ASSUME NEW w \in Workers, NEW m \in Msgs, HandleSuccess(w, m)
      PROVE  Delivery!Complete(m)
  <2>1. st[m] = "processing" /\ st' = [st EXCEPT ![m] = "completed"]
    BY <1>3, <1>4 DEF HandleSuccess, Settled
  <2>2. QED BY <1>4, <2>1 DEF Delivery!Complete, HandleSuccess
<1>5. ASSUME NEW w \in Workers, NEW m \in Msgs, FailMessage(w, m)
      PROVE  Delivery!Fail(m)
  <2>1. st[m] = "processing" /\ st' = [st EXCEPT ![m] = "failed"]
    BY <1>3, <1>5 DEF FailMessage, Settled
  <2>2. retryCount[m] = MaxRetries
    BY <1>5, RetriesNat DEF FailMessage, TypeOK
  <2>3. QED BY <1>5, <2>1, <2>2 DEF Delivery!Fail, FailMessage
<1>6. ASSUME NEW w \in Workers, NEW m \in Msgs, Retry(w, m) PROVE Delivery!Retry(m)
  <2>1. goroutine[w][m] # "none" /\ retryCount[m] < MaxRetries
        /\ retryCount' = [retryCount EXCEPT ![m] = @ + 1]
    BY <1>6 DEF Retry
  <2>2. CASE Full
    <3>1. st[m] = "processing" /\ st' = [st EXCEPT ![m] = "dropped"]
      BY <1>3, <1>6, <2>1, <2>2 DEF Retry, Settled
    <3>2. QED BY <2>1, <3>1 DEF Delivery!Retry
  <2>3. CASE ~ Full
    <3>1. outcome[m] = "accepted" /\ m \notin Queued
      BY <2>1, RunningAlone
    <3>2. Queued' = Queued \cup {m} /\ UNCHANGED outcome
      BY <1>6, <2>3, EnqueuePlace DEF Retry
    <3>3. /\ StatusOf(m) = "processing" /\ StatusOf(m)' = "pending"
          /\ \A k \in Msgs \ {m} : StatusOf(k)' = StatusOf(k)
      BY <3>1, <3>2 DEF StatusOf
    <3>4. st' = [st EXCEPT ![m] = "pending"]
      BY <3>3
    <3>5. QED BY <2>1, <3>3, <3>4 DEF Delivery!Retry
  <2>4. QED BY <2>2, <2>3
<1>7. ASSUME NEW w \in Workers,
             \/ Start(w) \/ Tick(w) \/ LoopExit(w) \/ BatchPopReturns(w)
             \/ Spawn(w) \/ EndBatch(w) \/ Stop(w) \/ StopReturns(w)
             \/ GoroutineExit(w) \/ \E m \in Msgs : ProcessMessage(w, m)
      PROVE  UNCHANGED Delivery!vars
  BY <1>7, StatusUnchanged DEF Start, Tick, LoopExit, BatchPopReturns, Spawn,
     EndBatch, Stop, StopReturns, GoroutineExit, ProcessMessage
<1>8. ASSUME UNCHANGED vars PROVE UNCHANGED Delivery!vars
  BY <1>8, StatusUnchanged DEF vars
<1>9. QED
  BY <1>1, <1>2, <1>4, <1>5, <1>6, <1>7, <1>8
  DEF Next, LoopStep, GoroutineStep, Terminated, Delivery!Next

\* The workers, the queue and the producers together implement the life of a
\* message: handed over once, one attempt at a time, retried at most
\* MaxRetries times, then completed, failed or dropped.
THEOREM ImplementsDelivery == Spec => DeliverySpec
BY RefinesInit, RefinesNext, TypeCorrect, PlaceInvariant, PTL
DEF Spec, DeliverySpec, Delivery!Spec

-----------------------------------------------------------------------------
(* QueueStats against the queue and the outcomes. *)

WithOutcome(o) == {m \in Msgs : outcome[m] = o}

StatsInv == IsFiniteSet(queue) /\ StatsAgree

\* Giving message m the outcome o adds it to the messages with that outcome
\* and takes it from no other settled ones.
LEMMA OutcomeCount ==
    ASSUME TypeOK, NEW m \in Msgs, outcome[m] = "accepted", NEW o \in Settled,
           outcome' = [outcome EXCEPT ![m] = o]
    PROVE  /\ Cardinality(WithOutcome(o)') = Cardinality(WithOutcome(o)) + 1
           /\ \A p \in Settled \ {o} : WithOutcome(p)' = WithOutcome(p)
<1>1. WithOutcome(o)' = WithOutcome(o) \cup {m} /\ m \notin WithOutcome(o)
  BY DEF WithOutcome, TypeOK, Settled
<1>2. IsFiniteSet(WithOutcome(o))
  BY MsgsFinite, FS_Subset DEF WithOutcome
<1>3. \A p \in Settled \ {o} : WithOutcome(p)' = WithOutcome(p)
  BY DEF WithOutcome, TypeOK, Settled
<1>4. QED BY <1>1, <1>2, <1>3, FS_AddElement

\* Steps that change neither queue, nor statistics, nor settled messages.
LEMMA StatsUnchanged ==
    ASSUME StatsInv, UNCHANGED <<queue, stats>>,
           \A o \in {"completed", "failed"} : WithOutcome(o)' = WithOutcome(o)
    PROVE  StatsInv'
BY DEF StatsInv, StatsAgree, WithOutcome

\* A push that finds room.
LEMMA EnqueueStats ==
    ASSUME TypeOK, StatsInv, NEW m \in Msgs, Enqueue(m), m \notin Queued,
           \A o \in {"completed", "failed"} : WithOutcome(o)' = WithOutcome(o)
    PROVE  StatsInv'
<1> DEFINE n == QueueItem(m, Priority[m], clock)
<1>1. queue' = queue \cup {n} /\ n.msg = m
  BY DEF Enqueue, QueueItem
<1>2. n \notin queue
  BY <1>1 DEF Queued
<1> HIDE DEF n
<1>3. IsFiniteSet(queue') /\ Cardinality(queue') = Cardinality(queue) + 1
  BY <1>1, <1>2, FS_AddElement DEF StatsInv
<1>4. /\ stats'.pending = stats.pending + 1
      /\ stats'.completed = stats.completed /\ stats'.failed = stats.failed
  BY DEF Enqueue, TypeOK, QueueStats
<1>5. QED BY <1>3, <1>4 DEF StatsInv, StatsAgree, WithOutcome

\* Every action keeps the statistics in step with the queue and the outcomes.
LEMMA StepStats == TypeOK /\ PlaceInv /\ StatsInv /\ [Next]_vars => StatsInv'
<1> SUFFICES ASSUME TypeOK, PlaceInv, StatsInv, [Next]_vars PROVE StatsInv'
  OBVIOUS
<1> USE DEF msgVars, workerVars
<1>1. ASSUME NEW m \in Msgs, PushMessage(m) PROVE StatsInv'
  <2>1. m \notin Queued
    BY <1>1 DEF PushMessage, Open, PlaceInv
  <2>2. \A o \in {"completed", "failed"} : WithOutcome(o)' = WithOutcome(o)
    BY <1>1 DEF PushMessage, Open, TypeOK, WithOutcome
  <2>3. QED BY <1>1, <2>1, <2>2, EnqueueStats, StatsUnchanged DEF PushMessage
<1>2. ASSUME NEW w \in Workers, BatchPop(w) PROVE StatsInv'
  <2>1. PICK i \in queue : queue' = queue \ {i}
    BY <1>2 DEF BatchPop, Heads
  <2>2. IsFiniteSet(queue') /\ Cardinality(queue') = Cardinality(queue) - 1
    BY <2>1, FS_RemoveElement DEF StatsInv
  <2>3. stats' = [stats EXCEPT !.pending = @ - 1, !.processing = @ + 1]
        /\ UNCHANGED outcome
    BY <1>2 DEF BatchPop
  <2>4. /\ stats'.pending = stats.pending - 1
        /\ stats'.completed = stats.completed /\ stats'.failed = stats.failed
    BY <2>3 DEF TypeOK, QueueStats
  <2>5. \A o \in {"completed", "failed"} : WithOutcome(o)' = WithOutcome(o)
    BY <2>3 DEF WithOutcome
  <2>6. stats.pending \in Int /\ Cardinality(queue) \in Nat
    BY FS_CardinalityType DEF TypeOK, QueueStats, StatsInv
  <2>7. QED BY <2>2, <2>4, <2>5, <2>6 DEF StatsInv, StatsAgree, WithOutcome
<1>3. ASSUME NEW w \in Workers, NEW m \in Msgs, HandleSuccess(w, m) PROVE StatsInv'
  <2>1. outcome[m] = "accepted"
    BY <1>3, RunningAlone DEF HandleSuccess
  <2>2. /\ Cardinality(WithOutcome("completed")')
             = Cardinality(WithOutcome("completed")) + 1
        /\ WithOutcome("failed")' = WithOutcome("failed")
    BY <1>3, <2>1, OutcomeCount DEF HandleSuccess, Settled
  <2>3. stats' = [stats EXCEPT !.processing = @ - 1, !.completed = @ + 1]
        /\ UNCHANGED queue
    BY <1>3 DEF HandleSuccess
  <2>4. /\ stats'.pending = stats.pending
        /\ stats'.completed = stats.completed + 1 /\ stats'.failed = stats.failed
    BY <2>3 DEF TypeOK, QueueStats
  <2>5. QED BY <2>2, <2>3, <2>4 DEF StatsInv, StatsAgree, WithOutcome
<1>4. ASSUME NEW w \in Workers, NEW m \in Msgs, FailMessage(w, m) PROVE StatsInv'
  <2>1. outcome[m] = "accepted"
    BY <1>4, RunningAlone DEF FailMessage
  <2>2. /\ Cardinality(WithOutcome("failed")') = Cardinality(WithOutcome("failed")) + 1
        /\ WithOutcome("completed")' = WithOutcome("completed")
    BY <1>4, <2>1, OutcomeCount DEF FailMessage, Settled
  <2>3. stats' = [stats EXCEPT !.processing = @ - 1, !.failed = @ + 1]
        /\ UNCHANGED queue
    BY <1>4 DEF FailMessage
  <2>4. /\ stats'.pending = stats.pending
        /\ stats'.completed = stats.completed /\ stats'.failed = stats.failed + 1
    BY <2>3 DEF TypeOK, QueueStats
  <2>5. QED BY <2>2, <2>3, <2>4 DEF StatsInv, StatsAgree, WithOutcome
<1>5. ASSUME NEW w \in Workers, NEW m \in Msgs, Retry(w, m) PROVE StatsInv'
  <2>1. outcome[m] = "accepted" /\ m \notin Queued
    BY <1>5, RunningAlone DEF Retry
  <2>2. \A o \in {"completed", "failed"} : WithOutcome(o)' = WithOutcome(o)
    BY <1>5, <2>1 DEF Retry, TypeOK, WithOutcome
  <2>3. QED BY <1>5, <2>1, <2>2, EnqueueStats, StatsUnchanged DEF Retry
<1>6. ASSUME NEW w \in Workers,
             \/ Start(w) \/ Tick(w) \/ LoopExit(w) \/ BatchPopReturns(w)
             \/ Spawn(w) \/ EndBatch(w) \/ Stop(w) \/ StopReturns(w)
             \/ GoroutineExit(w) \/ \E m \in Msgs : ProcessMessage(w, m)
      PROVE  StatsInv'
  <2>1. UNCHANGED <<queue, stats, outcome>>
    BY <1>6 DEF Start, Tick, LoopExit, BatchPopReturns, Spawn, EndBatch, Stop,
       StopReturns, GoroutineExit, ProcessMessage
  <2>2. QED BY <2>1, StatsUnchanged DEF WithOutcome
<1>7. ASSUME UNCHANGED vars PROVE StatsInv'
  BY <1>7, StatsUnchanged DEF vars, WithOutcome
<1>8. QED
  BY <1>1, <1>2, <1>3, <1>4, <1>5, <1>6, <1>7
  DEF Next, LoopStep, GoroutineStep, Terminated

\* PendingCount, CompletedCount and FailedCount never drift from the queue and
\* from what became of the messages.
THEOREM StatsNeverDrift == Spec => []StatsAgree
<1>1. Init => StatsInv
  <2> SUFFICES ASSUME Init PROVE StatsInv
    OBVIOUS
  <2>1. /\ {m \in Msgs : outcome[m] = "completed"} = {}
        /\ {m \in Msgs : outcome[m] = "failed"} = {}
        /\ queue = {}
    BY DEF Init
  <2>2. stats.pending = 0 /\ stats.completed = 0 /\ stats.failed = 0
    BY DEF Init
  <2>3. IsFiniteSet({}) /\ Cardinality({}) = 0
    BY FS_EmptySet
  <2>4. QED BY <2>1, <2>2, <2>3 DEF StatsInv, StatsAgree
<1>2. StatsInv => StatsAgree
  BY DEF StatsInv
<1>3. QED BY <1>1, <1>2, TypeCorrect, PlaceInvariant, StepStats, PTL DEF Spec

-----------------------------------------------------------------------------
(* ProcessingCount against the messages in flight and the retries.         *)

\* What is in flight is what was accepted and is not in the queue.
LEMMA InFlightMeaning ==
    ASSUME TypeOK, PlaceInv
    PROVE  InFlight = {m \in Msgs : outcome[m] = "accepted" /\ m \notin Queued}
<1>1. \A m : m \in InFlight <=> \E w \in Workers : m \in Holds(w)
  BY DEF InFlight, Holds
<1>2. \A w \in Workers : Holds(w) \subseteq Msgs
  BY DEF TypeOK, Holds, Batched, Running, Range
<1>3. QED BY <1>1, <1>2 DEF PlaceInv

LEMMA InFlightNext ==
    ASSUME TypeOK', PlaceInv'
    PROVE  InFlight' = {m \in Msgs : outcome'[m] = "accepted" /\ m \notin Queued'}
<1>1. \A m : m \in InFlight' <=> \E w \in Workers : m \in Holds(w)'
  BY DEF InFlight, Holds
<1>2. \A w \in Workers : Holds(w)' \subseteq Msgs
  BY DEF TypeOK, Holds, Batched, Running, Range
<1>3. QED BY <1>1, <1>2 DEF PlaceInv

\* There are finitely many of them, and of the retries.
LEMMA InFlightFinite == TypeOK /\ PlaceInv => IsFiniteSet(InFlight)
BY InFlightMeaning, MsgsFinite, FS_Subset

LEMMA RetriesFinite == TypeOK => IsFiniteSet(RetriesMade)
<1> SUFFICES ASSUME TypeOK PROVE IsFiniteSet(RetriesMade)
  OBVIOUS
<1> DEFINE I == 1..MaxRetries
<1>0. IsFiniteSet(I)
  <2>1. 1 \in Int /\ MaxRetries \in Int
    BY RetriesNat
  <2>2. QED BY <2>1, FS_Interval
<1>1. IsFiniteSet(Msgs \X I)
  <2> HIDE DEF I
  <2>1. QED BY <1>0, MsgsFinite, FS_Product
<1>2. RetriesMade \subseteq Msgs \X I
  <2>1. \A m \in Msgs : 1..retryCount[m] \subseteq 1..MaxRetries
    BY RetriesNat DEF TypeOK
  <2>2. QED BY <2>1 DEF RetriesMade
<1>3. QED BY <1>1, <1>2, FS_Subset

\* One more retry of m.
LEMMA RetryCounted ==
    ASSUME TypeOK, NEW m \in Msgs, retryCount' = [retryCount EXCEPT ![m] = @ + 1]
    PROVE  Cardinality(RetriesMade') = Cardinality(RetriesMade) + 1
<1> DEFINE n == retryCount[m] + 1
<1>1. retryCount[m] \in Nat /\ retryCount'[m] = n
      /\ \A k \in Msgs \ {m} : retryCount'[k] = retryCount[k]
  BY RetriesNat DEF TypeOK
<1>2. 1..n = (1..retryCount[m]) \cup {n} /\ n \notin 1..retryCount[m]
  BY <1>1
<1> HIDE DEF n
<1>3. \A x : x \in RetriesMade <=> \E k \in Msgs : x \in {k} \X (1..retryCount[k])
  BY DEF RetriesMade
<1>4. \A x : x \in RetriesMade' <=> \E k \in Msgs : x \in {k} \X (1..retryCount'[k])
  BY DEF RetriesMade
<1>5. RetriesMade' = RetriesMade \cup {<<m, n>>}
  <2>1. ASSUME NEW x \in RetriesMade' PROVE x \in RetriesMade \cup {<<m, n>>}
    <3>1. PICK k \in Msgs : x \in {k} \X (1..retryCount'[k])
      BY <1>4, <2>1
    <3>2. CASE k = m
      <4>1. PICK i \in (1..retryCount[m]) \cup {n} : x = <<m, i>>
        BY <1>1, <1>2, <3>1, <3>2
      <4>2. QED BY <1>3, <4>1
    <3>3. CASE k # m
      BY <1>1, <1>3, <3>1, <3>3
    <3>4. QED BY <3>2, <3>3
  <2>2. ASSUME NEW x \in RetriesMade PROVE x \in RetriesMade'
    <3>1. PICK k \in Msgs : x \in {k} \X (1..retryCount[k])
      BY <1>3, <2>2
    <3>2. 1..retryCount[k] \subseteq 1..retryCount'[k]
      BY <1>1, <1>2
    <3>3. QED BY <1>4, <3>1, <3>2
  <2>3. <<m, n>> \in RetriesMade'
    BY <1>1, <1>2, <1>4
  <2>4. QED BY <2>1, <2>2, <2>3
<1>6. <<m, n>> \notin RetriesMade
  BY <1>2, <1>3
<1>7. QED BY <1>5, <1>6, RetriesFinite, FS_AddElement

\* Every action keeps ProcessingCount in step.
LEMMA StepProcessing ==
    TypeOK /\ PlaceInv /\ ProcessingAgree /\ [Next]_vars => ProcessingAgree'
<1> SUFFICES ASSUME TypeOK, PlaceInv, ProcessingAgree, [Next]_vars
             PROVE  ProcessingAgree'
  OBVIOUS
<1> USE DEF msgVars, workerVars
<1>1. TypeOK' /\ PlaceInv'
  BY StepTypeOK, StepPlace
<1>2. /\ InFlight = {m \in Msgs : outcome[m] = "accepted" /\ m \notin Queued}
      /\ InFlight' = {m \in Msgs : outcome'[m] = "accepted" /\ m \notin Queued'}
  BY <1>1, InFlightMeaning, InFlightNext
<1>3. /\ stats.processing \in Int /\ IsFiniteSet(InFlight)
      /\ Cardinality(InFlight) \in Nat /\ Cardinality(RetriesMade) \in Nat
  BY InFlightFinite, RetriesFinite, FS_CardinalityType DEF TypeOK, QueueStats
<1>4. ASSUME InFlight' = InFlight, retryCount' = retryCount,
             stats'.processing = stats.processing
      PROVE  ProcessingAgree'
  BY <1>4 DEF ProcessingAgree, RetriesMade
<1>5. ASSUME NEW m \in Msgs, Enqueue(m) PROVE stats'.processing = stats.processing
  BY <1>5 DEF Enqueue, TypeOK, QueueStats
<1>6. ASSUME NEW m \in Msgs, PushMessage(m) PROVE ProcessingAgree'
  <2>1. outcome[m] # "accepted" /\ m \notin Queued
    BY <1>6 DEF PushMessage, Open, PlaceInv
  <2>2. retryCount' = retryCount /\ stats'.processing = stats.processing
    BY <1>5, <1>6 DEF PushMessage
  <2>3. UNCHANGED <<batch, goroutine>>
    BY <1>6 DEF PushMessage
  <2>4. InFlight' = InFlight
    BY <2>3 DEF InFlight, Batched, Running
  <2>5. QED BY <1>4, <2>2, <2>4
<1>7. ASSUME NEW w \in Workers, BatchPop(w) PROVE ProcessingAgree'
  <2>1. PICK i \in queue : queue' = queue \ {i}
    BY <1>7 DEF BatchPop, Heads
  <2>2. i.msg \in Msgs /\ i.msg \in Queued /\ Queued' = Queued \ {i.msg}
    BY <2>1 DEF TypeOK, Items, Queued, PlaceInv
  <2>3. outcome[i.msg] = "accepted" /\ UNCHANGED <<outcome, retryCount>>
    BY <1>7, <2>2 DEF BatchPop, PlaceInv
  <2>4. InFlight' = InFlight \cup {i.msg} /\ i.msg \notin InFlight
    BY <1>2, <2>2, <2>3
  <2>5. Cardinality(InFlight') = Cardinality(InFlight) + 1
    BY <1>3, <2>4, FS_AddElement
  <2>6. stats'.processing = stats.processing + 1
    BY <1>7 DEF BatchPop, TypeOK, QueueStats
  <2>7. RetriesMade' = RetriesMade
    BY <2>3 DEF RetriesMade
  <2>8. QED BY <1>3, <2>5, <2>6, <2>7 DEF ProcessingAgree
<1>8. ASSUME NEW w \in Workers, NEW m \in Msgs,
             HandleSuccess(w, m) \/ FailMessage(w, m)
      PROVE  ProcessingAgree'
  <2>1. outcome[m] = "accepted" /\ m \notin Queued
    BY <1>8, RunningAlone DEF HandleSuccess, FailMessage
  <2>2. /\ outcome'[m] # "accepted" /\ UNCHANGED <<queue, retryCount>>
        /\ \A k \in Msgs \ {m} : outcome'[k] = outcome[k]
    BY <1>8 DEF HandleSuccess, FailMessage, TypeOK
  <2>3. Queued' = Queued
    BY <2>2 DEF Queued
  <2>4. m \in InFlight /\ InFlight' = InFlight \ {m}
    BY <1>2, <2>1, <2>2, <2>3
  <2>5. Cardinality(InFlight') = Cardinality(InFlight) - 1
    BY <1>3, <2>4, FS_RemoveElement
  <2>6. stats'.processing = stats.processing - 1
    BY <1>8 DEF HandleSuccess, FailMessage, TypeOK, QueueStats
  <2>7. RetriesMade' = RetriesMade
    BY <2>2 DEF RetriesMade
  <2>8. QED BY <1>3, <2>5, <2>6, <2>7 DEF ProcessingAgree
<1>9. ASSUME NEW w \in Workers, NEW m \in Msgs, Retry(w, m) PROVE ProcessingAgree'
  <2>1. outcome[m] = "accepted" /\ m \notin Queued
    BY <1>9, RunningAlone DEF Retry
  <2>2. InFlight' = InFlight \ {m}
    <3>1. CASE Full
      <4>1. queue' = queue /\ outcome' = [outcome EXCEPT ![m] = "dropped"]
        BY <1>9, <3>1 DEF Retry
      <4>2. Queued' = Queued
        BY <4>1 DEF Queued
      <4>3. QED BY <1>2, <4>1, <4>2 DEF TypeOK
    <3>2. CASE ~ Full
      <4>1. outcome' = outcome /\ Queued' = Queued \cup {m}
        BY <1>9, <3>2, EnqueuePlace DEF Retry
      <4>2. QED BY <1>2, <4>1
    <3>3. QED BY <3>1, <3>2
  <2>3. m \in InFlight
    BY <1>2, <2>1
  <2>4. Cardinality(InFlight') = Cardinality(InFlight) - 1
    BY <1>3, <2>2, <2>3, FS_RemoveElement
  <2>5. Cardinality(RetriesMade') = Cardinality(RetriesMade) + 1
    BY <1>9, RetryCounted DEF Retry
  <2>6. stats'.processing = stats.processing
    BY <1>5, <1>9 DEF Retry
  <2>7. QED BY <1>3, <2>4, <2>5, <2>6 DEF ProcessingAgree
<1>10. ASSUME NEW w \in Workers,
              \/ Start(w) \/ Tick(w) \/ LoopExit(w) \/ BatchPopReturns(w)
              \/ Spawn(w) \/ EndBatch(w) \/ Stop(w) \/ StopReturns(w)
              \/ GoroutineExit(w) \/ \E m \in Msgs : ProcessMessage(w, m)
       PROVE  ProcessingAgree'
  <2>1. UNCHANGED <<queue, stats, outcome, retryCount>>
    BY <1>10 DEF Start, Tick, LoopExit, BatchPopReturns, Spawn, EndBatch, Stop,
       StopReturns, GoroutineExit, ProcessMessage
  <2>2. InFlight' = InFlight
    BY <1>2, <2>1 DEF Queued
  <2>3. QED BY <1>4, <2>1, <2>2
<1>11. ASSUME UNCHANGED vars PROVE ProcessingAgree'
  <2>1. UNCHANGED <<queue, stats, outcome, retryCount>>
    BY <1>11 DEF vars
  <2>2. InFlight' = InFlight
    BY <1>2, <2>1 DEF Queued
  <2>3. QED BY <1>4, <2>1, <2>2
<1>12. QED
  BY <1>6, <1>7, <1>8, <1>9, <1>10, <1>11
  DEF Next, LoopStep, GoroutineStep, Terminated

\* ProcessingCount is the number of messages in flight plus the number of
\* retries made: a retry never lowers it.
THEOREM ProcessingCountExplained == Spec => []ProcessingAgree
<1>1. Init => ProcessingAgree
  <2> SUFFICES ASSUME Init PROVE ProcessingAgree
    OBVIOUS
  <2>1. InFlight = {}
    BY InitTypeOK, InitPlace, InFlightMeaning DEF Init
  <2>2. RetriesMade = {}
    <3>1. \A m \in Msgs : retryCount[m] = 0 /\ 1..0 = {}
      BY DEF Init
    <3>2. QED BY <3>1 DEF RetriesMade
  <2>3. stats.processing = 0
    BY DEF Init
  <2>4. QED BY <2>1, <2>2, <2>3, FS_EmptySet DEF ProcessingAgree
<1>2. QED BY <1>1, TypeCorrect, PlaceInvariant, StepProcessing, PTL DEF Spec
=============================================================================
