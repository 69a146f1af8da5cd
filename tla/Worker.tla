------------------------------- MODULE Worker -------------------------------
(***************************************************************************)
(* Several workers (internal/priorityqueue/worker.go) draining one queue   *)
(* of a QueueManager (queue_manager.go, queue.go) that producers fill.     *)
(*                                                                         *)
(* A worker is a loop goroutine - wait for a tick, pop a batch one message *)
(* at a time, start a goroutine per message under a semaphore - plus those *)
(* goroutines, each of which runs processFunc and then completes, fails or *)
(* re-pushes its message.  Stop cancels the worker's context and waits for *)
(* all of them.  A critical section of MultiLevelQueue.mu, or one of       *)
(* statsMu alone, is one step; everything else interleaves.                *)
(*                                                                         *)
(* The queue exists throughout (QueueManager models creation, deletion and *)
(* the second look-up they make visible).                                  *)
(***************************************************************************)
EXTENDS QueueItems, Integers, FiniteSets, Sequences, Functions

CONSTANTS
    Msgs,            \* the messages producers submit, each at most once
    Workers,         \* the workers attached to the queue
    Priority,        \* the priority each message has after the rules
    MaxSize,         \* maxSize of the queue, 0 for no limit
    MaxBatchSize,    \* WorkerConfig.MaxBatchSize
    MaxConcurrent,   \* WorkerConfig.MaxConcurrent, capacity of the semaphore
    MaxRetries       \* BackoffStrategy.MaxRetries()

ASSUME MsgsFinite == IsFiniteSet(Msgs)
ASSUME PriorityType == Priority \in [Msgs -> Priorities]
ASSUME MaxSizeNat == MaxSize \in Nat
ASSUME BatchPositive == MaxBatchSize \in Nat \ {0}
ASSUME ConcurrentPositive == MaxConcurrent \in Nat \ {0}
ASSUME RetriesNat == MaxRetries \in Nat

VARIABLES
    queue,           \* the entries of the queue, a set of Items
    clock,           \* the instant the next entry is stamped with
    stats,           \* the QueueStats of the queue
    retryCount,      \* Message.RetryCount
    attempts,        \* history: calls of processFunc per message
    outcome,         \* history: what became of each message
    loop,            \* where each worker's processLoop is
    stop,            \* progress of each worker's Stop
    batch,           \* popped, not yet handed to a goroutine
    goroutine,       \* phase of the goroutine that carries a message, if any
    exiting,         \* goroutines past processMessage, defers still to run
    semaphore,       \* tokens in the worker's semaphore channel
    wg,              \* the worker's WaitGroup counter
    metrics          \* WorkerMetrics: processFunc results seen so far

msgVars == <<queue, clock, retryCount, attempts, outcome>>
workerVars == <<loop, stop, batch, goroutine, exiting, semaphore, wg, metrics>>
vars == <<msgVars, stats, workerVars>>

-----------------------------------------------------------------------------
(* State predicates the code tests, and the ones the properties speak of.  *)

Full == FullAt(Cardinality(queue), MaxSize)

Cancelled(w) == stop[w] # "no"

\* The messages a worker holds in its batch, and in live goroutines.
Batched(w) == Range(batch[w])
Running(w) == {m \in Msgs : goroutine[w][m] # "none"}
\* What the loop goroutine adds to the WaitGroup.
LoopCount(w) == IF loop[w] \in {"idle", "done"} THEN 0 ELSE 1
Queued == {i.msg : i \in queue}
InFlight == UNION {Batched(w) \cup Running(w) : w \in Workers}

Open == {"new", "rejected"}
Settled == {"completed", "failed", "dropped"}
Phases == {"none", "running", "ok", "err"}
QueueStats == [pending : Int, processing : Int, completed : Int, failed : Int]

-----------------------------------------------------------------------------
Init ==
    /\ queue = {}
    /\ clock = 0
    /\ stats = [pending |-> 0, processing |-> 0, completed |-> 0, failed |-> 0]
    /\ retryCount = [m \in Msgs |-> 0]
    /\ attempts = [m \in Msgs |-> 0]
    /\ outcome = [m \in Msgs |-> "new"]
    /\ loop = [w \in Workers |-> "idle"]
    /\ stop = [w \in Workers |-> "no"]
    /\ batch = [w \in Workers |-> <<>>]
    /\ goroutine = [w \in Workers |-> [m \in Msgs |-> "none"]]
    /\ exiting = [w \in Workers |-> 0]
    /\ semaphore = [w \in Workers |-> 0]
    /\ wg = [w \in Workers |-> 0]
    /\ metrics = [w \in Workers |-> [success |-> 0, failure |-> 0]]

-----------------------------------------------------------------------------
(* Producers. *)

\* MultiLevelQueue.Push once the queue is known to have room.
Enqueue(m) ==
    /\ queue' = queue \cup {QueueItem(m, Priority[m], clock)}
    /\ clock' = clock + 1
    /\ stats' = [stats EXCEPT !.pending = @ + 1]

\* PushMessage by a producer: nil, or ErrQueueFull and it may try again.
PushMessage(m) ==
    /\ outcome[m] \in Open
    /\ IF Full
       THEN /\ outcome' = [outcome EXCEPT ![m] = "rejected"]
            /\ UNCHANGED <<queue, clock, stats>>
       ELSE /\ Enqueue(m)
            /\ outcome' = [outcome EXCEPT ![m] = "accepted"]
    /\ UNCHANGED <<retryCount, attempts, workerVars>>

-----------------------------------------------------------------------------
(* Start, the loop goroutine, and Stop. *)

Start(w) ==
    /\ loop[w] = "idle"
    /\ loop' = [loop EXCEPT ![w] = "select"]
    /\ wg' = [wg EXCEPT ![w] = @ + 1]
    /\ UNCHANGED <<msgVars, stats, stop, batch, goroutine, exiting, semaphore,
                   metrics>>

\* The ticker case of processLoop's select.  A cancelled worker may still
\* take it: select chooses at random between two ready cases.
Tick(w) ==
    /\ loop[w] = "select"
    /\ loop' = [loop EXCEPT ![w] = "pop"]
    /\ UNCHANGED <<msgVars, stats, stop, batch, goroutine, exiting, semaphore,
                   wg, metrics>>

\* Variant of LoopExit for mutation: the deferred wg.Done is missing.
LoopExitNoDone(w) ==
    /\ loop[w] = "select"
    /\ Cancelled(w)
    /\ loop' = [loop EXCEPT ![w] = "done"]
    /\ UNCHANGED <<msgVars, stats, stop, batch, goroutine, exiting, semaphore,
                   wg, metrics>>

\* The ctx.Done case: the loop returns and its deferred wg.Done runs.
LoopExit(w) ==
    /\ loop[w] = "select"
    /\ Cancelled(w)
    /\ loop' = [loop EXCEPT ![w] = "done"]
    /\ wg' = [wg EXCEPT ![w] = @ - 1]
    /\ UNCHANGED <<msgVars, stats, stop, batch, goroutine, exiting, semaphore,
                   metrics>>

\* Variants of BatchPop for mutation: the entry is read but not removed; the
\* pending counter is not lowered.
BatchPopPeeks(w) ==
    /\ loop[w] = "pop"
    /\ Len(batch[w]) < MaxBatchSize
    /\ \E i \in Heads(queue) : batch' = [batch EXCEPT ![w] = Append(@, i.msg)]
    /\ stats' = [stats EXCEPT !.processing = @ + 1]
    /\ UNCHANGED <<msgVars, loop, stop, goroutine, exiting, semaphore, wg,
                   metrics>>

BatchPopKeepsPending(w) ==
    /\ loop[w] = "pop"
    /\ Len(batch[w]) < MaxBatchSize
    /\ \E i \in Heads(queue) :
          /\ queue' = queue \ {i}
          /\ batch' = [batch EXCEPT ![w] = Append(@, i.msg)]
    /\ stats' = [stats EXCEPT !.processing = @ + 1]
    /\ UNCHANGED <<clock, retryCount, attempts, outcome, loop, stop, goroutine,
                   exiting, semaphore, wg, metrics>>

\* One queue.Pop of BatchPopMessages.
BatchPop(w) ==
    /\ loop[w] = "pop"
    /\ Len(batch[w]) < MaxBatchSize
    /\ \E i \in Heads(queue) :
          /\ queue' = queue \ {i}
          /\ batch' = [batch EXCEPT ![w] = Append(@, i.msg)]
    /\ stats' = [stats EXCEPT !.pending = @ - 1, !.processing = @ + 1]
    /\ UNCHANGED <<clock, retryCount, attempts, outcome, loop, stop, goroutine,
                   exiting, semaphore, wg, metrics>>

\* BatchPopMessages returns: the batch is full or the queue is empty.
BatchPopReturns(w) ==
    /\ loop[w] = "pop"
    /\ Len(batch[w]) = MaxBatchSize \/ queue = {}
    /\ loop' = [loop EXCEPT ![w] = "spawn"]
    /\ UNCHANGED <<msgVars, stats, stop, batch, goroutine, exiting, semaphore,
                   wg, metrics>>

\* Variants of Spawn for mutation: the rest of the batch is abandoned on a
\* cancelled context; the goroutine is not added to the WaitGroup; the
\* semaphore does not block.
SpawnOrAbandon(w) ==
    /\ loop[w] = "spawn"
    /\ batch[w] # <<>>
    /\ IF Cancelled(w)
       THEN /\ batch' = [batch EXCEPT ![w] = <<>>]
            /\ UNCHANGED <<semaphore, wg, goroutine>>
       ELSE /\ semaphore[w] < MaxConcurrent
            /\ semaphore' = [semaphore EXCEPT ![w] = @ + 1]
            /\ wg' = [wg EXCEPT ![w] = @ + 1]
            /\ goroutine' = [goroutine EXCEPT ![w][Head(batch[w])] = "running"]
            /\ batch' = [batch EXCEPT ![w] = Tail(@)]
    /\ UNCHANGED <<msgVars, stats, loop, stop, exiting, metrics>>

SpawnNoAdd(w) ==
    /\ loop[w] = "spawn"
    /\ batch[w] # <<>>
    /\ semaphore[w] < MaxConcurrent
    /\ semaphore' = [semaphore EXCEPT ![w] = @ + 1]
    /\ goroutine' = [goroutine EXCEPT ![w][Head(batch[w])] = "running"]
    /\ batch' = [batch EXCEPT ![w] = Tail(@)]
    /\ UNCHANGED <<msgVars, stats, loop, stop, exiting, wg, metrics>>

SpawnUnbounded(w) ==
    /\ loop[w] = "spawn"
    /\ batch[w] # <<>>
    /\ semaphore' = [semaphore EXCEPT ![w] = @ + 1]
    /\ wg' = [wg EXCEPT ![w] = @ + 1]
    /\ goroutine' = [goroutine EXCEPT ![w][Head(batch[w])] = "running"]
    /\ batch' = [batch EXCEPT ![w] = Tail(@)]
    /\ UNCHANGED <<msgVars, stats, loop, stop, exiting, metrics>>

\* One iteration of processBatch: take a semaphore token, start a goroutine.
\* Waiting for the token does not watch the context.
Spawn(w) ==
    /\ loop[w] = "spawn"
    /\ batch[w] # <<>>
    /\ semaphore[w] < MaxConcurrent
    /\ semaphore' = [semaphore EXCEPT ![w] = @ + 1]
    /\ wg' = [wg EXCEPT ![w] = @ + 1]
    /\ goroutine' = [goroutine EXCEPT ![w][Head(batch[w])] = "running"]
    /\ batch' = [batch EXCEPT ![w] = Tail(@)]
    /\ UNCHANGED <<msgVars, stats, loop, stop, exiting, metrics>>

\* processBatch returns to the loop.
EndBatch(w) ==
    /\ loop[w] = "spawn"
    /\ batch[w] = <<>>
    /\ loop' = [loop EXCEPT ![w] = "select"]
    /\ UNCHANGED <<msgVars, stats, stop, batch, goroutine, exiting, semaphore,
                   wg, metrics>>

\* Stop: cancel the context ...
Stop(w) ==
    /\ loop[w] # "idle"
    /\ stop[w] = "no"
    /\ stop' = [stop EXCEPT ![w] = "waiting"]
    /\ UNCHANGED <<msgVars, stats, loop, batch, goroutine, exiting, semaphore,
                   wg, metrics>>

\* ... and return from wg.Wait.
StopReturns(w) ==
    /\ stop[w] = "waiting"
    /\ wg[w] = 0
    /\ stop' = [stop EXCEPT ![w] = "returned"]
    /\ UNCHANGED <<msgVars, stats, loop, batch, goroutine, exiting, semaphore,
                   wg, metrics>>

-----------------------------------------------------------------------------
(* The goroutine of one message. *)

\* ProcessedCount is the sum of the two counters.
updateMetrics(w, ok) ==
    metrics' = IF ok THEN [metrics EXCEPT ![w].success = @ + 1]
               ELSE [metrics EXCEPT ![w].failure = @ + 1]

\* processFunc returns, with or without an error, and updateMetrics runs.
ProcessMessage(w, m) ==
    /\ goroutine[w][m] = "running"
    /\ attempts' = [attempts EXCEPT ![m] = @ + 1]
    /\ \/ /\ goroutine' = [goroutine EXCEPT ![w][m] = "ok"]
          /\ updateMetrics(w, TRUE)
       \/ /\ goroutine' = [goroutine EXCEPT ![w][m] = "err"]
          /\ updateMetrics(w, FALSE)
    /\ UNCHANGED <<queue, clock, stats, retryCount, outcome, loop, stop, batch,
                   exiting, semaphore, wg>>

\* The handler is done with the message; the deferred calls are still to run.
Leave(w, m) ==
    /\ goroutine' = [goroutine EXCEPT ![w][m] = "none"]
    /\ exiting' = [exiting EXCEPT ![w] = @ + 1]
    /\ UNCHANGED <<attempts, loop, stop, batch, semaphore, wg, metrics>>

HandleSuccess(w, m) ==
    /\ goroutine[w][m] = "ok"
    /\ stats' = [stats EXCEPT !.processing = @ - 1, !.completed = @ + 1]
    /\ outcome' = [outcome EXCEPT ![m] = "completed"]
    /\ Leave(w, m)
    /\ UNCHANGED <<queue, clock, retryCount>>

\* Variants of Retry for mutation: one retry too many; RetryCount is not
\* raised.
RetryOnceMore(w, m) ==
    /\ goroutine[w][m] = "err"
    /\ retryCount[m] <= MaxRetries
    /\ retryCount' = [retryCount EXCEPT ![m] = @ + 1]
    /\ ~ Full
    /\ Enqueue(m)
    /\ UNCHANGED outcome
    /\ Leave(w, m)

RetryUncounted(w, m) ==
    /\ goroutine[w][m] = "err"
    /\ retryCount[m] < MaxRetries
    /\ IF Full
       THEN /\ outcome' = [outcome EXCEPT ![m] = "dropped"]
            /\ UNCHANGED <<queue, clock, stats>>
       ELSE /\ Enqueue(m)
            /\ UNCHANGED outcome
    /\ UNCHANGED retryCount
    /\ Leave(w, m)

\* handleFailure with retries left.  The result of PushMessage is not looked
\* at: a full queue drops the message.  ProcessingCount stays as it is.
Retry(w, m) ==
    /\ goroutine[w][m] = "err"
    /\ retryCount[m] < MaxRetries
    /\ retryCount' = [retryCount EXCEPT ![m] = @ + 1]
    /\ IF Full
       THEN /\ outcome' = [outcome EXCEPT ![m] = "dropped"]
            /\ UNCHANGED <<queue, clock, stats>>
       ELSE /\ Enqueue(m)
            /\ UNCHANGED outcome
    /\ Leave(w, m)

\* Variants of FailMessage for mutation: ProcessingCount is not lowered;
\* retries left are not looked at.
FailKeepsProcessing(w, m) ==
    /\ goroutine[w][m] = "err"
    /\ retryCount[m] >= MaxRetries
    /\ stats' = [stats EXCEPT !.failed = @ + 1]
    /\ outcome' = [outcome EXCEPT ![m] = "failed"]
    /\ Leave(w, m)
    /\ UNCHANGED <<queue, clock, retryCount>>

FailAtOnce(w, m) ==
    /\ goroutine[w][m] = "err"
    /\ stats' = [stats EXCEPT !.processing = @ - 1, !.failed = @ + 1]
    /\ outcome' = [outcome EXCEPT ![m] = "failed"]
    /\ Leave(w, m)
    /\ UNCHANGED <<queue, clock, retryCount>>

\* handleFailure without retries left.
FailMessage(w, m) ==
    /\ goroutine[w][m] = "err"
    /\ retryCount[m] >= MaxRetries
    /\ stats' = [stats EXCEPT !.processing = @ - 1, !.failed = @ + 1]
    /\ outcome' = [outcome EXCEPT ![m] = "failed"]
    /\ Leave(w, m)
    /\ UNCHANGED <<queue, clock, retryCount>>

\* Variant of GoroutineExit for mutation: the token is not given back.
GoroutineExitKeepsToken(w) ==
    /\ exiting[w] > 0
    /\ exiting' = [exiting EXCEPT ![w] = @ - 1]
    /\ wg' = [wg EXCEPT ![w] = @ - 1]
    /\ UNCHANGED <<msgVars, stats, loop, stop, batch, goroutine, semaphore,
                   metrics>>

\* The deferred calls: give the token back, then wg.Done.  They are one step:
\* only wg.Wait reads what wg.Done changes, and returning later is as good.
GoroutineExit(w) ==
    /\ exiting[w] > 0
    /\ exiting' = [exiting EXCEPT ![w] = @ - 1]
    /\ semaphore' = [semaphore EXCEPT ![w] = @ - 1]
    /\ wg' = [wg EXCEPT ![w] = @ - 1]
    /\ UNCHANGED <<msgVars, stats, loop, stop, batch, goroutine, metrics>>

-----------------------------------------------------------------------------
\* Every Stop has returned: nothing runs any more.
Terminated ==
    /\ \A w \in Workers : stop[w] = "returned"
    /\ UNCHANGED vars

LoopStep(w) ==
    \/ Start(w) \/ Tick(w) \/ LoopExit(w) \/ BatchPop(w)
    \/ BatchPopReturns(w) \/ Spawn(w) \/ EndBatch(w)

GoroutineStep(w) ==
    \/ \E m \in Msgs : \/ ProcessMessage(w, m) \/ HandleSuccess(w, m)
                       \/ Retry(w, m) \/ FailMessage(w, m)
    \/ GoroutineExit(w)

Next ==
    \/ \E m \in Msgs : PushMessage(m)
    \/ \E w \in Workers : LoopStep(w) \/ GoroutineStep(w)
                          \/ Stop(w) \/ StopReturns(w)
    \/ Terminated

Spec == Init /\ [][Next]_vars

(***************************************************************************)
(* Scheduling.  The Go scheduler runs every runnable goroutine, the ticker *)
(* keeps ticking and processFunc returns (its context expires after        *)
(* message.Timeout), so each of those steps is weakly fair.  Leaving the   *)
(* loop is strongly fair: once the context is cancelled its case is ready  *)
(* in every select, and select picks among ready cases at random.  Nobody  *)
(* has to push or to call Stop.                                            *)
(***************************************************************************)
Fairness ==
    \A w \in Workers :
        /\ WF_vars(Start(w)) /\ WF_vars(Tick(w)) /\ SF_vars(LoopExit(w))
        /\ WF_vars(BatchPop(w)) /\ WF_vars(BatchPopReturns(w))
        /\ WF_vars(Spawn(w)) /\ WF_vars(EndBatch(w))
        /\ WF_vars(StopReturns(w)) /\ WF_vars(GoroutineExit(w))
        /\ \A m \in Msgs :
              /\ WF_vars(ProcessMessage(w, m))
              /\ WF_vars(HandleSuccess(w, m))
              /\ WF_vars(Retry(w, m) \/ FailMessage(w, m))

FairSpec == Spec /\ Fairness

-----------------------------------------------------------------------------
(* Properties. *)

(* The types of the variables.  Counters are integers: that they never go   *)
(* below zero follows from the laws below.                                 *)
TypeOK ==
    /\ queue \subseteq Items(Msgs)
    /\ clock \in Nat
    /\ stats \in QueueStats
    /\ retryCount \in [Msgs -> 0..MaxRetries]
    /\ attempts \in [Msgs -> Nat]
    /\ outcome \in [Msgs -> Open \cup Settled \cup {"accepted"}]
    /\ loop \in [Workers -> {"idle", "select", "pop", "spawn", "done"}]
    /\ stop \in [Workers -> {"no", "waiting", "returned"}]
    /\ batch \in [Workers -> Seq(Msgs)]
    /\ goroutine \in [Workers -> [Msgs -> Phases]]
    /\ exiting \in [Workers -> Nat]
    /\ semaphore \in [Workers -> Int]
    /\ wg \in [Workers -> Int]
    /\ metrics \in [Workers -> [success : Nat, failure : Nat]]

(* A message whose push returned nil, and that is not settled yet, is in   *)
(* one place only, the queue, one worker's batch or one worker's           *)
(* goroutine: popping in a loop without holding the lock, retrying while   *)
(* the old goroutine is still leaving and stopping in the middle of a      *)
(* batch do not duplicate it.                                              *)
NoDoubleDelivery ==
    /\ \A i, j \in queue : i.msg = j.msg => i = j
    /\ Queued \cap InFlight = {}
    /\ \A w \in Workers :
          /\ IsInjective(batch[w])
          /\ Batched(w) \cap Running(w) = {}
          /\ \A v \in Workers \ {w} :
                (Batched(v) \cup Running(v)) \cap (Batched(w) \cup Running(w)) = {}

(* A message is accepted and not settled exactly as long as the queue or a *)
(* worker holds it: nothing accepted is lost, nothing settled comes back.  *)
Conservation ==
    \A m \in Msgs : outcome[m] = "accepted" <=> m \in Queued \cup InFlight

(* processBatch never has more than MaxConcurrent goroutines under way,    *)
(* the ones that have handed their message back but not yet returned       *)
(* included; every token and every WaitGroup count has an owner.           *)
ConcurrencyBound ==
    \A w \in Workers :
        /\ semaphore[w] = Cardinality(Running(w)) + exiting[w]
        /\ semaphore[w] <= MaxConcurrent
        /\ wg[w] = semaphore[w] + LoopCount(w)

(* When Worker.Stop returns, no goroutine of the worker is left and it     *)
(* holds no message, although Stop may come while a batch is being popped  *)
(* or waits for the semaphore.                                             *)
StopIsQuiescent ==
    \A w \in Workers : stop[w] = "returned" =>
        /\ loop[w] = "done"
        /\ batch[w] = <<>>
        /\ Running(w) = {}
        /\ exiting[w] = 0

(* PendingCount, CompletedCount and FailedCount of QueueStats are the      *)
(* numbers of entries, of completed and of failed messages: the statistics *)
(* have a lock of their own, yet never drift from the queue.               *)
StatsAgree ==
    /\ stats.pending = Cardinality(queue)
    /\ stats.completed = Cardinality({m \in Msgs : outcome[m] = "completed"})
    /\ stats.failed = Cardinality({m \in Msgs : outcome[m] = "failed"})

\* The retries made so far: a message and the number of its retry.
RetriesMade == UNION {{m} \X (1..retryCount[m]) : m \in Msgs}

(* What ProcessingCount really counts: handleFailure's retry path leaves   *)
(* it raised, so it exceeds the messages in flight by exactly the retries  *)
(* made so far, whoever made them and whether or not they were re-queued.  *)
ProcessingAgree ==
    stats.processing = Cardinality(InFlight) + Cardinality(RetriesMade)

(* What the gauge fed from ProcessingCount says it is, the "number of      *)
(* processing messages in queue": the first retry refutes it, and the      *)
(* difference never goes away.                                             *)
ProcessingIsInFlight == stats.processing = Cardinality(InFlight)

(* handleFailure's retry budget: processFunc is called at most             *)
(* MaxRetries + 1 times for a message, a message is failed only after all  *)
(* of them, and a dropped message has used fewer.                          *)
RetryBudget ==
    \A m \in Msgs :
        /\ attempts[m] <= MaxRetries + 1
        /\ outcome[m] = "failed" => attempts[m] = MaxRetries + 1
        /\ outcome[m] = "dropped" => attempts[m] \in 1..MaxRetries

(* The workers and the queue implement the life of a message that          *)
(* MessageDelivery promises.                                               *)
StatusOf(m) ==
    IF outcome[m] # "accepted" THEN outcome[m]
    ELSE IF m \in Queued THEN "pending" ELSE "processing"

Delivery == INSTANCE MessageDelivery
    WITH status <- [m \in Msgs |-> StatusOf(m)], retries <- retryCount

DeliverySpec == Delivery!Spec

(* As long as some worker is left running, an accepted message is settled: *)
(* a full batch, an exhausted semaphore, more urgent messages, and the     *)
(* retries of others delay it, none holds it for ever.                     *)
EventuallySettled ==
    \A m \in Msgs :
        outcome[m] = "accepted"
            ~> (outcome[m] \in Settled \/ \A w \in Workers : Cancelled(w))

(* Worker.Stop returns: the goroutines and the loop come to an end,        *)
(* whatever they were doing when the context was cancelled.                *)
StopTerminates ==
    \A w \in Workers : stop[w] = "waiting" ~> stop[w] = "returned"

(* What handleFailure's comment says: a failed message with retries left   *)
(* is put back into the queue.  The code ignores a failing push, so this   *)
(* does not hold.                                                          *)
RetryIsRequeued == \A m \in Msgs : outcome[m] # "dropped"
=============================================================================
