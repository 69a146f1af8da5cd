# A TLA+ model of llm-message-queue

This directory holds a formal model of the message queue in this repository:
TLA+ modules for its components, TLC configurations that check them on small
instances, and proofs, checked by TLAPS, of what matters most for every
instance. `PROJECT.json` lists components, runs, the source lines every
definition stands for, findings, hazards and theorems.

    tlc -config Worker.cfg MCWorker        # a run
    tlapm WorkerProofs.tla                 # a module of proofs

## 1. The system and its parts

Producers submit messages through an HTTP API; a preprocessor gives them a
priority; named priority queues hold them; workers take them out in batches,
process them and retry failures. Around that sit a delayed queue, a dead letter
queue, a load balancer for the model endpoints, a resource scheduler and two
managers of conversation state.

| Part (source) | State | Operations | What is hard |
|---|---|---|---|
| Priority queue (`internal/priorityqueue/queue.go`) | heaps, limit, statistics with a lock of their own | Push, Pop, Peek, CompleteMessage, FailMessage | index kept through swaps; statistics in step with the heap |
| Queue manager (`queue_manager.go`) | table of named queues, monitor goroutine | Create, Delete, (Batch)Push, (Batch)Pop, Complete, Fail | the queue is looked up, the lock given up, then used; a second look-up on completion |
| Worker (`worker.go`) | loop goroutine, one goroutine per message, semaphore, WaitGroup, metrics | Start, Stop, batches, retry | interleavings of workers and producers, Stop in the middle of a batch, retry into a full queue |
| Delayed queue (`delayed_queue.go`) | heap by due time, two goroutines, two unbuffered channels, a timer | Schedule, Clear, Stop | stale `nextItem`, early or missed items, goroutines waiting for each other |
| Dead letter queue (`dead_letter_queue.go`) | slice of entries, notification channels | Push, Remove, Clear, (Batch)Requeue | push before remove, positions that move, notification after the receiver has gone |
| Queue factory (`queue_factory.go`) | managers and workers by name | Create..., StopAll | StopAll waits for workers while it holds the factory lock |
| Load balancer (`internal/loadbalancer`) | endpoints by type, connections, sessions, round-robin index | Add, Remove, GetEndpoint, ReleaseEndpoint, health checks | three critical sections per GetEndpoint, a lock that is not released |
| Resource scheduler (`internal/scheduler/resource_scheduler.go`) | resources, pending requests, allocations | Request, Release, heartbeat, background loops | an account that heartbeats replace, order of the pending queue, allocations that expire under their users |
| Scheduling policies (`internal/scheduler/scheduler.go`) | none | add and remove endpoints by load | missing statistics (section 6) |
| Conversation manager (`internal/conversation`) | cache of conversations and users over a store | Get, AddMessage, Update, Delete, clean-up | load outside the lock, clean-up from a stale list |
| State manager (`internal/statemanager`) | copies in memory and in Redis over PostgreSQL | Get, AddMessage, Update, Delete, UpdateMessage | a fill that comes after an invalidation, lost updates, writes whose reply is lost, rows that move |
| Preprocessor (`internal/preprocessor`) | rules, user priorities | ProcessMessage | order of the rules |
| API and programs (`api`, `cmd`) | none of their own | requests, start-up, the serving loop of `cmd/queue-manager` | one step of several failing, starvation of low priorities |

Workers call the queue manager, which owns the queues; the dead letter queue
calls the queue manager's PushMessage with its own lock held; the delayed queue
calls back into user code; clients of the load balancer keep an endpoint between
GetEndpoint and ReleaseEndpoint. The handlers of the API server call the
preprocessor, the queue factory and the conversation manager one after the
other; the gateway and the queue-manager program use the state manager, several
processes of which share Redis and PostgreSQL. Nothing else is shared.

What makes each part correct: a queue returns a most urgent, then oldest entry
and keeps its limit and its statistics; a message accepted is in one place until
it is completed, failed or (see below) dropped; a worker never exceeds its
concurrency and leaves nothing behind when Stop returns; a delayed message is
neither early nor forgotten; a parked message has one entry and comes back with
a new retry budget; an endpoint handed out is usable and its connections are
counted down again; a conversation keeps the messages added to it, across
restarts; what a request was answered agrees with what became of its message;
a copy of a row is what the database has.

## 2. Modules

| Module | Models | Correspondence |
|---|---|---|
| `QueueItems` | entries of a queue | `QueueItem`, `Less`, the test for ErrQueueFull; `Heads(S)` is what `heap.Pop` may return |
| `PrioritySet` | what a priority queue promises | abstract specification |
| `PriorityHeap` | the slice, `container/heap` on it, `Index` | implements `PrioritySet`; the other modules use the set. `up` and `down` are recursive functions of the number of turns of their loops |
| `MessageDelivery` | the life of a message | abstract specification |
| `Worker` | producers, one queue, several workers | one action per critical section; a loop goroutine is `loop[w]`, the goroutine of a message is `goroutine[w][m]`, its deferred calls are `exiting[w]` |
| `QueueManager` | the table of queues, clients | every queue ever created is an *incarnation*; a client keeps the one it found |
| `DelayedQueue` | both goroutines | `run` and `proc` are the program counters; channels are rendezvous steps; time in half milliseconds |
| `DeadLetterQueue` | the slice, requeueing, notifications | `mu` is held across the steps of BatchRequeue; Requeue is a batch of one; `DLPush` is Push |
| `LoadBalancer` | endpoints, sessions, clients | `mutex` is "leaked" once GetEndpoint has returned without Unlock; AddEndpoint takes the Connections the endpoint brings |
| `ResourceScheduler` | resources, requests, allocations, the pending queue | one action per critical section; a call of processPendingRequests is a process with its `todo` and `remaining` slices; a resource may send any account of its use; time is abstract, loads are 128ths |
| `Conversation` | the conversation manager over its Redis store | one action per critical section or store access; a request in GetConversation or GetUserConversations is at `call[k].at` |
| `Preprocessor` | the rules that set a priority | operators; a result is a set where map iteration decides |
| `Submission` | the handlers of `api/handlers.go` | composes `Conversation` and `Preprocessor` with the factory's manager and its queues; one action per step of a handler |
| `StateManager` | rows, copies, calls in several processes | one action per access to memory, Redis or PostgreSQL; a statement fails without effect (`DatabaseError`) or with it (`ReplyLost`) |
| `Serving` | the loop of `cmd/queue-manager`, the gateway's POST /messages | `pc[w]` is the worker's place in processMessages, `at[w]` the level it pops next |
| `WorkerProofs`, `QueueManagerProofs`, `DelayedQueueProofs`, `DeadLetterQueueProofs`, `StateManagerProofs`, `SubmissionProofs` | | theorems about the module in the name (section 4) |
| `DispatchProofs` | | theorems about `Serving` and about `LoadBalancer`, which share no name: those of the balancer's specification begin with `LB` |
| `SchedulingProofs` | | theorems about `PriorityHeap` and about `ResourceScheduler`; the names of the heap's specification begin with `Heap` |
| `MC*` | | instances for TLC; `MCQueues` has those of `QueueManager`, `PriorityHeap` and `DeadLetterQueue`, whose names are kept apart by the prefixes `Heap` and `DL` |

Definitions whose comment begins "Variant of" are mutations of the action below
them: no specification uses them. They serve to show that each property fails
when the code is changed in the way they describe.

Abstractions. Message contents, names and reasons are left out; so are logging,
Prometheus counters and time totals. In `Worker` the queue exists throughout
(creation and deletion are in `QueueManager`), the priority is the one after the
rules, and time is the order of pushes. A worker's back-off is left out because
the code computes it and pushes at once. The two deferred calls of a goroutine
are one step. In `LoadBalancer` the weighted and the adaptive strategy may
choose any healthy endpoint: every weight counts at least one, and response
times and error rates are not modelled. Sessions do not expire there, since
`NewLoadBalancer` sets SessionTimeout to 0; `brought` remembers the Connections
an endpoint was last added with. In `ResourceScheduler` the account a heartbeat
carries is any of `Usages`, or what is in use; the latter is what clients work
with (`using`), which their allocations may have expired under. The history
variables `short` and `misled` say which resource has sent an account that left
something out, and which one was given a request on the strength of one. In
`Conversation` time is a free choice: any conversation may have expired when the
clean-up looks, so timestamps, state and metadata need no variables; the history
variables `log` and `spoiled` say what was added and why it may be missing.
`StateManager` keeps of a row its MessageCount and its status. PostgreSQL and
Redis are external there: a statement is one step that happens once, between the
beginning and the end of the call that makes it, whether or not the call learns
of it; that a statement takes effect after its call has ended is excluded. The
history variables `inserted` (the messages AddMessage has put into a
conversation), `overtaken` (calls about to store a copy read before a write
since, or during one) and `reasons` (the events that may have left an old copy
behind) are what its properties refer to. In `Serving` the gateway and the
workers share one queue; the repository's programs each have one in their own
memory. The queues of `Submission` are the ones an operator would create:
`cmd/server` itself creates none, so that every push there fails, and no worker
empties them.

## 3. Runs

| Run | Bounds | Shows |
|---|---|---|
| `worker` | 2 messages, 2 workers, queue of 1, batches of 2, 1 slot, 1 retry | `TypeOK`, `NoDoubleDelivery`, `Conservation`, `ConcurrencyBound`, `StopIsQuiescent`, `StatsAgree`, `ProcessingAgree`, `RetryBudget`, `DeliverySpec` (refinement of `MessageDelivery`), `EventuallySettled`, `StopTerminates` |
| `worker_retry_dropped` | as above | violated: `RetryIsRequeued` |
| `worker_processing_count` | as above | violated: `ProcessingIsInFlight` |
| `queues` | manager: 1 name, 2 incarnations, 2 clients, 3 messages; heap: up to 5 entries, 6 pushes, ties in priority and time; dead letters: 3 messages, 2 entries, source queue of 2, 3 parked, batches of up to 3 indices | `OneIncarnation`, `LimitsHold`, `InstanceAccounting`; `IndexAgrees`, `SetSpec` (refinement of `PrioritySet`); `ParkedOnce`, `RequeueAsAsked`, `BudgetRenewed` |
| `delayed` | 2 messages, one scheduled again, due at 0, 1 and 1.5 ms, clock to 2 ms | `OnePlace`, `TimerCoversHeap`, `NeverEarly`, `EventuallyProcessed`, `StopEndsOrStrands` |
| `load_balancer` | 2 endpoints of one type that bring 0 or 1 connections, 2 clients, 1 session, each way to select | `NoLeakedConnections`, `ServedIsHealthy`, `RoundRobinIsEven` |
| `load_balancer_lock` | 1 endpoint | violated: `GetEndpointReturns` |
| `resource_scheduler` | 2 resources, 2 of 3 requests, 2 resource types, the ticker and 1 goroutine, accounts of nothing and of what is in use | `RequestOnce`, `NoOvercommit`, `Served` |
| `submission` | 2 conversations, 2 messages, 2 requests at a time and 3 altogether, context of 1, list of 1, queues of 1, 1 restart | `HistoryKept`, `AnswersAgree` |
| `state_manager` | 2 conversations, 2 messages, 3 requests at a time in 2 processes and 3 altogether | `CopiesAgree`, `CountHasInserts` |
| `serving` | 4 messages on 3 of 4 levels, submitted again and again, queues of 1, 2 workers | `OvertakenOnceEach`, `StarvedOnlyByUrgent`, `ShutdownEnds` |
| `serving_starvation` | as above | violated: `NoStarvation` |

The three modules of `queues` share no variable; a behaviour of `MCQueues` runs
one of them and leaves the others at their beginning, which visits the states of
each and no product of them.

Why the bounds are enough for the cases in question. The queue of the worker
runs is smaller than the number of messages, so a producer can fill it between a
pop and the retry; batches are larger than the semaphore (a second message is
pushed between two pops of a batch), so a batch waits for a token while Stop
comes; with two workers a retried message changes hands. A heap of five entries
has three levels, so both children and a grandchild are compared. Two
incarnations suffice for a stale look-up, and one of three messages overflows a
queue of one or two. Two delayed messages let an earlier one arrive while run
waits for a later one, or one be due while processFn schedules the other; the
times are closer together than, equal to and further apart than the tolerance.
In the dead letter queue three pushes park one message twice and another one
beside it. Two clients sharing a session meet every order of the three critical
sections of GetEndpoint; an endpoint is removed and added again, with a
connection of its own or none, while one of them holds it. A strategy selects in
turn, by connections, or freely, so three of the five are enough. The three
requests to the resource scheduler differ in what fits where and in their
timeout (none, stamped, not stamped); a behaviour makes any two of them, which
together exceed the larger resource, and ticker and goroutine can hold parts of
the queue at the same time. An account of nothing makes the scheduler give away
what is in use. In `submission` two requests are enough for a fill that
overtakes a change, the third one comes before or after, for instance with a
user priority that sends both messages to one queue of one entry; the second
message pushes the first one out of the context, and the second conversation
pushes the first one off the list. In `state_manager` a call that reads or
inserts races with an update in its own process or in the other one, and a third
one has filled a copy before; a row may move to the other conversation and back
at any time, between a call's insertion and its update too, and an AddMessage
may come again with a message that has a row. Each of the five reasons of
`CopiesAgree` is needed: TLC finds a state with old copies for every one that is
taken away. In `serving` one level is missing, one is contested, and either
worker can be behind a level when a message arrives there.

Deadlock is checked in `worker`. In the other passing runs behaviours really
end: the clock stops at its bound and an idle queue waits, all messages or calls
are used up, all workers have left, or the balancer's lock is gone.

Symmetry is used in safety runs only, over messages, clients, endpoints or
conversations that the specification does not tell apart. The messages of the
heap, which are numbers, are taken in order instead (`NextMsg`). Two safety runs
have a VIEW, which leaves out what no later step and no property reads:
`load_balancer` the fields of endpoints the balancer does not know, which
AddEndpoint sets, and `queues` the entry the heap returned last, which
`PrioritySet` constrains in the step that returns it.

Fairness. `Worker`: the Go scheduler runs every runnable goroutine, the ticker
keeps ticking, processFunc returns (its context expires), so these steps are
weakly fair; leaving the loop is strongly fair, because select picks at random
among ready cases and the done context is ready in every one. Nobody has to push
or to call Stop. `DelayedQueue`: time passes, both goroutines run, processFn
returns; receiving on pushCh and seeing the context are strongly fair for the
same reason. `LoadBalancer`: a client goes on with the call it is in.
`ResourceScheduler`: the ticker and the goroutines run, a client finishes its
call and releases what it was given, and a registered resource keeps reporting
what is in use, between whatever else it reports; no resource has to register,
to stay online or to recover. `Served` supposes of one resource that it stays in
service and that from some time on its reports are true: against reports that
all is in use no request would be served, so there the property says nothing.
`Serving`: every worker goroutine runs, its sleep and its processing time end
and the database answers (each step weakly fair per worker); nobody has to
submit or to shut down. `Submission` and `StateManager` are checked for safety
only.

## 4. Proofs

Every safety property of the passing runs, the two refinements included, is a
theorem for all values of the constants. Constants are restricted only by the
named assumptions of the modules: sizes are numbers, tables have their domains,
and a set is finite where the program counts over it. The loops of the heap and
of the dead letter queue's sort are proved by induction on the number of turns.
The library's induction theorems take an operator, which the provers cannot
instantiate, so `SetInduction` says the same of a set of numbers; it follows
from `<` being well-founded on Nat.

**`WorkerProofs`** (`MsgsFinite`, `PriorityType`, `MaxSizeNat`, `BatchPositive`,
`ConcurrentPositive`, `RetriesNat`; a limit of 0 means no limit and is included,
a concurrency of 0 would block the worker for ever and is not).

- `TypeCorrect`: types, with retry counts within MaxRetries.
- `NeverDeliveredTwice`, `AcceptedIsKept`: the inductive invariant `PlaceInv`
  says message by message that the entry in the queue, the batch and the
  goroutine exclude each other, and that one of them exists exactly while the
  message is accepted. Neither property is inductive without the other: a pop
  keeps the message single only because what was in the queue was nowhere else.
- `GoroutinesBounded`, `StopLeavesNothing`: `CountInv` adds to the token and
  WaitGroup counts that a batch is non-empty only while the loop pops or spawns
  and that a loop that is done has been cancelled; from wg = 0 it follows that
  the loop is done and no goroutine is left.
- `RetryBudgetKept`: `RetryInv` ties the attempts of a message to its retry
  count by the phase it is in; it needs `PlaceInv`, since two goroutines with
  one message could both count.
- `ImplementsDelivery`: every step maps to a step of `MessageDelivery` or leaves
  it unchanged.
- `StatsNeverDrift`, `ProcessingCountExplained`: PendingCount, CompletedCount
  and FailedCount are what they say; ProcessingCount is the number in flight
  plus the retries made. The latter is a sum over the messages, `RetriesMade`;
  instead of an induction, the proof follows how each step changes one summand.

**`QueueManagerProofs`** (`MsgsFinite`, `SubmittedType`, `SizesType`,
`BoundsType`).

- `OneIncarnationOnly`: a message is in the queue it was pushed to and in no
  other. A client acts on the incarnation it found earlier, so `EntryInv` adds
  what calls hold meanwhile: what a client is about to push is not queued
  anywhere (`TodoInv`), what it has popped and not finished is nobody else's
  (`HeldInv`), and a message remembers an incarnation that exists
  (`OriginKnown`).
- `NoIncarnationOverfull`: the limit, also of deleted incarnations.
- `AccountsBalance`: `AccountInv` relates the three counters of an incarnation
  to the sets of messages that came from it and were settled at it. Those are
  counts of finite sets, hence `MsgsFinite`; it rests on `EntryInv`, since a
  message entered or settled twice would be counted twice.

**`DelayedQueueProofs`** (`TimesType`, `SlackType`, `SwitchesType`).

- `NeverHandedOverEarly` needs no invariant: an item is tested again when it is
  popped.
- `TimerNeverLate`: while run waits, its timer fires no later than the earliest
  item is due. `TimerInv` adds the step before: when run decides how long to
  wait, `nextItem` is due no later than anything in the heap, as every push that
  could change this goes through run itself.
- `NothingLost`: `PlaceInv` follows an item through both rendezvous channels.

**`DeadLetterQueueProofs`** (`DLSizes`).

- `NeverParkedTwice`: `ParkInv` excepts the entry whose message a requeue has
  pushed and is about to remove; `mu`, held from the push to the removal, keeps
  that entry at its position.
- `BudgetAlwaysRenewed`: `BudgetInv` relates attempts and retry count through
  parking and requeueing.
- `BatchRequeuedAsAsked`: what a batch takes out is what was asked for, and the
  rest keeps its order. It has one hypothesis, `BatchesNameOnce`: no batch names
  an index twice. Without it the property is false (section 5); the batches of
  the run satisfy it. `RequeueInv` says of a batch in progress that the indices
  still to come descend, that nothing up to the next one has moved, that what is
  gone was asked for and that what is left stands in its old order. That the
  indices descend is what `sortIndices` is for (`SortIndicesSorts`): after i
  rounds of its outer loop the first i indices are in place and none after them
  is larger (`Settled`), and within a round the largest seen so far is at
  position i (`Settling`).

**`DispatchProofs`**, on `Serving` (`LevelType`, `LevelsType`, `ServingSizes`).

- `BoundedOvertaking`: a waiting message is overtaken at most once per worker.
  The bound counts the workers already past the message's level, and holds on
  only because a worker passes a level when that is empty, which takes
  `QueuedAtLevel`: a queued message is an entry of its level.

On `LoadBalancer` (`ClientsFinite`):

- `NoConnectionLeaked`: with `CallInv` (a call has no endpoint and counts
  nothing before its selection), each selection adds one client to those that
  count, and each release takes one off or none. When an endpoint is added, with
  whatever Connections, nobody counts one to it yet.
- `OnlyHealthyServed`: whatever a call is given is known and healthy.
- `RoundsAreEven`: a round that is under way has served exactly the healthy
  endpoints whose index lies between the index it began at and the current one,
  past the end of the slice or not (`RoundInv`). The index is a count of healthy
  places, so the proof shows first that it numbers them from 0 without gaps or
  repetition, and that no identifier stands twice in a group. When endpoints or
  their status change a round ends, and the next may begin at any index left
  behind.

**`SchedulingProofs`**, on `PriorityHeap` (`LevelsType`, `SizesNat`).

- `IndexAlwaysAgrees`: every entry's Index is its position. It is inductive only
  with the rest of `HeapInv`: the slice holds entries (`Stands`) and no entry is
  to be served before its parent (`Heaped`).
- `ImplementsPrioritySet`: each Push and Pop is one of the set. While `up` or
  `down` runs, the slice is a heap except where one entry may still have to move
  (`HeapedUp`, `HeapedDown`), and holds the same entries. Every turn that moves
  an entry lowers a number, its position or its distance from the end, so that
  after as many turns as the slice is long none is left to make (`TurnsEnd`).
  Then every entry is ordered with its parent, and by induction with the first
  one (`RootFirst`), which is the one Pop returns.

On `ResourceScheduler` (`RSRequirements`: numbers, and a finite set of
requests):

- `NeverLostOrDoubled`: the calls of processPendingRequests keep parts of the
  pending queue in slices of their own. `RequestOnce` is inductive with
  `IdleInv` (a call that is not running has empty slices); the proof shows for
  each move of a request from one sequence to another that the places stay
  apart.
- `NeverOvercommitted`: what is recorded as used covers the demands of the
  clients that use the resource, unless its last account left something out, and
  what is in use stays within capacity, unless a request was given on such an
  account; a sum over requests again, followed step by step. It rests on
  `UnusedInv`: nothing of a resource is in use before it is registered, whatever
  Used it brings.

**`StateManagerProofs`** (`ProcessOfType`, `MsgsFinite`, `MaxCallsNat`).

- `CountsAreCovered`: `CountInv` says of every copy (row, Redis, a process, the
  hands of a call) that its count is within the messages inserted, and of an
  AddMessage that has inserted its message that one more than its copy's count
  still is: that is the number it is about to write. That a message is inserted
  once is `InsertedInv`: what was inserted has a row, wherever it has moved.
- `CopiesStayFresh`: `AgreeInv` says, for a conversation none of the five events
  has struck, that a call about to store a copy has what the database has or is
  known to be overtaken, that a copy in memory differs from the row only while
  some call is about to drop copies, and likewise in Redis. `RowOK` says that a
  row is made once and that before there is nothing to copy; with `ReasonsGrow`,
  that what has struck is not forgotten, it makes this inductive. Any number of
  calls may read and write the conversation meanwhile.

**`SubmissionProofs`** (`LimitsType` of `Conversation`; `AnonymousType`,
`AskedType`, `RequestType`).

- `HistoryAlwaysKept`: `HistoryInv` relates memory, store and the history of
  each conversation by how it is spoiled: while a failed save has left the store
  behind, the conversation is still in memory, where the next save finds it.
- `AnswersAlwaysAgree`: `MessageInv` says what holds of a message at each step
  of its handler, before there is an answer to agree with, and that no two
  requests carry the same message.

Only model-checked: liveness (`EventuallySettled`, `StopTerminates`,
`EventuallyProcessed`, `StopEndsOrStrands`, `Served`, `StarvedOnlyByUrgent`,
`ShutdownEnds`), since fairness and ENABLED are beyond the prover, and the four
violations, which are counterexamples.

## 5. What the checks show about the code

Disagreements with the repository's own words, each with a run:

- A retry that finds the queue full loses the message: `handleFailure` ignores
  the result of PushMessage (`worker_retry_dropped`).
- GetEndpoint's early returns keep the mutex (`load_balancer_lock`).
- The count of messages being processed is too high by one for every retry ever
  made (`worker_processing_count`). `ProcessingAgree` is the exact law.
- Levels are served strictly by priority, so a message waits for ever behind a
  steady stream of more urgent ones, which `docs/architecture.md:90` rules out
  (`serving_starvation`). Nothing else starves it (`StarvedOnlyByUrgent`).

Behaviour that exact laws of passing runs record:

- ProcessingCount can go below zero when a queue is deleted and created again
  before a message is completed (`InstanceAccounting`).
- Connections can be below the number of clients using an endpoint, as the
  session path counts none, and above it for good when an endpoint is added with
  connections of its own or again after its clients' releases have found it
  missing (`NoLeakedConnections` bounds it by both).
- Stop can strand the delayed queue's run in a send (`StopEndsOrStrands`).
- `Schedule` called from processFn can block for ever together with both
  goroutines of the delayed queue (the exception `Embrace` of
  `EventuallyProcessed`).
- Releasing an allocation gives no capacity back; `Served` holds because
  resources go on reporting what is in use. A report that leaves something out,
  because an allocation has overtaken it or its user has not begun, makes the
  scheduler give the same units twice (the exceptions of `NoOvercommit`).
- A message overtakes a more urgent one at most once per worker
  (`OvertakenOnceEach`).
- A message that is being processed at shutdown is lost; the workers end
  (`ShutdownEnds`).
- MessageCount loses counts when calls overlap, and never claims more messages
  than AddMessage has inserted (`CountHasInserts`). It may claim more than the
  conversation still has rows: UpdateMessage saves every column of a message it
  is given, its conversation included, and adjusts no count.
- An old copy stays in Redis or in a process for one of five reasons: a read
  that stores its copy after a write has overtaken it, a copy in another process
  (which nothing ever drops), a failed Redis delete, a crash in the middle of an
  update, and a write that was made although its call is told that it failed,
  since no copy is dropped then (`CopiesAgree`).
- A conversation loses messages when a fill overtakes a change, when a failing
  load is taken for "not found" and the empty conversation is saved over the old
  one, or when a save fails or expires and none follows (`HistoryKept`).
- `addMessageToConversation` leaves a message in the conversation that no queue
  took; `submitMessage` answers 202 for a message whose conversation was cleaned
  up before it got there (`AnswersAgree`).

Seen while modelling: BatchRequeue with an index given twice requeues an entry
that was not asked for (the batches of the run name each index once); the
pending queue of the resource scheduler loses its order by priority when a
processing call puts back what it could not serve; a request with a timeout but
no `queuedAt` panics there, and nothing sets `queuedAt`; a timeout of 0, which
the pending queue takes for none, makes the allocation expire at the next check;
an offline resource becomes available again when an allocation is released at a
load below 0.01, and no heartbeat brings it back otherwise; the VIP rule sets
PriorityHigh and so lowers a realtime message; a notification on a closed
channel panics although the comment says it is ignored; Clear leaves run's
nextItem behind, which makes it spin until the next item is due; a second
`DelayedQueue.Stop` or `LoadBalancer.Stop` closes a closed channel;
`QueueManager.Stop` waits for ever if Start was not called; `cmd/server` creates
queue managers and no queues, so every submission is answered 500; an unknown
`user_priority` leaves a message without a priority, which has no queue; equal
keyword scores are decided by map iteration; GET of a conversation that does not
exist creates one for user "", which stays on that user's list when the
conversation is deleted; AddMessage answers 500 for a conversation that is saved
and not in memory; a conversation loaded from the store keeps its old
LastActiveTime and may be deleted by the next clean-up.

## 6. What is not modelled

- Configuration loading, request decoding, response formatting, metrics export
  and process start-up (`pkg/config`, parts of `api` and `cmd`), which keep no
  state that a property could be about.
- The scheduling policies of `internal/scheduler/scheduler.go`. `cmd/scheduler`,
  the only program that starts them, gives them a queue without levels, and the
  first tick dereferences the statistics of level "realtime" (line 90): the
  process ends before a policy has done anything.
- The PostgreSQL store of `internal/conversation`, which no program uses; its
  interface is the one modelled.
- Creation of managers and workers by the queue factory: `cmd/server` creates
  three managers at start-up and no workers. StopAll waits for workers with the
  factory's lock held; with a processFunc that calls the factory it would never
  return, but the repository has none.
- The fields of a conversation other than its messages, its owner and its count.
