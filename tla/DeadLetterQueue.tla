-------------------------- MODULE DeadLetterQueue --------------------------
(***************************************************************************)
(* DeadLetterQueue (internal/priorityqueue/dead_letter_queue.go): messages *)
(* whose retries are used up are parked in a slice and can be put back     *)
(* into their source queue by position.  One mutex guards the slice and is *)
(* held while BatchRequeue calls QueueManager.PushMessage, so a consumer   *)
(* may take, fail and try to park a message again before BatchRequeue has  *)
(* removed the old entry.  Requeue(index) makes the same changes as        *)
(* BatchRequeue of that one index.                                         *)
(*                                                                         *)
(* The source queue and its consumers are the environment: what Worker     *)
(* models, reduced to where each message is.  Positions start at 0.  The   *)
(* prefix DL keeps names apart that the other queues' modules have too.    *)
(***************************************************************************)
EXTENDS Integers, Sequences, FiniteSets, SequencesExt

CONSTANTS
    DLMsgs,        \* messages producers push to the source queue, once each
    DLMaxSize,     \* maxSize of the dead letter queue, 0 for no limit
    QueueMax,      \* maxSize of the source queue
    MaxRetries,    \* retries a consumer makes before it parks a message
    DLBatches,     \* the slices of indices BatchRequeue is called with
    ChanCap,       \* capacity of the one notification channel
    DLMaxPushes    \* bound: messages parked per behaviour

ASSUME DLSizes ==
    {DLMaxSize, QueueMax, MaxRetries, ChanCap, DLMaxPushes} \subseteq Nat

VARIABLES
    items,         \* dlq.items
    queue,         \* the messages in the source queue
    retryCount,    \* Message.RetryCount
    place,         \* history: where each message is
    tries,         \* history: attempts since it last entered the queue anew
    mu,            \* "free", or held by "requeue"
    todo,          \* indices BatchRequeue has still to look at
    pushed,        \* PushMessage has returned nil, the entry is still there
    asked,         \* history: the indices of the call in progress
    before,        \* history: dlq.items when the call took the lock
    notifying,     \* notification goroutines still to run
    buffered,      \* notifications in the channel
    closed,        \* the channel is closed
    panicked,      \* a goroutine has panicked: the process is gone
    parks          \* messages parked so far (bound)

requeueVars == <<mu, todo, pushed, asked, before>>
notifyVars == <<notifying, buffered, closed, panicked>>
DLvars == <<items, queue, retryCount, place, tries, requeueVars, notifyVars,
            parks>>

-----------------------------------------------------------------------------
DLInit ==
    /\ items = <<>>
    /\ queue = {}
    /\ retryCount = [m \in DLMsgs |-> 0]
    /\ place = [m \in DLMsgs |-> "new"]
    /\ tries = [m \in DLMsgs |-> 0]
    /\ mu = "free" /\ todo = <<>> /\ pushed = FALSE
    /\ asked = <<>> /\ before = <<>>
    /\ notifying = 0 /\ buffered = 0 /\ closed = FALSE /\ panicked = FALSE
    /\ parks = 0

-----------------------------------------------------------------------------
(* The source queue's producers and consumers. *)

QueueFull == QueueMax > 0 /\ Cardinality(queue) >= QueueMax

Submit(m) ==
    /\ place[m] = "new" /\ ~ QueueFull
    /\ queue' = queue \cup {m}
    /\ place' = [place EXCEPT ![m] = "queue"]
    /\ UNCHANGED <<items, retryCount, tries, requeueVars, notifyVars, parks>>

Take(m) ==
    /\ m \in queue
    /\ queue' = queue \ {m}
    /\ place' = [place EXCEPT ![m] = "held"]
    /\ tries' = [tries EXCEPT ![m] = @ + 1]
    /\ UNCHANGED <<items, retryCount, requeueVars, notifyVars, parks>>

\* The attempt succeeds, or is repeated unless the queue is full; a message
\* with no retries left is parked (DLPush).
Attempted(m) ==
    /\ place[m] = "held"
    /\ \/ /\ place' = [place EXCEPT ![m] = "done"]
          /\ UNCHANGED <<queue, retryCount>>
       \/ /\ retryCount[m] < MaxRetries
          /\ retryCount' = [retryCount EXCEPT ![m] = @ + 1]
          /\ queue' = IF QueueFull THEN queue ELSE queue \cup {m}
          /\ place' = [place EXCEPT ![m] = IF QueueFull THEN "dropped" ELSE "queue"]
    /\ UNCHANGED <<items, tries, requeueVars, notifyVars, parks>>

-----------------------------------------------------------------------------
(* The dead letter queue. *)

Full == DLMaxSize > 0 /\ Len(items) >= DLMaxSize

\* Variant of DLPush for mutation: the lock is not waited for.
PushUnlocked(m) ==
    /\ place[m] = "held" /\ retryCount[m] = MaxRetries
    /\ parks < DLMaxPushes
    /\ IF Full
       THEN /\ place' = [place EXCEPT ![m] = "refused"]
            /\ UNCHANGED <<items, notifying, parks>>
       ELSE /\ items' = Append(items, [msg |-> m, retryCount |-> retryCount[m]])
            /\ place' = [place EXCEPT ![m] = "dead"]
            /\ notifying' = notifying + 1
            /\ parks' = parks + 1
    /\ UNCHANGED <<queue, retryCount, tries, requeueVars, buffered, closed,
                   panicked>>

\* DLPush (Push): ErrQueueFull, or the entry is added and its notification started.
DLPush(m) ==
    /\ mu = "free"
    /\ place[m] = "held" /\ retryCount[m] = MaxRetries
    /\ parks < DLMaxPushes
    /\ IF Full
       THEN /\ place' = [place EXCEPT ![m] = "refused"]
            /\ UNCHANGED <<items, notifying, parks>>
       ELSE /\ items' = Append(items, [msg |-> m, retryCount |-> retryCount[m]])
            /\ place' = [place EXCEPT ![m] = "dead"]
            /\ notifying' = notifying + 1
            /\ parks' = parks + 1
    /\ UNCHANGED <<queue, retryCount, tries, requeueVars, buffered, closed,
                   panicked>>

InRange(i) == i \in 0..Len(items) - 1

\* Remove(index); ErrIndexOutOfRange changes nothing.
RemoveIndex(i) ==
    /\ mu = "free"
    /\ InRange(i)
    /\ place' = [place EXCEPT ![items[i + 1].msg] = "removed"]
    /\ items' = RemoveAt(items, i + 1)
    /\ UNCHANGED <<queue, retryCount, tries, requeueVars, notifyVars, parks>>

Clear ==
    /\ mu = "free"
    /\ items # <<>>
    /\ place' = [m \in DLMsgs |->
                    IF \E k \in DOMAIN items : items[k].msg = m
                    THEN "removed" ELSE place[m]]
    /\ items' = <<>>
    /\ UNCHANGED <<queue, retryCount, tries, requeueVars, notifyVars, parks>>

\* Variant of sortIndices for mutation: the comparison is the other way round.
sortIndicesUp(s) == SortSeq(s, LAMBDA x, y : x < y)

\* The larger of two indices comes first.
Exchange(s, i, j) ==
    IF s[i] < s[j] THEN [s EXCEPT ![i] = s[j], ![j] = s[i]] ELSE s

\* The inner loop of sortIndices: position i against every later one.
SettleIndex(s, i) ==
    LET upto[j \in i..Len(s)] ==
            IF j = i THEN s ELSE Exchange(upto[j - 1], i, j)
    IN  upto[Len(s)]

\* sortIndices, the exchange sort.
sortIndices(s) ==
    LET settled[i \in 0..Len(s)] ==
            IF i = 0 THEN s ELSE SettleIndex(settled[i - 1], i)
    IN  settled[Len(s)]

\* BatchRequeue sorts its indices and takes the lock ...
BatchRequeue(indices) ==
    /\ mu = "free"
    /\ indices # <<>>
    /\ mu' = "requeue"
    /\ todo' = sortIndices(indices)
    /\ asked' = indices /\ before' = items
    /\ UNCHANGED <<items, queue, retryCount, place, tries, pushed, notifyVars,
                   parks>>

\* Variant of RequeuePush for mutation: the retry count is not reset.
RequeuePushNoReset ==
    /\ mu = "requeue" /\ todo # <<>> /\ ~ pushed
    /\ InRange(Head(todo))
    /\ ~ QueueFull
    /\ LET m == items[Head(todo) + 1].msg
       IN  /\ queue' = queue \cup {m}
           /\ place' = [place EXCEPT ![m] = "queue"]
           /\ tries' = [tries EXCEPT ![m] = 0]
    /\ pushed' = TRUE
    /\ UNCHANGED <<items, retryCount, mu, todo, asked, before, notifyVars, parks>>

\* ... for each index resets the retry count and pushes the message; when that
\* fails, because the queue is full, the entry stays (its count is reset) ...
RequeuePush ==
    /\ mu = "requeue" /\ todo # <<>> /\ ~ pushed
    /\ InRange(Head(todo))
    /\ LET m == items[Head(todo) + 1].msg
       IN  /\ retryCount' = [retryCount EXCEPT ![m] = 0]
           /\ IF QueueFull
              THEN /\ todo' = Tail(todo)
                   /\ UNCHANGED <<queue, place, tries, pushed>>
              ELSE /\ queue' = queue \cup {m}
                   /\ place' = [place EXCEPT ![m] = "queue"]
                   /\ tries' = [tries EXCEPT ![m] = 0]
                   /\ pushed' = TRUE
                   /\ UNCHANGED todo
    /\ UNCHANGED <<items, mu, asked, before, notifyVars, parks>>

\* ... removes the entry that was pushed ...
RequeueRemove ==
    /\ mu = "requeue" /\ pushed
    /\ items' = RemoveAt(items, Head(todo) + 1)
    /\ todo' = Tail(todo)
    /\ pushed' = FALSE
    /\ UNCHANGED <<queue, retryCount, place, tries, mu, asked, before,
                   notifyVars, parks>>

\* ... skips an index out of range ...
RequeueSkip ==
    /\ mu = "requeue" /\ todo # <<>> /\ ~ pushed
    /\ ~ InRange(Head(todo))
    /\ todo' = Tail(todo)
    /\ UNCHANGED <<items, queue, retryCount, place, tries, mu, pushed, asked,
                   before, notifyVars, parks>>

\* ... and gives the lock back.
RequeueReturns ==
    /\ mu = "requeue" /\ todo = <<>>
    /\ mu' = "free" /\ asked' = <<>> /\ before' = <<>>
    /\ UNCHANGED <<items, queue, retryCount, place, tries, todo, pushed,
                   notifyVars, parks>>

-----------------------------------------------------------------------------
(* Notifications, and the receiver of the channel. *)

\* The select with a default case: send, or give up when the channel is full.
\* A send on a closed channel panics also in a select.
Notify ==
    /\ notifying > 0
    /\ notifying' = notifying - 1
    /\ panicked' = closed
    /\ buffered' = IF closed \/ buffered >= ChanCap THEN buffered ELSE buffered + 1
    /\ UNCHANGED <<items, queue, retryCount, place, tries, requeueVars, closed,
                   parks>>

Receive ==
    /\ buffered > 0
    /\ buffered' = buffered - 1
    /\ UNCHANGED <<items, queue, retryCount, place, tries, requeueVars,
                   notifying, closed, panicked, parks>>

Close ==
    /\ ~ closed
    /\ closed' = TRUE
    /\ UNCHANGED <<items, queue, retryCount, place, tries, requeueVars,
                   notifying, buffered, panicked, parks>>

-----------------------------------------------------------------------------
DLNext ==
    /\ ~ panicked
    /\ \/ \E m \in DLMsgs : Submit(m) \/ Take(m) \/ Attempted(m) \/ DLPush(m)
       \/ \E i \in 0..DLMaxPushes : RemoveIndex(i)
       \/ Clear
       \/ \E indices \in DLBatches : BatchRequeue(indices)
       \/ RequeuePush \/ RequeueRemove \/ RequeueSkip \/ RequeueReturns
       \/ Notify \/ Receive \/ Close

DLSpec == DLInit /\ [][DLNext]_DLvars

-----------------------------------------------------------------------------
(* Properties. *)

\* The entries, but for the one whose message is already back in its queue.
Leaving == IF pushed THEN {Head(todo) + 1} ELSE {}
Parked == {items[k].msg : k \in DOMAIN items \ Leaving}

(* A parked message has one entry and is nowhere else: although the        *)
(* message is pushed before its entry is removed, and a consumer may fail  *)
(* it again in between, it is never parked twice, and RequeueRemove takes  *)
(* out the entry that was pushed.                                          *)
ParkedOnce ==
    /\ \A m \in DLMsgs : place[m] = "dead" <=> m \in Parked
    /\ \A j, k \in DOMAIN items : items[j].msg = items[k].msg => j = k
    /\ pushed => InRange(Head(todo))

(* BatchRequeue takes out entries that stood at the indices it was given   *)
(* and leaves the others in their order; although every removal moves the  *)
(* entries behind it, an index still denotes, when its turn comes, the     *)
(* entry it denoted when the call took the lock: that is the one pushed,   *)
(* and it is not missed while it is there.                                 *)
RequeueAsAsked ==
    mu = "requeue" =>
        LET kept == Range(items)
        IN  /\ kept \subseteq Range(before)
            /\ \A k \in DOMAIN before : before[k] \in kept \/ k - 1 \in Range(asked)
            /\ \A j, k \in DOMAIN items, p, q \in DOMAIN before :
                  items[j] = before[p] /\ items[k] = before[q] /\ j < k => p < q
            /\ pushed => items[Head(todo) + 1] = before[Head(todo) + 1]
            /\ (/\ todo # <<>>
                /\ Head(todo) + 1 \in DOMAIN before
                /\ before[Head(todo) + 1] \in kept) =>
                  /\ InRange(Head(todo))
                  /\ items[Head(todo) + 1] = before[Head(todo) + 1]

(* Requeueing renews the retry budget: a message that is parked, or turned *)
(* away by a full dead letter queue, has had MaxRetries + 1 attempts since *)
(* it was last put into its queue, the first time and every time after.    *)
BudgetRenewed ==
    \A m \in DLMsgs :
        /\ place[m] \in {"dead", "refused"} => tries[m] = MaxRetries + 1
        /\ place[m] = "held" => tries[m] = retryCount[m] + 1
=============================================================================
