------------------------------ MODULE Serving -------------------------------
(***************************************************************************)
(* The serving loop of cmd/queue-manager: several workers that share one   *)
(* MultiLevelQueue, look through its levels from realtime to low with one  *)
(* Pop per level, process what they find and save it, until the root       *)
(* context is cancelled; and the handler of cmd/api-gateway that fills     *)
(* such a queue.  (The repository runs the two as separate programs, each  *)
(* with a queue in its own memory; here they share one.)                   *)
(*                                                                         *)
(* A level holds messages of one priority, so its heap is a sequence in    *)
(* the order of the pushes.  A member of Msgs stands for the messages that *)
(* one client submits one after the other: it can be submitted again once  *)
(* it has been completed.  QueueStats are left out, nothing here reads     *)
(* them (see Worker); the row that UpdateMessage saves is StateManager's.  *)
(***************************************************************************)
EXTENDS QueueItems, Sequences, FiniteSets

CONSTANTS
    Msgs,            \* what clients submit
    Level,           \* Message.Priority of each, 0 when the request has none
    InConversation,  \* the messages with a ConversationID
    Levels,          \* the levels of the configuration, each with a queue
    MaxSize,         \* cfg.Queue.DefaultMaxSize, 0 for no limit
    Workers          \* cfg.Queue.Worker.MaxConcurrent goroutines

ASSUME LevelType == Level \in [Msgs -> {0} \cup Priorities]
ASSUME LevelsType == Levels \subseteq Priorities
ASSUME ServingSizes == MaxSize \in Nat /\ IsFiniteSet(Workers)

VARIABLES
    queue,       \* the messages of every level
    place,       \* where each message is
    pc,          \* where each worker is in processMessages
    at,          \* the level a scanning worker looks at next
    held,        \* the message it has popped, a set of at most one
    cancelled,   \* rootCancel has been called
    overtaken    \* history: less urgent pops since the message was pushed

vars == <<queue, place, pc, at, held, cancelled, overtaken>>

-----------------------------------------------------------------------------
Places == {"client", "queued", "held", "lost"}
PCs == {"top", "scan", "sleep", "process", "update", "done"}

Scanning(w, l) == pc[w] = "scan" /\ at[w] > l

Init ==
    /\ queue = [l \in Priorities |-> <<>>]
    /\ place = [m \in Msgs |-> "client"]
    /\ pc = [w \in Workers |-> "top"]
    /\ at = [w \in Workers |-> 1]
    /\ held = [w \in Workers |-> {}]
    /\ cancelled = FALSE
    /\ overtaken = [m \in Msgs |-> 0]

-----------------------------------------------------------------------------
\* POST /messages: the level is named after the priority.  A level without a
\* queue (priority 0 is called "unknown") and a full one answer 500 and
\* leave nothing behind.
Submit(m) ==
    /\ place[m] = "client"
    /\ Level[m] \in Levels
    /\ ~ FullAt(Len(queue[Level[m]]), MaxSize)
    /\ queue' = [queue EXCEPT ![Level[m]] = Append(@, m)]
    /\ place' = [place EXCEPT ![m] = "queued"]
    /\ overtaken' = [overtaken EXCEPT ![m] = 0]
    /\ UNCHANGED <<pc, at, held, cancelled>>

\* A signal: main cancels the root context and waits for the workers.
Shutdown ==
    /\ ~ cancelled
    /\ cancelled' = TRUE
    /\ UNCHANGED <<queue, place, pc, at, held, overtaken>>

-----------------------------------------------------------------------------
(* One worker. *)

\* Variants of LoopTop for mutation: the worker goes on from the level it was
\* at; the context is not looked at.
LoopTopKeepsLevel(w) ==
    /\ pc[w] = "top"
    /\ pc' = [pc EXCEPT ![w] = IF cancelled THEN "done" ELSE "scan"]
    /\ UNCHANGED <<queue, place, at, held, cancelled, overtaken>>

LoopTopUnchecked(w) ==
    /\ pc[w] = "top"
    /\ pc' = [pc EXCEPT ![w] = "scan"]
    /\ at' = [at EXCEPT ![w] = 1]
    /\ UNCHANGED <<queue, place, held, cancelled, overtaken>>

\* The top of the loop: leave, or begin to look at the first level.
LoopTop(w) ==
    /\ pc[w] = "top"
    /\ pc' = [pc EXCEPT ![w] = IF cancelled THEN "done" ELSE "scan"]
    /\ at' = [at EXCEPT ![w] = 1]
    /\ UNCHANGED <<queue, place, held, cancelled, overtaken>>

\* One queue.Pop that finds a message.
PopLevel(w) ==
    LET l == at[w]
    IN  /\ pc[w] = "scan"
        /\ queue[l] # <<>>
        /\ queue' = [queue EXCEPT ![l] = Tail(@)]
        /\ held' = [held EXCEPT ![w] = {Head(queue[l])}]
        /\ place' = [place EXCEPT ![Head(queue[l])] = "held"]
        /\ overtaken' = [m \in Msgs |->
              IF place[m] = "queued" /\ Level[m] < l
              THEN overtaken[m] + 1 ELSE overtaken[m]]
        /\ pc' = [pc EXCEPT ![w] = "process"]
        /\ UNCHANGED <<at, cancelled>>

\* Variant of EmptyLevel for mutation: a level that does not exist ends the
\* scan.
EmptyLevelStops(w) ==
    /\ pc[w] = "scan"
    /\ queue[at[w]] = <<>>
    /\ IF at[w] < 4 /\ at[w] \in Levels
       THEN at' = [at EXCEPT ![w] = @ + 1] /\ UNCHANGED pc
       ELSE pc' = [pc EXCEPT ![w] = "sleep"] /\ UNCHANGED at
    /\ UNCHANGED <<queue, place, held, cancelled, overtaken>>

\* Pop found nothing at this level, or there is no such level: the next one,
\* or 500 ms of sleep after the last.
EmptyLevel(w) ==
    /\ pc[w] = "scan"
    /\ queue[at[w]] = <<>>
    /\ IF at[w] < 4
       THEN at' = [at EXCEPT ![w] = @ + 1] /\ UNCHANGED pc
       ELSE pc' = [pc EXCEPT ![w] = "sleep"] /\ UNCHANGED at
    /\ UNCHANGED <<queue, place, held, cancelled, overtaken>>

Wake(w) ==
    /\ pc[w] = "sleep"
    /\ pc' = [pc EXCEPT ![w] = "top"]
    /\ UNCHANGED <<queue, place, at, held, cancelled, overtaken>>

\* The message is completed: the worker lets go of it.
Complete(w) ==
    /\ place' = [m \in Msgs |-> IF m \in held[w] THEN "client" ELSE place[m]]
    /\ held' = [held EXCEPT ![w] = {}]
    /\ pc' = [pc EXCEPT ![w] = "top"]

\* The processing time is over before the context is cancelled.
Processed(w) ==
    /\ pc[w] = "process" /\ ~ cancelled
    /\ IF held[w] \subseteq InConversation
       THEN pc' = [pc EXCEPT ![w] = "update"] /\ UNCHANGED <<place, held>>
       ELSE Complete(w)
    /\ UNCHANGED <<queue, at, cancelled, overtaken>>

\* The context is cancelled first: processMessages returns with the message.
Interrupted(w) ==
    /\ pc[w] = "process" /\ cancelled
    /\ place' = [m \in Msgs |-> IF m \in held[w] THEN "lost" ELSE place[m]]
    /\ held' = [held EXCEPT ![w] = {}]
    /\ pc' = [pc EXCEPT ![w] = "done"]
    /\ UNCHANGED <<queue, at, cancelled, overtaken>>

\* stateManager.UpdateMessage with a context of its own; an error is logged.
UpdateMessage(w) ==
    /\ pc[w] = "update"
    /\ Complete(w)
    /\ UNCHANGED <<queue, at, cancelled, overtaken>>

-----------------------------------------------------------------------------
WorkerStep(w) ==
    \/ LoopTop(w) \/ PopLevel(w) \/ EmptyLevel(w) \/ Wake(w)
    \/ Processed(w) \/ Interrupted(w) \/ UpdateMessage(w)

Next ==
    \/ \E m \in Msgs : Submit(m)
    \/ Shutdown
    \/ \E w \in Workers : WorkerStep(w)

Spec == Init /\ [][Next]_vars

(***************************************************************************)
(* Every worker goroutine runs, its sleep and its processing time end, and *)
(* the database answers.  Nobody has to submit anything or to shut down.   *)
(***************************************************************************)
Fairness == \A w \in Workers : WF_vars(WorkerStep(w))

FairSpec == Spec /\ Fairness

-----------------------------------------------------------------------------
(* Properties. *)

(* The levels are popped one after the other without a lock, so a worker   *)
(* that has passed an empty level takes a less urgent message although a   *)
(* more urgent one has come in.  Each worker does so at most once: while a *)
(* message waits, no more less urgent ones overtake it than there are      *)
(* workers.                                                                *)
OvertakenOnceEach ==
    \A m \in Msgs : place[m] = "queued" =>
        overtaken[m] + Cardinality({w \in Workers : Scanning(w, Level[m])})
            <= Cardinality(Workers)

(* A message waits for ever only if the service is shut down or more       *)
(* urgent ones keep being submitted: missing levels, sleeping workers and  *)
(* a full queue do not starve it, and neither do its equals.               *)
StarvedOnlyByUrgent ==
    \A m \in Msgs :
        <>[](place[m] = "queued") =>
            \/ <>cancelled
            \/ \E u \in Msgs : Level[u] < Level[m] /\ []<><<Submit(u)>>_vars

(* What the documents promise of the queues: a low-priority message does   *)
(* not starve.  The scan begins at the most urgent level after every       *)
(* message, and nothing raises a level with the time its messages wait.    *)
NoStarvation ==
    \A m \in Msgs :
        place[m] = "queued" ~> (place[m] # "queued" \/ cancelled)

(* On shutdown every worker comes to an end, whether it sleeps, scans,     *)
(* processes or waits for the database, and main's wg.Wait returns; no     *)
(* message stays in a worker's hands.                                      *)
ShutdownEnds == cancelled ~> \A w \in Workers : pc[w] = "done" /\ held[w] = {}
=============================================================================
