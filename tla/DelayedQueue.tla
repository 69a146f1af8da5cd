---------------------------- MODULE DelayedQueue ----------------------------
(***************************************************************************)
(* DelayedQueue (internal/priorityqueue/delayed_queue.go).  The goroutine  *)
(* run owns a heap of items ordered by ReadyAt, receives new items on the  *)
(* unbuffered channel pushCh and hands due ones over on the unbuffered     *)
(* channel readyCh; the goroutine processReadyItems receives them and      *)
(* calls processFn.  Schedule blocks until run receives.  Clear empties    *)
(* the heap under the lock but cannot reach run's local nextItem.          *)
(*                                                                         *)
(* Time is counted in units of half a millisecond, so that run's tolerance *)
(* of one millisecond is Slack = 2 units and an item can be delivered one  *)
(* unit early.  container/heap is the set of items with Earliest as its    *)
(* root (see PriorityHeap).                                                *)
(***************************************************************************)
EXTENDS Naturals, FiniteSets

CONSTANTS
    Msgs,          \* messages scheduled by callers, each once
    ReadyTimes,    \* the instants they may be scheduled for
    MaxTime,       \* bound: the clock stops here
    Slack,         \* time.Millisecond in time units
    MayClear,      \* whether somebody calls Clear
    MayStop,       \* whether somebody calls Stop
    Reschedules    \* messages that processFn schedules again

ASSUME TimesType == ReadyTimes \subseteq 0..MaxTime /\ MaxTime \in Nat
ASSUME SlackType == Slack \in Nat \ {0}
ASSUME SwitchesType == MayClear \in BOOLEAN /\ MayStop \in BOOLEAN

VARIABLES
    now,           \* the clock
    items,         \* the heap
    nextItem,      \* run's local variable, a set of at most one item
    run,           \* where run is
    deadline,      \* when run's timer fires; a set of at most one instant
    ready,         \* the message run is sending on readyCh
    proc,          \* where processReadyItems is
    current,       \* the message it is processing
    scheduling,    \* items whose Schedule is blocked in the send on pushCh
    cancelled,     \* the context is done
    state          \* history: what has become of each message

vars == <<now, items, nextItem, run, deadline, ready, proc, current, scheduling,
          cancelled, state>>

-----------------------------------------------------------------------------
Item(m, t) == [msg |-> m, readyAt |-> t]

\* The items dq.items[0] may be: none is due before them.
Earliest == {i \in items : \A j \in items : i.readyAt <= j.readyAt}

\* dq.items[0].ReadyAt.Before(now.Add(time.Millisecond))
Due(i) == i.readyAt < now + Slack

Init ==
    /\ now = 0
    /\ items = {}
    /\ nextItem = {}
    /\ run = "top"
    /\ deadline = {}
    /\ ready = {}
    /\ proc = "select"
    /\ current = {}
    /\ scheduling = {}
    /\ cancelled = FALSE
    /\ state = [m \in Msgs |-> "new"]

Tick ==
    /\ now < MaxTime
    /\ now' = now + 1
    /\ UNCHANGED <<items, nextItem, run, deadline, ready, proc, current,
                   scheduling, cancelled, state>>

-----------------------------------------------------------------------------
(* Callers. *)

\* Schedule starts: the caller now waits for run to receive its item.
Schedule(m, t) ==
    /\ state[m] = "new"
    /\ scheduling' = scheduling \cup {Item(m, t)}
    /\ state' = [state EXCEPT ![m] = "sending"]
    /\ UNCHANGED <<now, items, nextItem, run, deadline, ready, proc, current,
                   cancelled>>

\* Variant of Clear for mutation: the message that is waiting on readyCh is
\* thrown away too.
ClearReady ==
    /\ MayClear
    /\ items # {}
    /\ items' = {}
    /\ ready' = {}
    /\ run' = IF run = "send" THEN "top" ELSE run
    /\ state' = [m \in Msgs |->
                    IF \E i \in items : i.msg = m THEN "cleared" ELSE state[m]]
    /\ UNCHANGED <<now, nextItem, deadline, proc, current, scheduling, cancelled>>

Clear ==
    /\ MayClear
    /\ items # {}
    /\ items' = {}
    /\ state' = [m \in Msgs |->
                    IF \E i \in items : i.msg = m THEN "cleared" ELSE state[m]]
    /\ UNCHANGED <<now, nextItem, run, deadline, ready, proc, current,
                   scheduling, cancelled>>

\* Stop cancels the context and returns at once.
Stop ==
    /\ MayStop
    /\ ~ cancelled
    /\ cancelled' = TRUE
    /\ UNCHANGED <<now, items, nextItem, run, deadline, ready, proc, current,
                   scheduling, state>>

-----------------------------------------------------------------------------
(* The goroutine run. *)

\* Variant of RunTop for mutation: an earlier item does not replace nextItem.
RunTopKeepsNext ==
    /\ run = "top"
    /\ run' = "decide"
    /\ IF items # {} /\ nextItem = {}
       THEN \E i \in Earliest : nextItem' = {i}
       ELSE UNCHANGED nextItem
    /\ UNCHANGED <<now, items, deadline, ready, proc, current, scheduling,
                   cancelled, state>>

\* The top of the loop, under the lock: choose nextItem.
RunTop ==
    /\ run = "top"
    /\ run' = "decide"
    /\ \/ \E i \in Earliest :
             /\ \A n \in nextItem : i.readyAt < n.readyAt
             /\ nextItem' = {i}
       \/ /\ \/ items = {}
             \/ \E i \in Earliest, n \in nextItem : i.readyAt >= n.readyAt
          /\ UNCHANGED nextItem
    /\ UNCHANGED <<now, items, deadline, ready, proc, current, scheduling,
                   cancelled, state>>

\* heap.Pop, and on to the send on readyCh.
PopDue(i) ==
    /\ items' = items \ {i}
    /\ ready' = {i.msg}
    /\ run' = "send"
    /\ deadline' = {}
    /\ state' = [state EXCEPT ![i.msg] = "ready"]

\* Variant of RunReady for mutation: the root is not tested against the clock.
RunReadyUntested ==
    /\ run = "decide"
    /\ \E n \in nextItem : now >= n.readyAt
    /\ \/ \E i \in Earliest : PopDue(i)
       \/ /\ items = {}
          /\ run' = "select" /\ deadline' = {now}
          /\ UNCHANGED <<items, ready, state>>
    /\ UNCHANGED <<now, nextItem, proc, current, scheduling, cancelled>>

\* Variant of RunReady for mutation: a root that is not due is waited for as
\* an empty heap is, without a deadline.
RunReadyNoTimer ==
    /\ run = "decide"
    /\ \E n \in nextItem : now >= n.readyAt
    /\ \/ \E i \in Earliest : Due(i) /\ PopDue(i)
       \/ /\ \A i \in items : ~ Due(i)
          /\ run' = "select" /\ deadline' = {}
          /\ UNCHANGED <<items, ready, state>>
    /\ UNCHANGED <<now, nextItem, proc, current, scheduling, cancelled>>

\* nextItem is due: pop the root if that one is due, else wait no time.
RunReady ==
    /\ run = "decide"
    /\ \E n \in nextItem : now >= n.readyAt
    /\ \/ \E i \in Earliest : Due(i) /\ PopDue(i)
       \/ /\ \A i \in items : ~ Due(i)
          /\ run' = "select" /\ deadline' = {now}
          /\ UNCHANGED <<items, ready, state>>
    /\ UNCHANGED <<now, nextItem, proc, current, scheduling, cancelled>>

\* nextItem is not due, or there is none (a timer of 24 hours): wait.
RunWait ==
    /\ run = "decide"
    /\ \A n \in nextItem : now < n.readyAt
    /\ deadline' = {n.readyAt : n \in nextItem}
    /\ run' = "select"
    /\ UNCHANGED <<now, items, nextItem, ready, proc, current, scheduling,
                   cancelled, state>>

\* Variant of RunExit for mutation: the context is not watched.
RunExitNever == FALSE /\ UNCHANGED vars

\* select: the context is done.
RunExit ==
    /\ run = "select" /\ cancelled
    /\ run' = "exited" /\ deadline' = {}
    /\ UNCHANGED <<now, items, nextItem, ready, proc, current, scheduling,
                   cancelled, state>>

\* select: receive an item, and unblock the Schedule that sent it.
RunReceive(i) ==
    /\ run = "select" /\ i \in scheduling
    /\ items' = items \cup {i}
    /\ scheduling' = scheduling \ {i}
    /\ run' = "top" /\ deadline' = {}
    /\ state' = [state EXCEPT ![i.msg] = "queued"]
    /\ proc' = IF proc = "resched" /\ i.msg \in current THEN "select" ELSE proc
    /\ current' = IF proc = "resched" /\ i.msg \in current THEN {} ELSE current
    /\ UNCHANGED <<now, nextItem, ready, cancelled>>

\* select: the timer fires.
RunTimer ==
    /\ run = "select"
    /\ \E t \in deadline : now >= t
    /\ \/ \E i \in Earliest : Due(i) /\ PopDue(i)
       \/ /\ \A i \in items : ~ Due(i)
          /\ run' = "top" /\ deadline' = {}
          /\ UNCHANGED <<items, ready, state>>
    /\ UNCHANGED <<now, nextItem, proc, current, scheduling, cancelled>>

\* The send on readyCh meets processReadyItems' receive.  It does not watch
\* the context.
Handover ==
    /\ run = "send" /\ proc = "select"
    /\ proc' = "process" /\ current' = ready
    /\ ready' = {} /\ nextItem' = {}
    /\ run' = "top"
    /\ state' = [m \in Msgs |-> IF m \in ready THEN "processing" ELSE state[m]]
    /\ UNCHANGED <<now, items, deadline, scheduling, cancelled>>

-----------------------------------------------------------------------------
(* The goroutine processReadyItems. *)

ProcExit ==
    /\ proc = "select" /\ cancelled
    /\ proc' = "exited"
    /\ UNCHANGED <<now, items, nextItem, run, deadline, ready, current,
                   scheduling, cancelled, state>>

\* What processFn does is up to the caller: some messages it schedules again,
\* as long as there is a later instant to schedule them for.
MayReschedule(m, t) == m \in Reschedules /\ t > now

\* processFn returns.
ProcReturns ==
    /\ proc = "process"
    /\ \A m \in current, t \in ReadyTimes : ~ MayReschedule(m, t)
    /\ proc' = "select" /\ current' = {}
    /\ state' = [m \in Msgs |-> IF m \in current THEN "done" ELSE state[m]]
    /\ UNCHANGED <<now, items, nextItem, run, deadline, ready, scheduling,
                   cancelled>>

\* processFn schedules its message again and waits for run to receive it.
ProcReschedules ==
    /\ proc = "process"
    /\ \E m \in current, t \in ReadyTimes :
          /\ MayReschedule(m, t)
          /\ scheduling' = scheduling \cup {Item(m, t)}
          /\ state' = [state EXCEPT ![m] = "sending"]
    /\ proc' = "resched"
    /\ UNCHANGED <<now, items, nextItem, run, deadline, ready, current,
                   cancelled>>

-----------------------------------------------------------------------------
RunStep == \/ RunTop \/ RunReady \/ RunWait \/ RunExit \/ RunTimer
           \/ \E i \in scheduling : RunReceive(i)
ProcStep == ProcExit \/ ProcReturns \/ ProcReschedules

Next ==
    \/ Tick \/ Clear \/ Stop
    \/ \E m \in Msgs, t \in ReadyTimes : Schedule(m, t)
    \/ RunStep \/ Handover \/ ProcStep

Spec == Init /\ [][Next]_vars

(***************************************************************************)
(* Time passes, both goroutines run, and processFn returns.  A receive on  *)
(* pushCh is strongly fair: select picks at random among ready cases, so a *)
(* timer that is always ready cannot shut a waiting sender out for ever.   *)
(* The same holds of the context's case in both selects.                   *)
(***************************************************************************)
Fairness ==
    /\ WF_vars(Tick)
    /\ WF_vars(RunTop) /\ WF_vars(RunReady) /\ WF_vars(RunWait)
    /\ WF_vars(RunTimer) /\ SF_vars(RunExit)
    /\ \A m \in Msgs, t \in ReadyTimes : SF_vars(RunReceive(Item(m, t)))
    /\ WF_vars(Handover)
    /\ SF_vars(ProcExit) /\ WF_vars(ProcReturns) /\ WF_vars(ProcReschedules)

FairSpec == Spec /\ Fairness

-----------------------------------------------------------------------------
(* Properties. *)

(* No item is handed over a millisecond or more before its ReadyAt, and    *)
(* when one is popped none in the heap is due before it: also when the     *)
(* item nextItem was set from has been cleared, or replaced at the root.   *)
NeverEarly ==
    [][\A i \in items : (i \notin items' /\ ready' = {i.msg} /\ ready # ready')
          => /\ i.readyAt < now + Slack
             /\ \A j \in items' : i.readyAt <= j.readyAt]_vars

(* A message is in one place: waiting in Schedule, in the heap, on its way *)
(* through readyCh, or with processFn; none is lost between the lock, the  *)
(* two channels and the timer.                                             *)
OnePlace ==
    \A m \in Msgs :
        /\ state[m] = "sending" <=> \E i \in scheduling : i.msg = m
        /\ state[m] = "queued" <=> \E i \in items : i.msg = m
        /\ state[m] = "ready" <=> m \in ready
        /\ state[m] = "processing" <=> m \in current /\ proc = "process"
        /\ Cardinality({i \in items \cup scheduling : i.msg = m}) <= 1

\* The deadly embrace: run waits for processReadyItems to receive, which
\* waits in the Schedule of its own processFn for run to receive.
Embrace == run = "send" /\ proc = "resched"

(* A message that is scheduled reaches processFn, unless it is cleared or  *)
(* the queue is stopped: an earlier item arriving while run waits, an item *)
(* arriving while it sends, and a nextItem left over from Clear do not     *)
(* make run miss one.  The one other exception is a processFn that calls   *)
(* Schedule: it may find run in the send on readyCh, and then neither ever *)
(* moves again.                                                            *)
EventuallyProcessed ==
    \A m \in Msgs :
        state[m] = "sending" ~> \/ state[m] \in {"processing", "cleared"}
                               \/ cancelled
                               \/ []Embrace

(* Run is never late without reason: while it waits in select for its      *)
(* timer, the timer is set to fire no later than the earliest item is due. *)
TimerCoversHeap ==
    run = "select" /\ items # {} =>
        \E t \in deadline : \A i \in items : t <= i.readyAt \/ t <= now

(* After Stop, run ends, unless it is caught sending on readyCh: then      *)
(* processReadyItems has left, or is in the embrace, and the send is never *)
(* received.                                                               *)
StopEndsOrStrands ==
    cancelled ~> \/ run = "exited"
                 \/ []Embrace
                 \/ [](run = "send" /\ proc = "exited")
=============================================================================
