----------------------------- MODULE QueueItems -----------------------------
(***************************************************************************)
(* The entries of a priority queue (internal/priorityqueue/queue.go) as    *)
(* values: the order container/heap is given, and what heap.Pop may return *)
(* from a set of entries.  PriorityHeap shows that the slice-based heap    *)
(* returns exactly such an entry; the modules above it use the set.        *)
(*                                                                         *)
(* An item is the QueueItem of the code: the message, the priority it was  *)
(* pushed with (1 is the most urgent) and the instant of the push.  The    *)
(* field Index is kept only in PriorityHeap.                               *)
(***************************************************************************)
EXTENDS Naturals

\* models.PriorityRealtime .. models.PriorityLow.
Priorities == 1..4

\* The entries that carry a message of msgs.
Items(msgs) == [msg : msgs, prio : Priorities, ts : Nat]

\* The new entry of MultiLevelQueue.Push.
QueueItem(m, p, now) == [msg |-> m, prio |-> p, ts |-> now]

\* PriorityQueue.Less: priority first, then the older push.
Less(a, b) ==
    IF a.prio = b.prio THEN a.ts < b.ts ELSE a.prio < b.prio

\* The entries heap.Pop may return: no other entry comes before them.
Heads(items) == {i \in items : \A j \in items : ~ Less(j, i)}

\* MultiLevelQueue.Push's test for ErrQueueFull on a queue of n entries; a
\* limit of 0 stands for "no limit".
FullAt(n, maxSize) == maxSize > 0 /\ n >= maxSize
=============================================================================
