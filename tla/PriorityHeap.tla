---------------------------- MODULE PriorityHeap ----------------------------
(***************************************************************************)
(* The slice behind one queue of a MultiLevelQueue (queue.go): a binary    *)
(* heap kept by container/heap through Less, Swap, Push and Pop, with each *)
(* entry's position repeated in its field Index.  Slices are indexed from  *)
(* 0, so heap position k is element k + 1 of the sequence.                 *)
(*                                                                         *)
(* Two pushes may read the same instant from the clock: the order of their *)
(* timestamps is then not strict.                                          *)
(***************************************************************************)
EXTENDS QueueItems, Integers, Sequences

CONSTANTS
    HeapMsgs,     \* messages that may be in the queue
    Levels,       \* priorities they are pushed with
    MaxSize,      \* maxSize of the queue, 0 for no limit
    MaxPushes     \* bound: pushes per behaviour

ASSUME LevelsType == Levels \subseteq Priorities
ASSUME SizesNat == MaxSize \in Nat /\ MaxPushes \in Nat

VARIABLES
    heap,         \* the slice
    now,          \* what the clock shows
    pushes,       \* pushes made so far (bound)
    popped        \* the entry the last Pop returned

heapVars == <<heap, now, pushes, popped>>

-----------------------------------------------------------------------------
(* sort.Interface and heap.Interface on a slice h. *)

HeapLess(h, i, j) == Less(h[i + 1], h[j + 1])

\* Variant of Swap for mutation: the positions are not written back.
SwapNoIndex(h, i, j) == [h EXCEPT ![i + 1] = h[j + 1], ![j + 1] = h[i + 1]]

Swap(h, i, j) ==
    LET s == [h EXCEPT ![i + 1] = h[j + 1], ![j + 1] = h[i + 1]]
    IN  [s EXCEPT ![i + 1].index = i, ![j + 1].index = j]

\* The interface's Push and Pop: append, and drop the last entry.
PushLast(h, x) == Append(h, [x EXCEPT !.index = Len(h)])
PopLast(h) == [rest |-> SubSeq(h, 1, Len(h) - 1),
               item |-> [h[Len(h)] EXCEPT !.index = -1]]

(* The loops of container/heap: a turn moves one entry by one level, or     *)
(* ends the loop, after which further turns change nothing; there is a      *)
(* level for a turn at most Len(h) times.                                   *)

\* One turn of up on the entry at position j of h.
UpStep(s) ==
    LET i == (s.j - 1) \div 2
    IN  IF s.j = 0 \/ ~ HeapLess(s.h, s.j, i) THEN s
        ELSE [h |-> Swap(s.h, i, s.j), j |-> i]

\* container/heap.up: move entry j towards the root.
up(h, j) ==
    LET after[k \in 0..Len(h)] ==
            IF k = 0 THEN [h |-> h, j |-> j] ELSE UpStep(after[k - 1])
    IN  after[Len(h)].h

\* Variant of DownStep for mutation: only the left child is looked at.
DownStepLeft(s, n) ==
    LET j == 2 * s.j + 1
    IN  IF j >= n \/ ~ HeapLess(s.h, j, s.j) THEN s
        ELSE [h |-> Swap(s.h, s.j, j), j |-> j]

\* One turn of down on the entry at position j of the first n of h.
DownStep(s, n) ==
    LET left  == 2 * s.j + 1
        child == IF left + 1 < n /\ HeapLess(s.h, left + 1, left)
                 THEN left + 1 ELSE left
    IN  IF left >= n \/ ~ HeapLess(s.h, child, s.j) THEN s
        ELSE [h |-> Swap(s.h, s.j, child), j |-> child]

\* container/heap.down: move entry j towards the leaves of the first n.
down(h, j, n) ==
    LET after[k \in 0..Len(h)] ==
            IF k = 0 THEN [h |-> h, j |-> j] ELSE DownStep(after[k - 1], n)
    IN  after[Len(h)].h

\* container/heap.Push and Pop.
HeapPush(h, x) == up(PushLast(h, x), Len(h))
HeapPop(h) == LET n == Len(h) - 1
              IN  PopLast(down(Swap(h, 0, n), 0, n))

-----------------------------------------------------------------------------
HeapInit ==
    /\ heap = <<>>
    /\ now = 0
    /\ pushes = 0
    /\ popped = <<>>

Carried == {heap[k].msg : k \in DOMAIN heap}

Entry(x) == QueueItem(x.msg, x.prio, x.ts)

\* MultiLevelQueue.Push; a full queue refuses and changes nothing.
Push(m, p) ==
    /\ m \notin Carried
    /\ ~ FullAt(Len(heap), MaxSize)
    /\ pushes < MaxPushes
    /\ heap' = HeapPush(heap, [msg |-> m, prio |-> p, ts |-> now, index |-> -1])
    /\ pushes' = pushes + 1
    /\ \E step \in {0, 1} : now' = now + step
    /\ UNCHANGED popped

\* MultiLevelQueue.Pop.
Pop ==
    /\ heap # <<>>
    /\ LET r == HeapPop(heap) IN heap' = r.rest /\ popped' = Entry(r.item)
    /\ UNCHANGED <<now, pushes>>

Done == pushes = MaxPushes /\ heap = <<>> /\ UNCHANGED heapVars

HeapNext == Pop \/ Done \/ \E m \in HeapMsgs, p \in Levels : Push(m, p)

HeapSpec == HeapInit /\ [][HeapNext]_heapVars

-----------------------------------------------------------------------------
\* Every entry knows its position in the slice, after any number of swaps.
IndexAgrees == \A k \in DOMAIN heap : heap[k].index = k - 1

\* The heap implements the set: it loses and duplicates nothing, Pop takes a
\* most urgent entry, and among those the oldest.
Set == INSTANCE PrioritySet
    WITH Msgs <- HeapMsgs, items <- {Entry(heap[k]) : k \in DOMAIN heap}, popped <- popped
SetSpec == Set!Spec
=============================================================================
