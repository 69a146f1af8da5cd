------------------------------ MODULE MCQueues ------------------------------
(* Instances of QueueManager, PriorityHeap and DeadLetterQueue for TLC.     *)
(* They share no variable: what holds of the three side by side holds of    *)
(* each, so a behaviour here runs one and leaves the others at their start. *)
EXTENDS QueueManager, PriorityHeap, DeadLetterQueue

CONSTANTS n1, c1, c2, a, b, c, x, y, z

VARIABLE running   \* "manager", "heap" or "dead letters"

\* QueueManager.
MCNames == {n1}
MCClients == {c1, c2}
MCMsgs == {a, b, c}
MCSubmitted == a :> 3 @@ b :> 3 @@ c :> 1
MCVIP == {a}
MCLong == {a, b}
MCSizes == {0, 1}

\* PriorityHeap.  Its messages are interchangeable: a push takes the least
\* that is not in the heap.
MCHeapMsgs == 1..5
MCLevels == {1, 2, 4}
NextMsg == Carried' \ Carried \subseteq {m \in MCHeapMsgs : 1..m - 1 \subseteq Carried}

\* DeadLetterQueue.  Batches of up to three different indices, in any order; -1
\* and 2 are out of range.
MCDLMsgs == {x, y, z}
Upto(n) == UNION {[1..k -> 0..2] : k \in 1..n}
MCDLBatches == {s \in Upto(2) : IsInjective(s)} \cup {<<0, -1, 1>>, <<0, 2, 1>>}

MCSymmetry == Permutations(MCClients) \cup Permutations(MCDLMsgs)

\* No step of the heap reads popped, which only records what the last one did.
MCView == <<vars, heap, now, pushes, DLvars, running>>

MCInit == Init /\ HeapInit /\ DLInit /\ running \in {"manager", "heap", "dead letters"}
MCNext ==
    \/ running = "manager" /\ Next /\ UNCHANGED <<heapVars, DLvars, running>>
    \/ running = "heap" /\ HeapNext /\ NextMsg /\ UNCHANGED <<vars, DLvars, running>>
    \/ running = "dead letters" /\ DLNext /\ UNCHANGED <<vars, heapVars, running>>
MCSpec == MCInit /\ [][MCNext]_<<vars, heapVars, DLvars, running>>
=============================================================================
