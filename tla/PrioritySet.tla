----------------------------- MODULE PrioritySet -----------------------------
(***************************************************************************)
(* What a priority queue promises its user: a collection of entries from   *)
(* which Pop takes one that no other entry precedes.  PriorityHeap         *)
(* implements it; Worker and QueueManager are written on top of it.        *)
(***************************************************************************)
EXTENDS QueueItems

CONSTANT Msgs

VARIABLES items,    \* the entries in the queue
          popped    \* the entry the last Pop returned, <<>> before the first

vars == <<items, popped>>

Init == items = {} /\ popped = <<>>

\* One entry appears, for a message that has none in the queue.
Push ==
    /\ \E i \in items' \ items :
          /\ i \in Items(Msgs)
          /\ \A j \in items : j.msg # i.msg
          /\ items' = items \cup {i}
    /\ UNCHANGED popped

Pop ==
    \E i \in Heads(items) : items' = items \ {i} /\ popped' = i

Next == Push \/ Pop

Spec == Init /\ [][Next]_vars
=============================================================================
