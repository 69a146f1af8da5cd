-------------------------- MODULE MessageDelivery --------------------------
(***************************************************************************)
(* What the queue and its workers promise for each message, whoever        *)
(* carries it: the life of a message as the Status values of               *)
(* pkg/models/message.go name it.  A message is handed over once, is held  *)
(* by at most one processing attempt at a time, is retried at most         *)
(* MaxRetries times, and is then completed, failed, or - when its retry    *)
(* finds the queue full - dropped.  Worker implements this.                *)
(***************************************************************************)
EXTENDS Naturals

CONSTANTS Msgs, MaxRetries

VARIABLES status,     \* where each message is in its life
          retries     \* how often it has been put back

vars == <<status, retries>>

Settled == {"completed", "failed", "dropped"}

Init ==
    /\ status = [m \in Msgs |-> "new"]
    /\ retries = [m \in Msgs |-> 0]

\* The producer's push returns nil, or ErrQueueFull (it may try again).
Submit(m) ==
    /\ status[m] \in {"new", "rejected"}
    /\ \E s \in {"pending", "rejected"} : status' = [status EXCEPT ![m] = s]
    /\ UNCHANGED retries

Take(m) ==
    /\ status[m] = "pending"
    /\ status' = [status EXCEPT ![m] = "processing"]
    /\ UNCHANGED retries

Complete(m) ==
    /\ status[m] = "processing"
    /\ status' = [status EXCEPT ![m] = "completed"]
    /\ UNCHANGED retries

\* A failed attempt with retries left: put back, or lost to a full queue.
Retry(m) ==
    /\ status[m] = "processing"
    /\ retries[m] < MaxRetries
    /\ \E s \in {"pending", "dropped"} : status' = [status EXCEPT ![m] = s]
    /\ retries' = [retries EXCEPT ![m] = @ + 1]

\* A message is given up only after its last retry.
Fail(m) ==
    /\ status[m] = "processing"
    /\ retries[m] = MaxRetries
    /\ status' = [status EXCEPT ![m] = "failed"]
    /\ UNCHANGED retries

Next == \E m \in Msgs :
    Submit(m) \/ Take(m) \/ Complete(m) \/ Retry(m) \/ Fail(m)

Spec == Init /\ [][Next]_vars
=============================================================================
