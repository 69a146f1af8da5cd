------------------------- MODULE DelayedQueueProofs -------------------------
(***************************************************************************)
(* Proofs about DelayedQueue, for any messages, instants and clock bound,  *)
(* with or without Clear, Stop and a processFn that schedules again.       *)
(***************************************************************************)
EXTENDS DelayedQueue, FiniteSetTheorems, TLAPS

-----------------------------------------------------------------------------
(* Types. *)

ItemType == [msg : Msgs, readyAt : Nat]
RunAt == {"top", "decide", "select", "send", "exited"}
ProcAt == {"select", "process", "resched", "exited"}
States == {"new", "sending", "queued", "ready", "processing", "done", "cleared"}

\* The types of the variables.
TypeOK ==
    /\ now \in Nat
    /\ items \subseteq ItemType /\ scheduling \subseteq ItemType
    /\ nextItem \subseteq ItemType
    /\ run \in RunAt /\ proc \in ProcAt
    /\ deadline \subseteq Nat
    /\ ready \subseteq Msgs /\ current \subseteq Msgs
    /\ cancelled \in BOOLEAN
    /\ state \in [Msgs -> States]

\* An item that is scheduled is one.
LEMMA ItemIsTyped ==
    ASSUME NEW m \in Msgs, NEW t \in ReadyTimes
    PROVE  Item(m, t) \in ItemType /\ Item(m, t).msg = m
BY TimesType DEF Item, ItemType

\* Every action keeps the types.
LEMMA StepTypeOK == TypeOK /\ [Next]_vars => TypeOK'
<1> SUFFICES ASSUME TypeOK, [Next]_vars PROVE TypeOK'
  OBVIOUS
<1> USE DEF TypeOK, RunAt, ProcAt, States
<1>1. CASE Tick
  BY <1>1 DEF Tick
<1>2. CASE Clear
  BY <1>2 DEF Clear
<1>3. CASE Stop
  BY <1>3 DEF Stop
<1>4. ASSUME NEW m \in Msgs, NEW t \in ReadyTimes, Schedule(m, t) PROVE TypeOK'
  BY <1>4, ItemIsTyped DEF Schedule
<1>5. CASE RunTop
  BY <1>5 DEF RunTop, Earliest
<1>6. ASSUME NEW i \in items, PopDue(i)
      PROVE  /\ items' \subseteq ItemType /\ ready' \subseteq Msgs /\ run' \in RunAt
             /\ deadline' \subseteq Nat /\ state' \in [Msgs -> States]
  BY <1>6 DEF PopDue, ItemType
<1>7. CASE RunReady
  BY <1>6, <1>7 DEF RunReady, Earliest
<1>8. CASE RunWait
  BY <1>8 DEF RunWait, ItemType
<1>9. CASE RunExit
  BY <1>9 DEF RunExit
<1>10. CASE RunTimer
  BY <1>6, <1>10 DEF RunTimer, Earliest
<1>11. ASSUME NEW i \in scheduling, RunReceive(i) PROVE TypeOK'
  BY <1>11 DEF RunReceive
<1>12. CASE Handover
  BY <1>12 DEF Handover
<1>13. CASE ProcExit
  BY <1>13 DEF ProcExit
<1>14. CASE ProcReturns
  BY <1>14 DEF ProcReturns
<1>15. CASE ProcReschedules
  BY <1>15, ItemIsTyped DEF ProcReschedules
<1>16. CASE UNCHANGED vars
  BY <1>16 DEF vars
<1>17. QED
  BY <1>1, <1>2, <1>3, <1>4, <1>5, <1>7, <1>8, <1>9, <1>10, <1>11, <1>12, <1>13,
     <1>14, <1>15, <1>16 DEF Next, RunStep, ProcStep

\* The queue starts well typed.
LEMMA InitTypeOK == Init => TypeOK
<1> SUFFICES ASSUME Init PROVE TypeOK
  OBVIOUS
<1>1. state \in [Msgs -> States] /\ run \in RunAt /\ proc \in ProcAt
  BY DEF Init, RunAt, ProcAt, States
<1>2. cancelled \in BOOLEAN
  BY DEF Init
<1>3. QED BY <1>1, <1>2 DEF Init, TypeOK

(* The variables keep their types, whatever is scheduled, cleared, stopped *)
(* or scheduled again by processFn.                                        *)
THEOREM TypeCorrect == Spec => []TypeOK
BY InitTypeOK, StepTypeOK, PTL DEF Spec

-----------------------------------------------------------------------------
(* Early and out-of-order delivery.  This needs no invariant: the item is  *)
(* tested again when it is popped.                                         *)

(* An item is handed over less than a millisecond before its ReadyAt,      *)
(* and before every item due later, whatever nextItem still holds and      *)
(* however many items, clears and clock ticks intervene.                   *)
THEOREM NeverHandedOverEarly == Spec => NeverEarly
<1>1. ASSUME [Next]_vars, NEW i \in items, i \notin items', ready' = {i.msg},
             ready # ready'
      PROVE  i.readyAt < now + Slack /\ \A j \in items' : i.readyAt <= j.readyAt
  <2>1. ASSUME NEW e \in Earliest, Due(e), PopDue(e)
        PROVE  i.readyAt < now + Slack /\ \A j \in items' : i.readyAt <= j.readyAt
    BY <1>1, <2>1 DEF PopDue, Due, Earliest
  <2>2. CASE RunReady \/ RunTimer
    BY <1>1, <2>1, <2>2 DEF RunReady, RunTimer
  <2>3. CASE ~ RunReady /\ ~ RunTimer
    BY <1>1, <2>3
       DEF Next, RunStep, ProcStep, Tick, Clear, Stop, Schedule, RunTop, RunWait,
           RunExit, RunReceive, Handover, ProcExit, ProcReturns, ProcReschedules,
           vars
  <2>4. QED BY <2>2, <2>3
<1>2. [Next]_vars =>
        [\A i \in items : (i \notin items' /\ ready' = {i.msg} /\ ready # ready')
            => /\ i.readyAt < now + Slack
               /\ \A j \in items' : i.readyAt <= j.readyAt]_vars
  BY <1>1
<1>3. QED BY <1>2, PTL DEF Spec, NeverEarly

-----------------------------------------------------------------------------
(* The timer.  Between the top of the loop and the wait nextItem is due no *)
(* later than anything in the heap, although it may no longer be in it.    *)

TimerInv ==
    /\ TimerCoversHeap
    /\ run = "decide" /\ items # {} =>
          \E n \in nextItem : \A i \in items : n.readyAt <= i.readyAt

\* Every action keeps the timer early enough.
LEMMA StepTimerInv == TypeOK /\ TimerInv /\ [Next]_vars => TimerInv'
<1> SUFFICES ASSUME TypeOK, TimerInv, [Next]_vars PROVE TimerInv'
  OBVIOUS
<1> USE DEF TimerInv, TimerCoversHeap
<1>1. CASE Tick
  <2>1. \A t \in Nat : t <= now => t <= now'
    BY <1>1 DEF Tick, TypeOK
  <2>2. \A t \in deadline : t \in Nat
    BY DEF TypeOK
  <2>3. QED BY <1>1, <2>1, <2>2 DEF Tick
<1>2. CASE Clear
  BY <1>2 DEF Clear
<1>3. CASE Stop
  BY <1>3 DEF Stop
<1>4. ASSUME NEW m \in Msgs, NEW t \in ReadyTimes, Schedule(m, t) PROVE TimerInv'
  BY <1>4 DEF Schedule
<1>5. CASE RunTop
  <2>1. run' = "decide" /\ items' = items
    BY <1>5 DEF RunTop
  <2>2. ASSUME items # {}
        PROVE  \E n \in nextItem' : \A i \in items : n.readyAt <= i.readyAt
    <3>1. CASE \E i \in Earliest : nextItem' = {i}
      BY <3>1 DEF Earliest
    <3>2. CASE \E i \in Earliest, n \in nextItem :
                  i.readyAt >= n.readyAt /\ nextItem' = nextItem
      <4>1. PICK i \in Earliest, n \in nextItem :
                  i.readyAt >= n.readyAt /\ nextItem' = nextItem
        BY <3>2
      <4>2. i \in items /\ \A j \in items : i.readyAt <= j.readyAt
        BY <4>1 DEF Earliest
      <4>3. n.readyAt \in Nat /\ \A j \in items : j.readyAt \in Nat
        BY DEF TypeOK, ItemType
      <4>4. \A j \in items : n.readyAt <= j.readyAt
        BY <4>1, <4>2, <4>3
      <4>5. QED BY <4>1, <4>4
    <3>3. QED BY <1>5, <2>2, <3>1, <3>2 DEF RunTop
  <2>3. QED BY <2>1, <2>2
<1>6. CASE RunReady
  <2>1. CASE \E i \in Earliest : PopDue(i)
    BY <2>1 DEF PopDue
  <2>2. CASE run' = "select" /\ deadline' = {now} /\ now' = now
    BY <2>2 DEF TypeOK
  <2>3. QED BY <1>6, <2>1, <2>2 DEF RunReady
<1>7. CASE RunWait
  <2>1. run = "decide" /\ run' = "select" /\ items' = items
        /\ deadline' = {n.readyAt : n \in nextItem}
    BY <1>7 DEF RunWait
  <2>2. items # {} => \E t \in deadline' : \A i \in items : t <= i.readyAt
    BY <2>1
  <2>3. QED BY <2>1, <2>2
<1>8. CASE RunExit
  BY <1>8 DEF RunExit
<1>9. CASE RunTimer
  BY <1>9 DEF RunTimer, PopDue
<1>10. ASSUME NEW i \in scheduling, RunReceive(i) PROVE TimerInv'
  BY <1>10 DEF RunReceive
<1>11. CASE Handover
  BY <1>11 DEF Handover
<1>12. CASE ProcExit \/ ProcReturns \/ ProcReschedules
  BY <1>12 DEF ProcExit, ProcReturns, ProcReschedules
<1>13. CASE UNCHANGED vars
  BY <1>13 DEF vars
<1>14. QED
  BY <1>1, <1>2, <1>3, <1>4, <1>5, <1>6, <1>7, <1>8, <1>9, <1>10, <1>11, <1>12,
     <1>13 DEF Next, RunStep, ProcStep

(* While run waits, its timer is set to fire no later than the earliest    *)
(* item is due: an item that arrives wakes run, and a nextItem that Clear  *)
(* has emptied out of the heap makes run wake too early but never late.    *)
THEOREM TimerNeverLate == Spec => []TimerCoversHeap
<1>1. Init => TypeOK /\ TimerInv
  BY InitTypeOK DEF Init, TimerInv, TimerCoversHeap
<1>2. TypeOK /\ TimerInv /\ [Next]_vars => (TypeOK /\ TimerInv)'
  BY StepTypeOK, StepTimerInv
<1>3. TimerInv => TimerCoversHeap
  BY DEF TimerInv
<1>4. QED BY <1>1, <1>2, <1>3, PTL DEF Spec

-----------------------------------------------------------------------------
(* Places.  PlaceInv is OnePlace with the cardinality spelled out, and     *)
(* with what the two goroutines hold: run sends one message, and           *)
(* processReadyItems has one in hand, which during its own Schedule is     *)
(* also on its way back.                                                   *)

PlaceInv ==
    /\ \A m \in Msgs :
          /\ state[m] = "sending" <=> \E i \in scheduling : i.msg = m
          /\ state[m] = "queued" <=> \E i \in items : i.msg = m
          /\ state[m] = "ready" <=> m \in ready
          /\ state[m] = "processing" <=> m \in current /\ proc = "process"
    /\ \A i, j \in items \cup scheduling : i.msg = j.msg => i = j
    /\ IF run = "send" THEN \E m \in Msgs : ready = {m} ELSE ready = {}
    /\ IF proc \in {"process", "resched"} THEN \E m \in Msgs : current = {m}
                                          ELSE current = {}
    /\ proc = "resched" => \A m \in current : state[m] = "sending"

\* PlaceInv says what the property says.
LEMMA PlaceInvMeaning == PlaceInv => OnePlace
<1> SUFFICES ASSUME PlaceInv, NEW m \in Msgs
             PROVE  Cardinality({i \in items \cup scheduling : i.msg = m}) <= 1
  BY DEF PlaceInv, OnePlace
<1> DEFINE S == {i \in items \cup scheduling : i.msg = m}
<1>1. CASE S = {}
  <2>1. Cardinality(S) = 0
    BY <1>1, FS_EmptySet
  <2>2. QED BY <2>1
<1>2. CASE S # {}
  <2>1. PICK i \in S : TRUE
    BY <1>2
  <2>2. S = {i}
    BY <2>1 DEF PlaceInv
  <2>3. Cardinality({i}) = 1
    BY FS_Singleton
  <2>4. QED BY <2>2, <2>3
<1>3. QED BY <1>1, <1>2

\* Popping an item moves its message from the heap to the send.
LEMMA PopPlaces ==
    ASSUME TypeOK, PlaceInv, NEW i \in items, PopDue(i), run \in {"decide", "select"},
           UNCHANGED <<now, nextItem, proc, current, scheduling, cancelled>>
    PROVE  PlaceInv'
<1>1. /\ items' = items \ {i} /\ ready' = {i.msg} /\ run' = "send"
      /\ state' = [state EXCEPT ![i.msg] = "ready"]
      /\ i.msg \in Msgs /\ state[i.msg] = "queued" /\ ready = {}
  BY DEF PopDue, TypeOK, ItemType, PlaceInv
<1>2. \A j \in items' : j.msg # i.msg
  BY <1>1 DEF PlaceInv
<1>3. \A j \in scheduling : j.msg # i.msg
  BY <1>1 DEF PlaceInv
<1>4. \A m \in Msgs : state'[m] = IF m = i.msg THEN "ready" ELSE state[m]
  BY <1>1 DEF TypeOK
<1>5. \A m \in Msgs :
          /\ state'[m] = "sending" <=> \E j \in scheduling : j.msg = m
          /\ state'[m] = "queued" <=> \E j \in items' : j.msg = m
          /\ state'[m] = "ready" <=> m \in ready'
          /\ state'[m] = "processing" <=> m \in current /\ proc = "process"
  BY <1>1, <1>2, <1>3, <1>4 DEF PlaceInv
<1>6. proc = "resched" => \A m \in current : state'[m] = "sending"
  BY <1>1, <1>4 DEF PlaceInv, TypeOK
<1>7. \A j, k \in items' \cup scheduling : j.msg = k.msg => j = k
  BY <1>1 DEF PlaceInv
<1>8. QED BY <1>1, <1>5, <1>6, <1>7 DEF PlaceInv

\* A message that was nowhere is scheduled.
LEMMA SchedulePlaces ==
    ASSUME TypeOK, PlaceInv, NEW m \in Msgs, NEW t \in ReadyTimes,
           state[m] = "new" \/ (proc = "process" /\ m \in current),
           scheduling' = scheduling \cup {Item(m, t)},
           state' = [state EXCEPT ![m] = "sending"],
           proc' = (IF m \in current THEN "resched" ELSE proc),
           UNCHANGED <<items, ready, current, run>>
    PROVE  PlaceInv'
<1>1. Item(m, t).msg = m
  BY ItemIsTyped
<1>2. \A j \in Msgs : state'[j] = IF j = m THEN "sending" ELSE state[j]
  BY DEF TypeOK
<1>3. state[m] \in {"new", "processing"}
  BY DEF PlaceInv
<1>4. \A i \in items \cup scheduling : i.msg # m
  BY <1>3 DEF PlaceInv
<1>5. \A j, k \in items' \cup scheduling' : j.msg = k.msg => j = k
  BY <1>1, <1>4 DEF PlaceInv
<1>6. m \in current => current = {m} /\ proc \in {"process", "resched"}
  BY DEF PlaceInv
<1>7. m \in current => proc = "process"
  BY <1>3, <1>6 DEF PlaceInv
<1>8. \A j \in Msgs :
          /\ state'[j] = "sending" <=> \E i \in scheduling' : i.msg = j
          /\ state'[j] = "queued" <=> \E i \in items' : i.msg = j
          /\ state'[j] = "ready" <=> j \in ready'
          /\ state'[j] = "processing" <=> j \in current' /\ proc' = "process"
  BY <1>1, <1>2, <1>3, <1>4, <1>6, <1>7 DEF PlaceInv
<1>9. proc' = "resched" => \A j \in current : state'[j] = "sending"
  BY <1>2, <1>6, <1>7 DEF PlaceInv, TypeOK
<1>10. IF proc' \in {"process", "resched"} THEN \E j \in Msgs : current' = {j}
                                           ELSE current' = {}
  BY <1>6 DEF PlaceInv
<1>11. QED BY <1>5, <1>8, <1>9, <1>10 DEF PlaceInv

\* Every action keeps every message in its one place.
LEMMA StepPlaceInv == TypeOK /\ PlaceInv /\ [Next]_vars => PlaceInv'
<1> SUFFICES ASSUME TypeOK, PlaceInv, [Next]_vars PROVE PlaceInv'
  OBVIOUS
<1>1. CASE Tick \/ Stop
  BY <1>1 DEF Tick, Stop, PlaceInv
<1>2. CASE Clear
  <2>1. \A m \in Msgs : state'[m] = IF state[m] = "queued" THEN "cleared" ELSE state[m]
    BY <1>2 DEF Clear, PlaceInv
  <2>2. /\ items' = {} /\ scheduling' = scheduling /\ ready' = ready /\ run' = run
        /\ proc' = proc /\ current' = current
    BY <1>2 DEF Clear
  <2>3. \A m \in Msgs :
          /\ state'[m] = "sending" <=> \E i \in scheduling' : i.msg = m
          /\ state'[m] = "queued" <=> \E i \in items' : i.msg = m
          /\ state'[m] = "ready" <=> m \in ready'
          /\ state'[m] = "processing" <=> m \in current' /\ proc' = "process"
    BY <2>1, <2>2 DEF PlaceInv
  <2>4. proc = "resched" => \A m \in current : state'[m] = "sending"
    BY <2>1 DEF PlaceInv, TypeOK
  <2>5. QED BY <2>2, <2>3, <2>4 DEF PlaceInv
<1>3. ASSUME NEW m \in Msgs, NEW t \in ReadyTimes, Schedule(m, t) PROVE PlaceInv'
  <2>1. m \notin current
    BY <1>3 DEF Schedule, PlaceInv
  <2>2. QED BY <1>3, <2>1, SchedulePlaces DEF Schedule
<1>4. CASE RunTop
  BY <1>4 DEF RunTop, PlaceInv
<1>5. CASE RunReady
  <2>1. CASE \E i \in Earliest : PopDue(i)
    BY <1>5, <2>1, PopPlaces DEF RunReady, Earliest
  <2>2. CASE run' = "select" /\ UNCHANGED <<items, ready, state>>
    BY <1>5, <2>2 DEF RunReady, PlaceInv
  <2>3. QED BY <1>5, <2>1, <2>2 DEF RunReady
<1>6. CASE RunWait \/ RunExit
  BY <1>6 DEF RunWait, RunExit, PlaceInv
<1>7. CASE RunTimer
  <2>1. CASE \E i \in Earliest : PopDue(i)
    BY <1>7, <2>1, PopPlaces DEF RunTimer, Earliest
  <2>2. CASE run' = "top" /\ UNCHANGED <<items, ready, state>>
    BY <1>7, <2>2 DEF RunTimer, PlaceInv
  <2>3. QED BY <1>7, <2>1, <2>2 DEF RunTimer
<1>8. ASSUME NEW i \in scheduling, RunReceive(i) PROVE PlaceInv'
  <2>1. /\ i.msg \in Msgs /\ state[i.msg] = "sending"
        /\ run = "select" /\ run' = "top" /\ ready' = ready
        /\ items' = items \cup {i} /\ scheduling' = scheduling \ {i}
    BY <1>8 DEF RunReceive, TypeOK, ItemType, PlaceInv
  <2>2. \A m \in Msgs : state'[m] = IF m = i.msg THEN "queued" ELSE state[m]
    BY <1>8 DEF RunReceive, TypeOK
  <2>3. \A j, k \in items' \cup scheduling' : j.msg = k.msg => j = k
    BY <2>1 DEF PlaceInv
  <2>4. \A j \in scheduling' : j.msg # i.msg
    BY <2>1 DEF PlaceInv
  <2>5. CASE proc = "resched" /\ i.msg \in current
    <3>1. proc' = "select" /\ current' = {} /\ current = {i.msg}
      BY <1>8, <2>5 DEF RunReceive, PlaceInv
    <3>2. QED BY <2>1, <2>2, <2>3, <2>4, <2>5, <3>1 DEF PlaceInv
  <2>6. CASE ~ (proc = "resched" /\ i.msg \in current)
    <3>1. proc' = proc /\ current' = current
      BY <1>8, <2>6 DEF RunReceive
    <3>2. proc = "resched" => \A m \in current : state'[m] = "sending"
      BY <2>2, <2>6 DEF PlaceInv, TypeOK
    <3>3. \A m \in Msgs :
            /\ state'[m] = "sending" <=> \E j \in scheduling' : j.msg = m
            /\ state'[m] = "queued" <=> \E j \in items' : j.msg = m
            /\ state'[m] = "ready" <=> m \in ready'
            /\ state'[m] = "processing" <=> m \in current' /\ proc' = "process"
      BY <2>1, <2>2, <2>4, <3>1 DEF PlaceInv
    <3>4. QED BY <2>1, <2>3, <3>1, <3>2, <3>3 DEF PlaceInv
  <2>7. QED BY <2>5, <2>6
<1>9. CASE Handover
  <2>1. /\ proc = "select" /\ proc' = "process" /\ current = {} /\ current' = ready
        /\ ready' = {} /\ run' = "top" /\ items' = items /\ scheduling' = scheduling
        /\ \E m \in Msgs : ready = {m}
    BY <1>9 DEF Handover, PlaceInv
  <2>2. \A m \in Msgs : state'[m] = IF m \in ready THEN "processing" ELSE state[m]
    BY <1>9 DEF Handover
  <2>3. QED BY <2>1, <2>2 DEF PlaceInv
<1>10. CASE ProcExit
  BY <1>10 DEF ProcExit, PlaceInv
<1>11. CASE ProcReturns
  <2>1. /\ proc = "process" /\ proc' = "select" /\ current' = {}
        /\ UNCHANGED <<items, run, ready, scheduling>>
    BY <1>11 DEF ProcReturns
  <2>2. \A m \in Msgs : state'[m] = IF m \in current THEN "done" ELSE state[m]
    BY <1>11 DEF ProcReturns
  <2>3. QED BY <2>1, <2>2 DEF PlaceInv
<1>12. CASE ProcReschedules
  BY <1>12, SchedulePlaces DEF ProcReschedules, TypeOK
<1>13. CASE UNCHANGED vars
  BY <1>13 DEF vars, PlaceInv
<1>14. QED
  BY <1>1, <1>2, <1>3, <1>4, <1>5, <1>6, <1>7, <1>8, <1>9, <1>10, <1>11, <1>12,
     <1>13 DEF Next, RunStep, ProcStep

(* A message is in one place, once: in a Schedule that waits, in the heap, *)
(* on its way through readyCh or with processFn, for any number of         *)
(* messages, also when processFn schedules its own message again.          *)
THEOREM NothingLost == Spec => []OnePlace
<1>1. Init => TypeOK /\ PlaceInv
  BY InitTypeOK DEF Init, PlaceInv
<1>2. TypeOK /\ PlaceInv /\ [Next]_vars => (TypeOK /\ PlaceInv)'
  BY StepTypeOK, StepPlaceInv
<1>3. QED BY <1>1, <1>2, PlaceInvMeaning, PTL DEF Spec

=============================================================================
