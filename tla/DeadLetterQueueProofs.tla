----------------------- MODULE DeadLetterQueueProofs -----------------------
(***************************************************************************)
(* Proofs about DeadLetterQueue, for any messages, limits, retry budget    *)
(* and batches of indices.  Only the last theorem, about the entries that   *)
(* a batch takes out, assumes that no batch names an index twice; it rests  *)
(* on what sortIndices computes.                                            *)
(***************************************************************************)
EXTENDS DeadLetterQueue, SequenceTheorems, NaturalsInduction, WellFoundedInduction, TLAPS

-----------------------------------------------------------------------------
(* Types. *)

Entries == [msg : DLMsgs, retryCount : Nat]
Places == {"new", "queue", "held", "done", "dropped", "refused", "dead", "removed"}

\* The types of the variables that the properties are about.
TypeOK ==
    /\ items \in Seq(Entries)
    /\ queue \subseteq DLMsgs
    /\ retryCount \in [DLMsgs -> Nat]
    /\ place \in [DLMsgs -> Places]
    /\ tries \in [DLMsgs -> Nat]
    /\ mu \in {"free", "requeue"}
    /\ pushed \in BOOLEAN

\* The entries but for the one that RequeueRemove is about to take out stand
\* for the parked messages, each for one.
ParkInv ==
    /\ mu = "free" => ~ pushed
    /\ pushed => todo # <<>> /\ InRange(Head(todo))
    /\ \A j, k \in 1..Len(items) : items[j].msg = items[k].msg => j = k
    /\ \A k \in 1..Len(items) :
          ~ (pushed /\ k = Head(todo) + 1) => place[items[k].msg] = "dead"
    /\ \A m \in DLMsgs : place[m] = "dead" =>
          \E k \in 1..Len(items) :
              items[k].msg = m /\ ~ (pushed /\ k = Head(todo) + 1)
    /\ pushed => place[items[Head(todo) + 1].msg] # "dead"

\* What is left of a message's budget, wherever it is.
BudgetInv ==
    \A m \in DLMsgs :
        /\ m \in queue <=> place[m] = "queue"
        /\ place[m] = "new" => retryCount[m] = 0 /\ tries[m] = 0
        /\ place[m] = "queue" => tries[m] = retryCount[m]
        /\ place[m] = "held" => tries[m] = retryCount[m] + 1
        /\ place[m] \in {"dead", "refused"} => tries[m] = MaxRetries + 1

-----------------------------------------------------------------------------
(* Facts about the operators. *)

\* A sequence without the element at a position.
LEMMA RemoveAtProperties ==
    ASSUME NEW S, NEW s \in Seq(S), NEW i \in 1..Len(s)
    PROVE  /\ RemoveAt(s, i) \in Seq(S) /\ Len(RemoveAt(s, i)) = Len(s) - 1
           /\ Len(s) \in Nat
           /\ \A k \in 1..Len(s) - 1 :
                 RemoveAt(s, i)[k] = IF k < i THEN s[k] ELSE s[k + 1]
<1> DEFINE a == SubSeq(s, 1, i - 1)
           b == SubSeq(s, i + 1, Len(s))
<1>1. Len(s) \in Nat /\ \A k \in 1..Len(s) : s[k] \in S
  BY LenProperties
<1>2. /\ a \in Seq(S) /\ Len(a) = i - 1
      /\ \A k \in 1..i - 1 : a[k] = s[k]
  BY <1>1, SubSeqProperties
<1>3. /\ b \in Seq(S) /\ Len(b) = Len(s) - i
      /\ \A k \in 1..Len(s) - i : b[k] = s[i + k]
  BY <1>1, SubSeqProperties
<1>4. RemoveAt(s, i) = a \o b
  BY DEF RemoveAt
<1> HIDE DEF a, b
<1>5. /\ a \o b \in Seq(S) /\ Len(a \o b) = Len(a) + Len(b)
      /\ \A k \in 1..Len(a) + Len(b) :
            (a \o b)[k] = IF k <= Len(a) THEN a[k] ELSE b[k - Len(a)]
  BY <1>2, <1>3, ConcatProperties
<1>6. ASSUME NEW k \in 1..Len(s) - 1
      PROVE  RemoveAt(s, i)[k] = IF k < i THEN s[k] ELSE s[k + 1]
  <2>1. CASE k < i
    BY <1>1, <1>2, <1>3, <1>4, <1>5, <2>1
  <2>2. CASE ~ k < i
    <3>1. k - (i - 1) \in 1..Len(s) - i /\ i + (k - (i - 1)) = k + 1
      BY <1>1, <2>2
    <3>2. k \in 1..Len(a) + Len(b) /\ ~ (k <= Len(a)) /\ Len(a) = i - 1
      BY <1>1, <1>2, <1>3, <2>2
    <3>3. (a \o b)[k] = b[k - (i - 1)]
      BY <1>5, <3>2
    <3>4. b[k - (i - 1)] = s[i + (k - (i - 1))]
      BY <1>3, <3>1
    <3>5. QED BY <1>4, <2>2, <3>1, <3>3, <3>4
  <2>3. QED BY <2>1, <2>2
<1>7. QED BY <1>1, <1>2, <1>3, <1>4, <1>5, <1>6

\* The entries as positions and messages.
LEMMA ItemsType ==
    ASSUME TypeOK
    PROVE  /\ Len(items) \in Nat /\ DOMAIN items = 1..Len(items)
           /\ \A k \in 1..Len(items) :
                 /\ items[k].msg \in DLMsgs /\ items[k].retryCount \in Nat
                 /\ items[k] \in Entries
<1>1. /\ Len(items) \in Nat /\ DOMAIN items = 1..Len(items)
      /\ \A k \in 1..Len(items) : items[k] \in Entries
  BY LenProperties DEF TypeOK
<1>2. \A e \in Entries : e.msg \in DLMsgs /\ e.retryCount \in Nat
  BY DEF Entries
<1>3. QED BY <1>1, <1>2

\* An index in range is the position of an entry.
LEMMA InRangePosition ==
    ASSUME TypeOK, NEW i, InRange(i)
    PROVE  i \in Nat /\ i + 1 \in 1..Len(items) /\ items[i + 1].msg \in DLMsgs
BY ItemsType DEF InRange

\* Taking an entry out of distinct entries leaves the others, which have other
\* messages.
LEMMA OthersStay ==
    ASSUME TypeOK, NEW i \in 1..Len(items), items' = RemoveAt(items, i),
           \A j, k \in 1..Len(items) : items[j].msg = items[k].msg => j = k
    PROVE  /\ items' \in Seq(Entries) /\ Len(items') = Len(items) - 1
           /\ \A j, k \in 1..Len(items') : items'[j].msg = items'[k].msg => j = k
           /\ \A k \in 1..Len(items') :
                 /\ items'[k].msg # items[i].msg
                 /\ \E j \in 1..Len(items) : j # i /\ items'[k] = items[j]
           /\ \A j \in 1..Len(items) :
                 j # i => \E k \in 1..Len(items') : items'[k] = items[j]
<1>1. /\ items' \in Seq(Entries) /\ Len(items') = Len(items) - 1
      /\ Len(items) \in Nat
      /\ \A k \in 1..Len(items) - 1 :
            items'[k] = IF k < i THEN items[k] ELSE items[k + 1]
  BY RemoveAtProperties DEF TypeOK
<1>2. ASSUME NEW k \in 1..Len(items')
      PROVE  /\ items'[k].msg # items[i].msg
             /\ \E j \in 1..Len(items) : j # i /\ items'[k] = items[j]
  <2>1. CASE k < i
    BY <1>1, <2>1
  <2>2. CASE ~ k < i
    <3>1. k + 1 \in 1..Len(items) /\ k + 1 # i /\ items'[k] = items[k + 1]
      BY <1>1, <2>2
    <3>2. QED BY <3>1
  <2>3. QED BY <2>1, <2>2
<1>3. ASSUME NEW j \in 1..Len(items), j # i
      PROVE  \E k \in 1..Len(items') : items'[k] = items[j]
  <2>1. CASE j < i
    BY <1>1, <2>1
  <2>2. CASE ~ j < i
    <3>1. j - 1 \in 1..Len(items') /\ items'[j - 1] = items[(j - 1) + 1]
      BY <1>1, <1>3, <2>2
    <3>2. QED BY <3>1
  <2>3. QED BY <2>1, <2>2
<1>4. ASSUME NEW j \in 1..Len(items'), NEW k \in 1..Len(items'),
             items'[j].msg = items'[k].msg
      PROVE  j = k
  <2> DEFINE at(x) == IF x < i THEN x ELSE x + 1
  <2>1. /\ at(j) \in 1..Len(items) /\ at(k) \in 1..Len(items)
        /\ items'[j] = items[at(j)] /\ items'[k] = items[at(k)]
    BY <1>1
  <2>2. at(j) = at(k)
    BY <1>4, <2>1
  <2>3. QED BY <1>1, <2>2
<1>5. QED BY <1>1, <1>2, <1>3, <1>4

-----------------------------------------------------------------------------
(* Every action keeps the types. *)

LEMMA InitTypeOK == DLInit => TypeOK
<1> SUFFICES ASSUME DLInit PROVE TypeOK
  OBVIOUS
<1>1. items \in Seq(Entries)
  BY EmptySeq DEF DLInit
<1>2. QED BY <1>1 DEF DLInit, TypeOK, Places

LEMMA StepTypeOK == TypeOK /\ ParkInv /\ [DLNext]_DLvars => TypeOK'
<1> SUFFICES ASSUME TypeOK, ParkInv, [DLNext]_DLvars PROVE TypeOK'
  OBVIOUS
<1> USE DEF requeueVars, notifyVars
<1>0. MaxRetries \in Nat
  BY DLSizes
<1>1. ASSUME NEW m \in DLMsgs, Submit(m) PROVE TypeOK'
  BY <1>1 DEF Submit, TypeOK, Places
<1>2. ASSUME NEW m \in DLMsgs, Take(m) PROVE TypeOK'
  BY <1>2 DEF Take, TypeOK, Places
<1>3. ASSUME NEW m \in DLMsgs, Attempted(m) PROVE TypeOK'
  <2>1. retryCount' \in [DLMsgs -> Nat]
    BY <1>3 DEF Attempted, TypeOK
  <2>0. queue' \subseteq DLMsgs
    BY <1>3 DEF Attempted, TypeOK
  <2>2. place' \in [DLMsgs -> Places]
    BY <1>3 DEF Attempted, TypeOK, Places
  <2>3. QED BY <1>3, <2>0, <2>1, <2>2 DEF Attempted, TypeOK
<1>4. ASSUME NEW m \in DLMsgs, DLPush(m) PROVE TypeOK'
  <2>1. place' \in [DLMsgs -> Places]
    BY <1>4 DEF DLPush, TypeOK, Places
  <2>2. [msg |-> m, retryCount |-> retryCount[m]] \in Entries
    BY DEF TypeOK, Entries
  <2>3. items' \in Seq(Entries)
    <3>1. CASE Full
      BY <1>4, <3>1 DEF DLPush, TypeOK
    <3>2. CASE ~ Full
      <4>1. items' = Append(items, [msg |-> m, retryCount |-> retryCount[m]])
        BY <1>4, <3>2 DEF DLPush
      <4>2. QED BY <2>2, <4>1, AppendProperties DEF TypeOK
    <3>3. QED BY <3>1, <3>2
  <2>4. QED BY <1>4, <2>1, <2>3 DEF DLPush, TypeOK
<1>5. ASSUME NEW i, RemoveIndex(i) PROVE TypeOK'
  <2>1. i + 1 \in 1..Len(items) /\ items[i + 1].msg \in DLMsgs
    BY <1>5, InRangePosition DEF RemoveIndex
  <2>2. items' \in Seq(Entries)
    BY <1>5, <2>1, RemoveAtProperties DEF RemoveIndex, TypeOK
  <2>3. place' \in [DLMsgs -> Places]
    BY <1>5, <2>1 DEF RemoveIndex, TypeOK, Places
  <2>4. QED BY <1>5, <2>2, <2>3 DEF RemoveIndex, TypeOK
<1>6. CASE Clear
  <2>1. items' \in Seq(Entries)
    BY <1>6, EmptySeq DEF Clear
  <2>2. place' \in [DLMsgs -> Places]
    BY <1>6 DEF Clear, TypeOK, Places
  <2>3. QED BY <1>6, <2>1, <2>2 DEF Clear, TypeOK
<1>7. ASSUME NEW b, BatchRequeue(b) PROVE TypeOK'
  BY <1>7 DEF BatchRequeue, TypeOK
<1>8. CASE RequeuePush
  <2> DEFINE m == items[Head(todo) + 1].msg
  <2>1. m \in DLMsgs
    BY <1>8, InRangePosition DEF RequeuePush
  <2>2. /\ retryCount' = [retryCount EXCEPT ![m] = 0]
        /\ \/ UNCHANGED <<queue, place, tries, pushed>>
           \/ /\ queue' = queue \cup {m}
              /\ place' = [place EXCEPT ![m] = "queue"]
              /\ tries' = [tries EXCEPT ![m] = 0]
              /\ pushed' = TRUE
        /\ UNCHANGED <<items, mu>>
    BY <1>8 DEF RequeuePush
  <2> HIDE DEF m
  <2>3. place' \in [DLMsgs -> Places] /\ queue' \subseteq DLMsgs
    BY <2>1, <2>2 DEF TypeOK, Places
  <2>4. retryCount' \in [DLMsgs -> Nat]
    BY <2>1, <2>2 DEF TypeOK
  <2>5. tries' \in [DLMsgs -> Nat]
    BY <2>1, <2>2 DEF TypeOK
  <2>6. pushed' \in BOOLEAN
    BY <2>2 DEF TypeOK
  <2>7. QED BY <2>2, <2>3, <2>4, <2>5, <2>6 DEF TypeOK
<1>9. CASE RequeueRemove
  <2>1. Head(todo) + 1 \in 1..Len(items)
    BY <1>9, InRangePosition DEF RequeueRemove, ParkInv
  <2>2. items' \in Seq(Entries)
    BY <1>9, <2>1, RemoveAtProperties DEF RequeueRemove, TypeOK
  <2>3. QED BY <1>9, <2>2 DEF RequeueRemove, TypeOK
<1>10. CASE RequeueSkip
  BY <1>10 DEF RequeueSkip, TypeOK
<1>11. CASE RequeueReturns
  BY <1>11 DEF RequeueReturns, TypeOK
<1>12. CASE Notify \/ Receive \/ Close
  BY <1>12 DEF Notify, Receive, Close, TypeOK
<1>13. CASE UNCHANGED DLvars
  BY <1>13 DEF DLvars, TypeOK
<1>14. QED
  BY <1>1, <1>2, <1>3, <1>4, <1>5, <1>6, <1>7, <1>8, <1>9, <1>10, <1>11, <1>12,
     <1>13 DEF DLNext

-----------------------------------------------------------------------------
(* Every action keeps the entries and the parked messages together.        *)

\* ParkInv is the property.
LEMMA ParkInvMeaning == TypeOK /\ ParkInv => ParkedOnce
<1> SUFFICES ASSUME TypeOK, ParkInv PROVE ParkedOnce
  OBVIOUS
<1>1. DOMAIN items = 1..Len(items) /\ \A k \in 1..Len(items) : items[k].msg \in DLMsgs
  BY ItemsType
<1>2. ASSUME NEW m \in DLMsgs PROVE place[m] = "dead" <=> m \in Parked
  BY <1>1 DEF ParkInv, Parked, Leaving
<1>3. QED BY <1>1, <1>2 DEF ParkInv, ParkedOnce

\* Steps that leave the entries alone and park nothing.
LEMMA ParkSame ==
    ASSUME TypeOK, ParkInv, items' = items, pushed' = pushed,
           pushed => todo' = todo, mu' = "free" => mu = "free" \/ ~ pushed,
           \A m \in DLMsgs : place'[m] = "dead" <=> place[m] = "dead"
    PROVE  ParkInv'
<1>1. \A k \in 1..Len(items) : items[k].msg \in DLMsgs
  BY ItemsType
<1>2. pushed => /\ InRange(Head(todo)) /\ items[Head(todo) + 1].msg \in DLMsgs
                /\ InRange(Head(todo))'
  BY InRangePosition DEF ParkInv, InRange
<1>3. QED BY <1>1, <1>2 DEF ParkInv

LEMMA StepPark == TypeOK /\ ParkInv /\ BudgetInv /\ [DLNext]_DLvars => ParkInv'
<1> SUFFICES ASSUME TypeOK, ParkInv, BudgetInv, [DLNext]_DLvars PROVE ParkInv'
  OBVIOUS
<1> USE DEF requeueVars, notifyVars
<1>0. /\ Len(items) \in Nat
      /\ \A k \in 1..Len(items) : items[k].msg \in DLMsgs /\ items[k] \in Entries
  BY ItemsType
<1>1. ASSUME NEW m \in DLMsgs, Submit(m) \/ Take(m) \/ Attempted(m) PROVE ParkInv'
  <2>1. place[m] # "dead"
    BY <1>1 DEF Submit, Take, Attempted, BudgetInv
  <2>2. \E p \in Places \ {"dead"} : place' = [place EXCEPT ![m] = p]
    BY <1>1 DEF Submit, Take, Attempted, Places
  <2>3. \A x \in DLMsgs : place'[x] = "dead" <=> place[x] = "dead"
    BY <2>1, <2>2 DEF TypeOK
  <2>4. QED BY <1>1, <2>3, ParkSame DEF Submit, Take, Attempted
<1>2. ASSUME NEW m \in DLMsgs, DLPush(m) PROVE ParkInv'
  <2>1. mu = "free" /\ ~ pushed /\ pushed' = pushed /\ place[m] = "held" /\ mu' = mu
    BY <1>2 DEF DLPush, ParkInv
  <2>2. CASE Full
    <3>1. \A x \in DLMsgs : place'[x] = "dead" <=> place[x] = "dead"
      BY <1>2, <2>1, <2>2 DEF DLPush, TypeOK
    <3>2. QED BY <1>2, <2>1, <2>2, <3>1, ParkSame DEF DLPush
  <2>3. CASE ~ Full
    <3> DEFINE e == [msg |-> m, retryCount |-> retryCount[m]]
    <3>1. e \in Entries /\ e.msg = m
      BY DEF TypeOK, Entries
    <3>2. items' = Append(items, e) /\ place' = [place EXCEPT ![m] = "dead"]
      BY <1>2, <2>3 DEF DLPush
    <3> HIDE DEF e
    <3>3. /\ Len(items') = Len(items) + 1 /\ items'[Len(items) + 1] = e
          /\ \A k \in 1..Len(items) : items'[k] = items[k]
      BY <3>1, <3>2, AppendProperties DEF TypeOK
    <3>4. \A k \in 1..Len(items) : items[k].msg # m /\ place[items[k].msg] = "dead"
      BY <2>1 DEF ParkInv
    <3>5. \A x \in DLMsgs : place'[x] = IF x = m THEN "dead" ELSE place[x]
      BY <3>2 DEF TypeOK
    <3>6. \A k \in 1..Len(items') : k \in 1..Len(items) \/ k = Len(items) + 1
      BY <1>0, <3>3
    <3>7. \A j, k \in 1..Len(items') : items'[j].msg = items'[k].msg => j = k
      BY <3>1, <3>3, <3>4, <3>6 DEF ParkInv
    <3>8. \A k \in 1..Len(items') : place'[items'[k].msg] = "dead"
      BY <1>0, <3>1, <3>3, <3>4, <3>5, <3>6
    <3>9. ASSUME NEW x \in DLMsgs, place'[x] = "dead"
          PROVE  \E k \in 1..Len(items') : items'[k].msg = x
      <4>1. CASE x = m
        BY <1>0, <3>1, <3>3, <4>1
      <4>2. CASE x # m
        <5>1. PICK k \in 1..Len(items) : items[k].msg = x
          BY <3>5, <3>9, <4>2 DEF ParkInv
        <5>2. k \in 1..Len(items') /\ items'[k].msg = x
          BY <1>0, <3>3, <5>1
        <5>3. QED BY <5>2
      <4>3. QED BY <4>1, <4>2
    <3>10. QED BY <2>1, <3>7, <3>8, <3>9 DEF ParkInv
  <2>4. QED BY <2>2, <2>3
<1>3. ASSUME NEW i, RemoveIndex(i) PROVE ParkInv'
  <2> DEFINE p == i + 1
             m == items[p].msg
  <2>1. /\ ~ pushed /\ pushed' = pushed /\ mu' = mu
        /\ items' = RemoveAt(items, p)
        /\ place' = [place EXCEPT ![m] = "removed"]
    BY <1>3 DEF RemoveIndex, ParkInv
  <2>2. p \in 1..Len(items) /\ m \in DLMsgs
    BY <1>3, InRangePosition DEF RemoveIndex
  <2> HIDE DEF p
  <2>3. /\ \A j, k \in 1..Len(items') : items'[j].msg = items'[k].msg => j = k
        /\ \A k \in 1..Len(items') :
              /\ items'[k].msg # m
              /\ \E j \in 1..Len(items) : j # p /\ items'[k] = items[j]
        /\ \A j \in 1..Len(items) :
              j # p => \E k \in 1..Len(items') : items'[k] = items[j]
    BY <2>1, <2>2, OthersStay DEF ParkInv
  <2>4. \A x \in DLMsgs : place'[x] = IF x = m THEN "removed" ELSE place[x]
    BY <2>1, <2>2 DEF TypeOK
  <2>5. ASSUME NEW k \in 1..Len(items') PROVE place'[items'[k].msg] = "dead"
    <3>1. PICK j \in 1..Len(items) : items'[k] = items[j]
      BY <2>3
    <3>2. items[j].msg # m
      BY <2>3, <3>1
    <3>3. items[j].msg \in DLMsgs
      BY <1>0
    <3>4. place[items[j].msg] = "dead"
      BY <2>1 DEF ParkInv
    <3>5. QED BY <2>4, <3>1, <3>2, <3>3, <3>4
  <2>6. ASSUME NEW x \in DLMsgs, place'[x] = "dead"
        PROVE  \E k \in 1..Len(items') : items'[k].msg = x
    <3>1. x # m /\ place[x] = "dead"
      BY <2>4, <2>6
    <3>2. PICK j \in 1..Len(items) : items[j].msg = x
      BY <3>1 DEF ParkInv
    <3>3. QED BY <2>3, <3>1, <3>2
  <2>7. QED BY <2>1, <2>3, <2>5, <2>6 DEF ParkInv
<1>4. CASE Clear
  <2>1. ~ pushed /\ pushed' = pushed /\ mu' = mu /\ Len(items') = 0
    BY <1>4, EmptySeq DEF Clear, ParkInv
  <2>2. ASSUME NEW x \in DLMsgs PROVE place'[x] # "dead"
    <3>1. place'[x] = IF \E k \in DOMAIN items : items[k].msg = x
                      THEN "removed" ELSE place[x]
      BY <1>4 DEF Clear
    <3>2. place[x] = "dead" => \E k \in DOMAIN items : items[k].msg = x
      BY ItemsType DEF ParkInv
    <3>3. QED BY <3>1, <3>2
  <2>3. QED BY <2>1, <2>2 DEF ParkInv
<1>5. ASSUME NEW b, BatchRequeue(b) PROVE ParkInv'
  BY <1>5, ParkSame DEF BatchRequeue, ParkInv
<1>6. CASE RequeuePush
  <2> DEFINE p == Head(todo) + 1
             m == items[p].msg
  <2>1. /\ p \in 1..Len(items) /\ m \in DLMsgs /\ ~ pushed /\ todo # <<>>
        /\ InRange(Head(todo)) /\ mu = "requeue" /\ mu' = mu /\ items' = items
    BY <1>6, InRangePosition DEF RequeuePush
  <2>2. CASE QueueFull
    BY <1>6, <2>1, <2>2, ParkSame DEF RequeuePush
  <2>3. CASE ~ QueueFull
    <3>1. place' = [place EXCEPT ![m] = "queue"] /\ pushed' = TRUE /\ todo' = todo
      BY <1>6, <2>3 DEF RequeuePush
    <3>2. InRange(Head(todo))'
      BY <2>1, <3>1 DEF InRange
    <3>3. Head(todo') + 1 = p /\ items'[Head(todo') + 1].msg = m
      BY <2>1, <3>1
    <3> HIDE DEF p
    <3>4. \A x \in DLMsgs : place'[x] = IF x = m THEN "queue" ELSE place[x]
      BY <2>1, <3>1 DEF TypeOK
    <3>5. \A k \in 1..Len(items) : k # p => items[k].msg # m
      BY <2>1 DEF ParkInv
    <3>6. \A k \in 1..Len(items) : k # p => place'[items[k].msg] = "dead"
      BY <1>0, <2>1, <3>4, <3>5 DEF ParkInv
    <3>7. ASSUME NEW x \in DLMsgs, place'[x] = "dead"
          PROVE  \E k \in 1..Len(items) : items[k].msg = x /\ k # p
      BY <3>4, <3>7 DEF ParkInv
    <3>8. place'[m] # "dead"
      BY <2>1, <3>4
    <3>9. \A j, k \in 1..Len(items') : items'[j].msg = items'[k].msg => j = k
      BY <2>1 DEF ParkInv
    <3>10. QED
      BY <2>1, <3>1, <3>2, <3>3, <3>6, <3>7, <3>8, <3>9 DEF ParkInv
  <2>4. QED BY <2>2, <2>3
<1>7. CASE RequeueRemove
  <2> DEFINE p == Head(todo) + 1
             m == items[p].msg
  <2>1. /\ pushed /\ pushed' = FALSE /\ place' = place /\ mu' = mu
        /\ items' = RemoveAt(items, p)
    BY <1>7 DEF RequeueRemove
  <2>2. p \in 1..Len(items) /\ m \in DLMsgs /\ place[m] # "dead"
    BY <2>1, InRangePosition DEF ParkInv
  <2>3. /\ \A k \in 1..Len(items) : k # p => place[items[k].msg] = "dead"
        /\ \A x \in DLMsgs : place[x] = "dead" =>
              \E k \in 1..Len(items) : items[k].msg = x /\ k # p
    BY <2>1 DEF ParkInv
  <2> HIDE DEF p
  <2>4. /\ \A j, k \in 1..Len(items') : items'[j].msg = items'[k].msg => j = k
        /\ \A k \in 1..Len(items') :
              \E j \in 1..Len(items) : j # p /\ items'[k] = items[j]
        /\ \A j \in 1..Len(items) :
              j # p => \E k \in 1..Len(items') : items'[k] = items[j]
    BY <2>1, <2>2, OthersStay DEF ParkInv
  <2>5. ASSUME NEW k \in 1..Len(items') PROVE place'[items'[k].msg] = "dead"
    <3>1. PICK j \in 1..Len(items) : j # p /\ items'[k] = items[j]
      BY <2>4
    <3>2. place[items[j].msg] = "dead"
      BY <2>3, <3>1
    <3>3. QED BY <2>1, <3>1, <3>2
  <2>6. ASSUME NEW x \in DLMsgs, place'[x] = "dead"
        PROVE  \E k \in 1..Len(items') : items'[k].msg = x
    <3>1. PICK j \in 1..Len(items) : items[j].msg = x /\ j # p
      BY <2>1, <2>3, <2>6
    <3>2. PICK k \in 1..Len(items') : items'[k] = items[j]
      BY <2>4, <3>1
    <3>3. QED BY <3>1, <3>2
  <2>7. QED BY <2>1, <2>4, <2>5, <2>6 DEF ParkInv
<1>8. CASE RequeueSkip
  BY <1>8, ParkSame DEF RequeueSkip
<1>9. CASE RequeueReturns
  <2>1. ~ pushed
    BY <1>9 DEF RequeueReturns, ParkInv
  <2>2. QED BY <1>9, <2>1, ParkSame DEF RequeueReturns
<1>10. CASE Notify \/ Receive \/ Close
  BY <1>10, ParkSame DEF Notify, Receive, Close
<1>11. CASE UNCHANGED DLvars
  BY <1>11, ParkSame DEF DLvars
<1>12. QED
  BY <1>1, <1>2, <1>3, <1>4, <1>5, <1>6, <1>7, <1>8, <1>9, <1>10, <1>11 DEF DLNext

-----------------------------------------------------------------------------
(* Every action keeps the budgets. *)

\* Steps that move no message, try none and reset no count.
LEMMA BudgetSame ==
    ASSUME BudgetInv, queue' = queue, retryCount' = retryCount, place' = place,
           tries' = tries
    PROVE  BudgetInv'
BY DEF BudgetInv

LEMMA StepBudget == TypeOK /\ ParkInv /\ BudgetInv /\ [DLNext]_DLvars => BudgetInv'
<1> SUFFICES ASSUME TypeOK, ParkInv, BudgetInv, [DLNext]_DLvars PROVE BudgetInv'
  OBVIOUS
<1> USE DEF requeueVars, notifyVars
<1>0. MaxRetries \in Nat
  BY DLSizes
<1>1. ASSUME NEW m \in DLMsgs, Submit(m) PROVE BudgetInv'
  BY <1>1 DEF Submit, TypeOK, BudgetInv
<1>2. ASSUME NEW m \in DLMsgs, Take(m) PROVE BudgetInv'
  BY <1>2 DEF Take, TypeOK, BudgetInv
<1>3. ASSUME NEW m \in DLMsgs, Attempted(m) PROVE BudgetInv'
  <2>1. tries' = tries /\ place[m] = "held" /\ tries[m] = retryCount[m] + 1
    BY <1>3 DEF Attempted, BudgetInv
  <2>2. \/ /\ place' = [place EXCEPT ![m] = "done"]
           /\ queue' = queue /\ retryCount' = retryCount
        \/ /\ place' = [place EXCEPT ![m] = "dropped"]
           /\ queue' = queue /\ retryCount' = [retryCount EXCEPT ![m] = @ + 1]
        \/ /\ place' = [place EXCEPT ![m] = "queue"]
           /\ queue' = queue \cup {m} /\ retryCount' = [retryCount EXCEPT ![m] = @ + 1]
    BY <1>3 DEF Attempted
  <2>3. QED BY <2>1, <2>2 DEF TypeOK, BudgetInv
<1>4. ASSUME NEW m \in DLMsgs, DLPush(m) PROVE BudgetInv'
  <2>1. /\ place[m] = "held" /\ tries[m] = MaxRetries + 1
        /\ UNCHANGED <<queue, retryCount, tries>>
    BY <1>4 DEF DLPush, BudgetInv
  <2>2. \E p \in {"refused", "dead"} : place' = [place EXCEPT ![m] = p]
    BY <1>4 DEF DLPush
  <2>3. QED BY <2>1, <2>2 DEF TypeOK, BudgetInv
<1>5. ASSUME NEW i, RemoveIndex(i) PROVE BudgetInv'
  <2> DEFINE m == items[i + 1].msg
  <2>1. /\ place' = [place EXCEPT ![m] = "removed"]
        /\ UNCHANGED <<queue, retryCount, tries>>
    BY <1>5 DEF RemoveIndex
  <2>2. m \in DLMsgs /\ place[m] = "dead"
    BY <1>5, InRangePosition DEF RemoveIndex, ParkInv
  <2> HIDE DEF m
  <2>3. QED BY <2>1, <2>2 DEF TypeOK, BudgetInv
<1>6. CASE Clear
  <2>1. /\ UNCHANGED <<queue, retryCount, tries>>
        /\ \A x \in DLMsgs : place'[x] = IF \E k \in DOMAIN items : items[k].msg = x
                                       THEN "removed" ELSE place[x]
    BY <1>6 DEF Clear
  <2>2. \A x \in DLMsgs : (\E k \in DOMAIN items : items[k].msg = x) => place[x] = "dead"
    BY <1>6, ItemsType DEF Clear, ParkInv
  <2>3. QED BY <2>1, <2>2 DEF BudgetInv
<1>7. CASE RequeuePush
  <2> DEFINE m == items[Head(todo) + 1].msg
  <2>1. /\ retryCount' = [retryCount EXCEPT ![m] = 0]
        /\ \/ UNCHANGED <<queue, place, tries>>
           \/ /\ queue' = queue \cup {m}
              /\ place' = [place EXCEPT ![m] = "queue"]
              /\ tries' = [tries EXCEPT ![m] = 0]
    BY <1>7 DEF RequeuePush
  <2>2. m \in DLMsgs /\ place[m] = "dead"
    BY <1>7, InRangePosition DEF RequeuePush, ParkInv
  <2> HIDE DEF m
  <2>3. QED BY <2>1, <2>2 DEF TypeOK, BudgetInv
<1>8. ASSUME NEW b, BatchRequeue(b) PROVE BudgetInv'
  BY <1>8, BudgetSame DEF BatchRequeue
<1>9. CASE RequeueRemove \/ RequeueSkip \/ RequeueReturns
  BY <1>9, BudgetSame DEF RequeueRemove, RequeueSkip, RequeueReturns
<1>10. CASE Notify \/ Receive \/ Close
  BY <1>10, BudgetSame DEF Notify, Receive, Close
<1>11. CASE UNCHANGED DLvars
  BY <1>11, BudgetSame DEF DLvars
<1>12. QED
  BY <1>1, <1>2, <1>3, <1>4, <1>5, <1>6, <1>7, <1>8, <1>9, <1>10, <1>11 DEF DLNext

-----------------------------------------------------------------------------
\* The three parts are inductive only together: a message is parked once
\* because it is held by one consumer, and its budget is renewed only where no
\* consumer holds it.
DLInv == TypeOK /\ ParkInv /\ BudgetInv

LEMMA InitDLInv == DLInit => DLInv
<1> SUFFICES ASSUME DLInit PROVE DLInv
  OBVIOUS
<1>1. Len(items) = 0
  BY EmptySeq DEF DLInit
<1>2. ParkInv /\ BudgetInv
  BY <1>1 DEF DLInit, ParkInv, BudgetInv
<1>3. QED BY <1>2, InitTypeOK DEF DLInv

LEMMA StepDLInv == DLInv /\ [DLNext]_DLvars => DLInv'
BY StepTypeOK, StepPark, StepBudget DEF DLInv

(* Every variable keeps its type. *)
THEOREM TypeCorrect == DLSpec => []TypeOK
<1>1. DLInv => TypeOK
  BY DEF DLInv
<1>2. QED BY <1>1, InitDLInv, StepDLInv, PTL DEF DLSpec

(* A parked message has one entry and is nowhere else, although            *)
(* BatchRequeue pushes it before it removes the entry, and the entry that  *)
(* is removed is the one that was pushed.                                  *)
THEOREM NeverParkedTwice == DLSpec => []ParkedOnce
<1>1. DLInv => ParkedOnce
  BY ParkInvMeaning DEF DLInv
<1>2. QED BY <1>1, InitDLInv, StepDLInv, PTL DEF DLSpec

(* A message is parked or turned away only after MaxRetries + 1 attempts   *)
(* since it last entered its queue, also after any number of requeues.     *)
THEOREM BudgetAlwaysRenewed == DLSpec => []BudgetRenewed
<1>1. DLInv => BudgetRenewed
  BY DEF DLInv, BudgetInv, BudgetRenewed
<1>2. QED BY <1>1, InitDLInv, StepDLInv, PTL DEF DLSpec

-----------------------------------------------------------------------------
(* Induction, and loops over positions.  A set that holds 0 and, with a    *)
(* number, the next one, holds every number: one that it did not hold would *)
(* have a least one among its like, for the order of Nat is well-founded.   *)

LEMMA SetInduction ==
    ASSUME NEW S, 0 \in S, \A n \in Nat : n \in S => n + 1 \in S
    PROVE  Nat \subseteq S
<1> DEFINE T == Nat \ S
           R == OpToRel(<, Nat)
<1> SUFFICES ASSUME T # {} PROVE FALSE
  OBVIOUS
<1>1. IsWellFoundedOn(R, Nat)
  BY NatLessThanWellFounded
<1>2. T \subseteq Nat
  OBVIOUS
<1> HIDE DEF R
<1>3. PICK x \in T : \A y \in T : ~(<<y, x>> \in R)
  BY <1>1, <1>2, WFMin
<1>4. \A y \in T : ~ (y < x)
  BY <1>3 DEF R, OpToRel
<1>5. x \in Nat /\ x # 0 /\ x - 1 \in Nat
  BY <1>3
<1>6. x - 1 \notin T
  BY <1>4, <1>5
<1>7. QED BY <1>3, <1>5, <1>6

\* Every value f takes from x0 on is in J when each turn k leads from J to J.
Loop(f, J, G, x0, a, b) ==
    /\ DOMAIN f = a..b
    /\ f[a] = x0
    /\ \A k \in a + 1..b : f[k - 1] \in J[k - 1] => f[k] = G[k][f[k - 1]]

\* f is a function of the positions a to b.
FunctionOver(f, a, b) == f = [k \in a..b |-> f[k]]

\* J[k] is what holds after turn k, and G[k] is turn k.
Leads(J, G, x0, a, b) ==
    /\ x0 \in J[a]
    /\ \A k \in a + 1..b : \A t \in J[k - 1] : G[k][t] \in J[k]

LEMMA LoopExists ==
    ASSUME NEW a \in Int, NEW b \in Int, a <= b, NEW J, NEW G, NEW x0,
           Leads(J, G, x0, a, b)
    PROVE  \E f : Loop(f, J, G, x0, a, b) /\ FunctionOver(f, a, b)
<1> DEFINE Ok(n, f) == Loop(f, J, G, x0, a, a + n) /\ FunctionOver(f, a, a + n)
                       /\ f[a + n] \in J[a + n]
           S == {n \in Nat : a + n <= b => \E f : Ok(n, f)}
<1>1. 0 \in S
  <2> DEFINE f == [k \in a..a + 0 |-> x0]
  <2>1. Ok(0, f)
    BY DEF Loop, Leads, FunctionOver
  <2>2. QED BY <2>1
<1>2. ASSUME NEW n \in Nat, n \in S, a + (n + 1) <= b PROVE \E f : Ok(n + 1, f)
  <2>0. a + n <= b /\ a + n \in Int /\ a + (n + 1) \in a + 1..b /\ a + (n + 1) - 1 = a + n
    BY <1>2
  <2>1. PICK f : Ok(n, f)
    BY <1>2, <2>0
  <2> DEFINE m == a + (n + 1)
             g == [k \in a..m |-> IF k = m THEN G[m][f[a + n]] ELSE f[k]]
  <2>2. DOMAIN g = a..m /\ FunctionOver(g, a, m) /\ g[a] = x0
    BY <2>0, <2>1 DEF Loop, FunctionOver
  <2>3. ASSUME NEW k \in a + 1..m, g[k - 1] \in J[k - 1] PROVE g[k] = G[k][g[k - 1]]
    <3>1. CASE k = m
      <4>1. k - 1 = a + n /\ k \in a..m /\ k - 1 \in a..m /\ k - 1 # m
        BY <2>0, <3>1
      <4>2. \A x \in a..m : g[x] = IF x = m THEN G[m][f[a + n]] ELSE f[x]
        OBVIOUS
      <4> HIDE DEF g, m
      <4>3. g[k] = G[m][f[a + n]] /\ g[k - 1] = f[k - 1]
        BY <3>1, <4>1, <4>2
      <4>4. QED BY <3>1, <4>1, <4>3
    <3>2. CASE k # m
      <4>1. k \in a + 1..a + n /\ k \in a..m /\ k - 1 \in a..m /\ k - 1 # m
        BY <2>0, <3>2
      <4>2. g[k] = f[k] /\ g[k - 1] = f[k - 1]
        BY <3>2, <4>1
      <4>3. QED BY <2>1, <2>3, <4>1, <4>2 DEF Loop
    <3>3. QED BY <3>1, <3>2
  <2>4. g[m] \in J[m]
    <3>1. G[m][f[a + n]] \in J[m]
      BY <2>0, <2>1 DEF Leads
    <3>2. m \in a..m
      BY <2>0
    <3>3. g[m] = G[m][f[a + n]]
      BY <3>2
    <3>4. QED BY <3>1, <3>3
  <2> HIDE DEF g
  <2>5. Ok(n + 1, g)
    BY <2>2, <2>3, <2>4 DEF Loop
  <2>6. QED BY <2>5
<1> HIDE DEF S, Ok
<1>3. Nat \subseteq S
  <2>1. \A n \in Nat : n \in S => n + 1 \in S
    BY <1>2 DEF S
  <2>2. QED BY <1>1, <2>1, SetInduction
<1>4. b - a \in Nat /\ a + (b - a) = b
  OBVIOUS
<1>5. \E f : Ok(b - a, f)
  <2>1. b - a \in S
    BY <1>3, <1>4
  <2>2. QED BY <1>4, <2>1 DEF S
<1>6. QED BY <1>4, <1>5 DEF Ok

LEMMA LoopLeads ==
    ASSUME NEW a \in Int, NEW b \in Int, a <= b, NEW J, NEW G, NEW x0,
           Leads(J, G, x0, a, b), NEW f, Loop(f, J, G, x0, a, b)
    PROVE  \A k \in a..b : f[k] \in J[k]
<1> DEFINE S == {n \in Nat : a + n <= b => f[a + n] \in J[a + n]}
<1>1. 0 \in S
  BY DEF Loop, Leads
<1>2. ASSUME NEW n \in Nat, n \in S PROVE n + 1 \in S
  <2>1. ASSUME a + (n + 1) <= b PROVE f[a + (n + 1)] \in J[a + (n + 1)]
    <3> DEFINE k == a + (n + 1)
    <3>1. k \in a + 1..b /\ k - 1 = a + n /\ a + n <= b
      BY <2>1
    <3>2. f[k - 1] \in J[k - 1]
      BY <1>2, <3>1
    <3> HIDE DEF k
    <3>3. f[k] \in J[k]
      BY <3>1, <3>2 DEF Loop, Leads
    <3>4. QED BY <3>3 DEF k
  <2>2. QED BY <2>1
<1> HIDE DEF S
<1>3. Nat \subseteq S
  BY <1>1, <1>2, SetInduction
<1>4. ASSUME NEW k \in a..b PROVE f[k] \in J[k]
  <2>1. k - a \in Nat /\ a + (k - a) = k /\ k <= b
    OBVIOUS
  <2>2. k - a \in S
    BY <1>3, <2>1
  <2>3. QED BY <2>1, <2>2 DEF S
<1>5. QED BY <1>4

-----------------------------------------------------------------------------
(* sortIndices. *)

\* The slices of the indices in R, each once, that are in order up to
\* position i: no index at one of these positions has a larger one behind it.
Settled(R, n, i) ==
    {t \in [1..n -> R] :
        /\ \A p, q \in 1..n : t[p] = t[q] => p = q
        /\ R \subseteq {t[p] : p \in 1..n}
        /\ \A p, q \in 1..n : p <= i /\ p < q => t[p] >= t[q]}

\* Those that also have at i no smaller index than at the next ones up to j.
Settling(R, n, i, j) ==
    {t \in Settled(R, n, i - 1) : \A q \in 1..n : i < q /\ q <= j => t[i] >= t[q]}

LEMMA ExchangeSettles ==
    ASSUME NEW R \in SUBSET Int, NEW n \in Nat, NEW i \in 1..n, NEW j \in i + 1..n,
           NEW t \in Settling(R, n, i, j - 1)
    PROVE  Exchange(t, i, j) \in Settling(R, n, i, j)
<1> DEFINE u == Exchange(t, i, j)
           at(p) == IF p = i THEN j ELSE IF p = j THEN i ELSE p
<1>1. /\ t \in [1..n -> R]
      /\ \A p, q \in 1..n : t[p] = t[q] => p = q
      /\ R \subseteq {t[p] : p \in 1..n}
      /\ \A p, q \in 1..n : p <= i - 1 /\ p < q => t[p] >= t[q]
      /\ \A q \in 1..n : i < q /\ q <= j - 1 => t[i] >= t[q]
  BY DEF Settling, Settled
<1>2. i \in 1..n /\ j \in 1..n /\ i < j
  OBVIOUS
<1>3. CASE ~ (t[i] < t[j])
  <2>1. u = t
    BY <1>3 DEF Exchange
  <2>2. ASSUME NEW q \in 1..n, i < q, q <= j PROVE t[i] >= t[q]
    <3>0. t[i] \in Int /\ t[q] \in Int
      BY <1>1, <1>2
    <3>1. CASE q = j
      BY <1>3, <3>0, <3>1
    <3>2. CASE q # j
      BY <1>1, <1>2, <2>2, <3>2
    <3>3. QED BY <3>1, <3>2
  <2>3. QED BY <2>1, <2>2 DEF Settling
<1>4. CASE t[i] < t[j]
  <2>1. /\ u \in [1..n -> R]
        /\ \A p \in 1..n : u[p] = t[at(p)]
        /\ \A p \in 1..n : at(p) \in 1..n /\ at(at(p)) = p
    BY <1>1, <1>2, <1>4 DEF Exchange
  <2> HIDE DEF u
  <2>2. ASSUME NEW p \in 1..n, NEW q \in 1..n, u[p] = u[q] PROVE p = q
    BY <1>1, <2>1, <2>2
  <2>3. ASSUME NEW r \in R PROVE \E p \in 1..n : u[p] = r
    <3>1. PICK p \in 1..n : t[p] = r
      BY <1>1
    <3>2. at(p) \in 1..n /\ u[at(p)] = r
      BY <2>1, <3>1
    <3>3. QED BY <3>2
  <2>4. ASSUME NEW p \in 1..n, NEW q \in 1..n, p <= i - 1, p < q PROVE u[p] >= u[q]
    <3>1. at(p) = p /\ at(q) \in 1..n /\ p < at(q)
      BY <1>2, <2>4
    <3>2. QED BY <1>1, <2>1, <2>4, <3>1
  <2>5. ASSUME NEW q \in 1..n, i < q, q <= j PROVE u[i] >= u[q]
    <3>1. u[i] = t[j] /\ t[i] \in Int /\ t[j] \in Int /\ t[q] \in Int
      BY <1>1, <1>2, <2>1
    <3>2. CASE q = j
      <4>1. u[q] = t[i]
        BY <1>2, <2>1, <3>2
      <4>2. QED BY <1>4, <3>1, <4>1
    <3>3. CASE q # j
      <4>1. u[q] = t[q] /\ q <= j - 1
        BY <1>2, <2>1, <2>5, <3>3
      <4>2. t[i] >= t[q]
        BY <1>1, <2>5, <4>1
      <4>3. QED BY <1>4, <3>1, <4>1, <4>2
    <3>4. QED BY <3>2, <3>3
  <2>6. u \in Settled(R, n, i - 1)
    BY <2>1, <2>2, <2>3, <2>4 DEF Settled
  <2>7. QED BY <2>5, <2>6 DEF Settling, u
<1>5. QED BY <1>3, <1>4

\* The length of a slice of indices.
LEMMA SettledSeq ==
    ASSUME NEW R, NEW n \in Nat, NEW i, NEW t \in Settled(R, n, i)
    PROVE  t \in Seq(R) /\ Len(t) = n
<1>1. t \in [1..n -> R]
  BY DEF Settled
<1>2. t \in Seq(R)
  BY <1>1, SeqDef
<1>3. QED BY <1>1, <1>2, LenProperties

\* The inner loop settles one more position ...
LEMMA SettleSettles ==
    ASSUME NEW R \in SUBSET Int, NEW n \in Nat, NEW i \in 1..n,
           NEW s \in Settled(R, n, i - 1)
    PROVE  SettleIndex(s, i) \in Settled(R, n, i)
<1> DEFINE J == [j \in i..n |-> Settling(R, n, i, j)]
           G == [j \in i + 1..n |-> [t \in J[j - 1] |-> Exchange(t, i, j)]]
           Is(f) == f = [j \in i..n |-> IF j = i THEN s ELSE Exchange(f[j - 1], i, j)]
           upto == CHOOSE f : Is(f)
<1>1. Len(s) = n
  BY SettledSeq
<1>2. SettleIndex(s, i) = upto[n]
  BY <1>1 DEF SettleIndex
<1>0. i \in Int /\ n \in Int /\ i <= n
  OBVIOUS
<1>3. \A j \in i + 1..n : j \in i..n /\ j - 1 \in i..n
  OBVIOUS
<1>4. \A j \in i..n : J[j] = Settling(R, n, i, j)
  OBVIOUS
<1>5. \A j \in i + 1..n : \A t \in J[j - 1] : G[j][t] = Exchange(t, i, j)
  OBVIOUS
<1> HIDE DEF J, G
<1>6. Leads(J, G, s, i, n)
  <2>1. s \in J[i]
    <3>1. i \in i..n
      BY <1>0
    <3>2. s \in Settling(R, n, i, i)
      BY DEF Settling
    <3>3. QED BY <1>4, <3>1, <3>2
  <2>2. ASSUME NEW j \in i + 1..n, NEW t \in J[j - 1] PROVE G[j][t] \in J[j]
    <3>1. t \in Settling(R, n, i, j - 1)
      BY <1>3, <1>4
    <3>2. Exchange(t, i, j) \in Settling(R, n, i, j)
      BY <3>1, ExchangeSettles
    <3>3. QED BY <1>3, <1>4, <1>5, <3>2
  <2>3. QED BY <2>1, <2>2 DEF Leads
<1>7. PICK f : Loop(f, J, G, s, i, n) /\ FunctionOver(f, i, n)
  BY <1>0, <1>6, LoopExists
<1>8. \A j \in i..n : f[j] \in J[j]
  BY <1>0, <1>6, <1>7, LoopLeads
<1>9. Is(f)
  <2>1. ASSUME NEW j \in i..n
        PROVE  f[j] = IF j = i THEN s ELSE Exchange(f[j - 1], i, j)
    <3>1. CASE j = i
      BY <1>7, <3>1 DEF Loop
    <3>2. CASE j # i
      <4>1. j \in i + 1..n
        BY <3>2
      <4>2. f[j - 1] \in J[j - 1]
        BY <1>3, <1>8, <4>1
      <4>3. f[j] = G[j][f[j - 1]]
        BY <1>7, <4>1, <4>2 DEF Loop
      <4>4. QED BY <1>5, <3>2, <4>1, <4>2, <4>3
    <3>3. QED BY <3>1, <3>2
  <2>2. QED BY <1>7, <2>1 DEF FunctionOver
<1>10. Is(upto)
  BY <1>9
<1> HIDE DEF upto
<1>11. Loop(upto, J, G, s, i, n)
  <2>1. DOMAIN upto = i..n /\ upto[i] = s
    BY <1>0, <1>10
  <2>2. ASSUME NEW j \in i + 1..n, upto[j - 1] \in J[j - 1]
        PROVE  upto[j] = G[j][upto[j - 1]]
    <3>1. j \in i..n /\ j # i
      OBVIOUS
    <3>2. upto[j] = Exchange(upto[j - 1], i, j)
      BY <1>10, <3>1
    <3>3. QED BY <1>5, <2>2, <3>2
  <2>3. QED BY <2>1, <2>2 DEF Loop
<1> HIDE DEF Is
<1>12. \A j \in i..n : upto[j] \in J[j]
  BY <1>0, <1>6, <1>11, LoopLeads
<1>13. upto[n] \in Settling(R, n, i, n)
  <2>1. n \in i..n
    BY <1>0
  <2>2. QED BY <1>4, <1>12, <2>1
<1>14. Settling(R, n, i, n) \subseteq Settled(R, n, i)
  <2>1. ASSUME NEW t \in Settling(R, n, i, n), NEW p \in 1..n, NEW q \in 1..n,
               p <= i, p < q
        PROVE  t[p] >= t[q]
    <3>1. CASE p = i
      BY <2>1, <3>1 DEF Settling
    <3>2. CASE p # i
      <4>1. p <= i - 1
        BY <2>1, <3>2
      <4>2. QED BY <2>1, <4>1 DEF Settling, Settled
    <3>3. QED BY <3>1, <3>2
  <2>2. QED BY <2>1 DEF Settling, Settled
<1>15. QED BY <1>2, <1>13, <1>14

\* ... and sortIndices puts indices that are each given once in descending order.
LEMMA SortIndicesSorts ==
    ASSUME NEW s \in Seq(Int), IsInjective(s)
    PROVE  LET t == sortIndices(s)
           IN  /\ t \in Seq(Int) /\ Len(t) = Len(s)
               /\ \A p \in 1..Len(t) : t[p] \in Range(s)
               /\ \A p, q \in 1..Len(t) : p < q => t[p] > t[q]
<1> DEFINE n == Len(s)
           R == Range(s)
           J == [i \in 0..n |-> Settled(R, n, i)]
           G == [i \in 1..n |-> [t \in J[i - 1] |-> SettleIndex(t, i)]]
           Is(f) == f = [i \in 0..n |-> IF i = 0 THEN s ELSE SettleIndex(f[i - 1], i)]
           settled == CHOOSE f : Is(f)
<1>1. n \in Nat /\ s \in [1..n -> Int] /\ DOMAIN s = 1..n
  BY LenProperties
<1>2. sortIndices(s) = settled[n]
  BY DEF sortIndices
<1>3. R \in SUBSET Int /\ s \in Settled(R, n, 0)
  <2>1. R = {s[p] : p \in 1..n}
    BY <1>1 DEF Range
  <2>2. R \in SUBSET Int
    BY <1>1, <2>1
  <2>3. s \in [1..n -> R]
    BY <1>1, <2>1
  <2>4. \A p, q \in 1..n : s[p] = s[q] => p = q
    BY <1>1 DEF IsInjective
  <2> HIDE DEF n, R
  <2>5. \A p, q \in 1..n : p <= 0 /\ p < q => s[p] >= s[q]
    BY <1>1
  <2>6. QED BY <2>1, <2>2, <2>3, <2>4, <2>5 DEF Settled
<1> HIDE DEF n, R
<1>4. \A i \in 0..n : J[i] = Settled(R, n, i)
  OBVIOUS
<1>5. \A i \in 1..n : \A t \in J[i - 1] : G[i][t] = SettleIndex(t, i)
  OBVIOUS
<1>0. 0 \in Int /\ n \in Int /\ 0 <= n
  BY <1>1
<1>6. /\ 0 \in 0..n /\ n \in 0..n
      /\ \A i \in 0 + 1..n : i \in 0..n /\ i - 1 \in 0..n /\ i \in 1..n
  BY <1>1
<1> HIDE DEF J, G
<1>7. Leads(J, G, s, 0, n)
  <2>1. ASSUME NEW i \in 0 + 1..n, NEW t \in J[i - 1] PROVE G[i][t] \in J[i]
    <3>1. i \in 1..n /\ t \in Settled(R, n, i - 1)
      BY <1>4, <1>6
    <3>2. SettleIndex(t, i) \in Settled(R, n, i)
      BY <1>1, <1>3, <3>1, SettleSettles
    <3>3. QED BY <1>4, <1>5, <1>6, <3>2
  <2>2. QED BY <1>0, <1>3, <1>4, <1>6, <2>1 DEF Leads
<1>8. PICK f : Loop(f, J, G, s, 0, n) /\ FunctionOver(f, 0, n)
  BY <1>0, <1>7, LoopExists
<1>9. \A i \in 0..n : f[i] \in J[i]
  BY <1>0, <1>7, <1>8, LoopLeads
<1>10. Is(f)
  <2>1. ASSUME NEW i \in 0..n
        PROVE  f[i] = IF i = 0 THEN s ELSE SettleIndex(f[i - 1], i)
    <3>1. CASE i = 0
      BY <1>8, <3>1 DEF Loop
    <3>2. CASE i # 0
      <4>1. i \in 0 + 1..n /\ i \in 1..n
        BY <1>1, <3>2
      <4>2. f[i - 1] \in J[i - 1]
        BY <1>6, <1>9, <4>1
      <4>3. f[i] = G[i][f[i - 1]]
        BY <1>8, <4>1, <4>2 DEF Loop
      <4>4. QED BY <1>5, <3>2, <4>1, <4>2, <4>3
    <3>3. QED BY <3>1, <3>2
  <2>2. QED BY <1>8, <2>1 DEF FunctionOver
<1>11. Is(settled)
  BY <1>10
<1> HIDE DEF settled
<1>12. Loop(settled, J, G, s, 0, n)
  <2>1. DOMAIN settled = 0..n /\ settled[0] = s
    BY <1>0, <1>6, <1>11
  <2>2. ASSUME NEW i \in 0 + 1..n, settled[i - 1] \in J[i - 1]
        PROVE  settled[i] = G[i][settled[i - 1]]
    <3>1. i \in 0..n /\ i # 0 /\ i \in 1..n
      BY <1>6
    <3>2. settled[i] = SettleIndex(settled[i - 1], i)
      BY <1>11, <3>1
    <3>3. QED BY <1>5, <2>2, <3>1, <3>2
  <2>3. QED BY <2>1, <2>2 DEF Loop
<1> HIDE DEF Is
<1>13. settled[n] \in Settled(R, n, n)
  BY <1>0, <1>4, <1>6, <1>7, <1>12, LoopLeads
<1> DEFINE t == settled[n]
<1>14. t \in Seq(R) /\ Len(t) = n
  BY <1>1, <1>13, SettledSeq
<1>15. /\ t \in [1..n -> R]
       /\ \A p, q \in 1..n : t[p] = t[q] => p = q
       /\ \A p, q \in 1..n : p <= n /\ p < q => t[p] >= t[q]
  BY <1>13 DEF Settled
<1> HIDE DEF t
<1>16. \A p \in 1..n : t[p] \in R /\ t[p] \in Int
  BY <1>3, <1>15
<1>17. ASSUME NEW p \in 1..n, NEW q \in 1..n, p < q PROVE t[p] > t[q]
  <2>1. t[p] # t[q] /\ t[p] >= t[q]
    BY <1>1, <1>15, <1>17
  <2>2. QED BY <1>16, <2>1
<1>18. t \in Seq(Int)
  BY <1>3, <1>14, SeqMonotonic
<1>19. QED BY <1>2, <1>14, <1>16, <1>17, <1>18 DEF t, n, R

-----------------------------------------------------------------------------
(* A BatchRequeue in progress. *)

\* What a call is asked for: positions, each named once.
BatchesNameOnce == \A b \in DLBatches : b \in Seq(Int) /\ IsInjective(b)

\* The indices still to come were asked for and descend; ...
StillToCome ==
    /\ todo \in Seq(Int)
    /\ \A j \in 1..Len(todo) : todo[j] \in Range(asked)
    /\ \A j, k \in 1..Len(todo) : j < k => todo[j] > todo[k]

\* ... what the call found was parked once; ...
FoundOnce ==
    /\ before \in Seq(Entries) /\ Len(items) <= Len(before)
    /\ \A j, k \in 1..Len(before) : before[j].msg = before[k].msg => j = k

\* ... up to the next index nothing has moved; ...
NotMovedYet ==
    todo # <<>> =>
        \A k \in 1..Len(before) :
            k <= Head(todo) + 1 => k \in 1..Len(items) /\ items[k] = before[k]

\* ... what is gone was asked for; ...
GoneWasAsked ==
    \A p \in 1..Len(before) :
        p - 1 \in Range(asked) \/ \E k \in 1..Len(items) : items[k] = before[p]

\* ... and what is left was there, in the same order.
LeftInOrder ==
    /\ \A k \in 1..Len(items) : \E p \in 1..Len(before) : items[k] = before[p]
    /\ \A j, k \in 1..Len(items), p, q \in 1..Len(before) :
          items[j] = before[p] /\ items[k] = before[q] /\ j < k => p < q

RequeueInv ==
    mu = "requeue" =>
        StillToCome /\ FoundOnce /\ NotMovedYet /\ GoneWasAsked /\ LeftInOrder

\* RequeueInv, with what the property needs of the other parts.
LEMMA RequeueInvMeaning == TypeOK /\ ParkInv /\ RequeueInv => RequeueAsAsked
<1> SUFFICES ASSUME TypeOK, ParkInv, RequeueInv, mu = "requeue"
             PROVE  RequeueAsAsked
  BY DEF RequeueAsAsked
<1>1. DOMAIN items = 1..Len(items) /\ DOMAIN before = 1..Len(before)
      /\ Len(items) \in Nat /\ Len(before) \in Nat
  BY LenProperties DEF TypeOK, RequeueInv, FoundOnce
<1>2. /\ Range(items) = {items[k] : k \in 1..Len(items)}
      /\ Range(before) = {before[k] : k \in 1..Len(before)}
  BY <1>1 DEF Range
<1>3. /\ Range(items) \subseteq Range(before)
      /\ \A k \in DOMAIN before : before[k] \in Range(items) \/ k - 1 \in Range(asked)
  BY <1>1, <1>2 DEF RequeueInv, GoneWasAsked, LeftInOrder
<1>4. \A j, k \in DOMAIN items, p, q \in DOMAIN before :
          items[j] = before[p] /\ items[k] = before[q] /\ j < k => p < q
  BY <1>1 DEF RequeueInv, LeftInOrder
<1>5. ASSUME todo # <<>>, Head(todo) + 1 \in DOMAIN before
      PROVE  InRange(Head(todo)) /\ items[Head(todo) + 1] = before[Head(todo) + 1]
  <2> DEFINE k == Head(todo) + 1
  <2>1. Head(todo) \in Int
    BY <1>5, HeadTailProperties DEF RequeueInv, StillToCome
  <2>2. k \in 1..Len(before) /\ k <= Head(todo) + 1
    BY <1>1, <1>5, <2>1
  <2>3. k \in 1..Len(items) /\ items[k] = before[k]
    BY <1>5, <2>2 DEF RequeueInv, NotMovedYet
  <2>4. QED BY <1>1, <2>1, <2>3 DEF InRange
<1>6. ASSUME pushed PROVE items[Head(todo) + 1] = before[Head(todo) + 1]
  <2>1. todo # <<>> /\ Head(todo) + 1 \in 1..Len(items)
    BY <1>6, InRangePosition DEF ParkInv
  <2>2. Head(todo) + 1 \in DOMAIN before
    BY <1>1, <2>1 DEF RequeueInv, FoundOnce
  <2>3. QED BY <1>5, <2>1, <2>2
<1>7. QED BY <1>3, <1>4, <1>5, <1>6 DEF RequeueAsAsked

\* The next index done with: the others are smaller.
LEMMA TodoTail ==
    ASSUME NEW s \in Seq(Int), s # <<>>, NEW R, \A j \in 1..Len(s) : s[j] \in R,
           \A j, k \in 1..Len(s) : j < k => s[j] > s[k]
    PROVE  /\ Tail(s) \in Seq(Int) /\ Head(s) \in Int /\ Head(s) \in R
           /\ \A j \in 1..Len(Tail(s)) : Tail(s)[j] \in R
           /\ \A j, k \in 1..Len(Tail(s)) : j < k => Tail(s)[j] > Tail(s)[k]
           /\ Tail(s) # <<>> => Head(Tail(s)) \in Int /\ Head(Tail(s)) < Head(s)
<1> DEFINE t == Tail(s)
<1>1. /\ t \in Seq(Int) /\ Len(t) = Len(s) - 1 /\ Len(s) \in Nat /\ Len(s) # 0
      /\ Head(s) \in Int /\ Head(s) = s[1]
      /\ \A j \in 1..Len(t) : t[j] = s[j + 1]
  BY HeadTailProperties, LenProperties, EmptySeq
<1> HIDE DEF t
<1>2. \A j \in 1..Len(t) : j + 1 \in 1..Len(s)
  BY <1>1
<1>3. \A j \in 1..Len(t) : t[j] \in R
  BY <1>1, <1>2
<1>4. ASSUME NEW j \in 1..Len(t), NEW k \in 1..Len(t), j < k PROVE t[j] > t[k]
  <2>1. j + 1 \in 1..Len(s) /\ k + 1 \in 1..Len(s) /\ j + 1 < k + 1
    BY <1>2, <1>4
  <2>2. QED BY <1>1, <2>1
<1>5. ASSUME t # <<>> PROVE Head(t) \in Int /\ Head(t) < Head(s)
  <2>1. Len(t) \in Nat /\ Len(t) # 0 /\ Head(t) \in Int /\ Head(t) = t[1]
    BY <1>1, <1>5, HeadTailProperties, LenProperties, EmptySeq
  <2>2. 1 \in 1..Len(t) /\ 1 \in 1..Len(s) /\ 2 \in 1..Len(s) /\ 1 + 1 = 2
    BY <1>1, <2>1
  <2>3. t[1] = s[2] /\ s[1] > s[2]
    BY <1>1, <2>2
  <2>4. QED BY <1>1, <2>1, <2>3
<1>6. 1 \in 1..Len(s)
  BY <1>1
<1>7. QED BY <1>1, <1>3, <1>4, <1>5, <1>6 DEF t

\* Steps that are not of the call, and those that only go to the next index.
LEMMA RequeueSame ==
    ASSUME RequeueInv, mu' = mu, items' = items, todo' = todo, asked' = asked,
           before' = before
    PROVE  RequeueInv'
<1>1. StillToCome => StillToCome'
  BY DEF StillToCome
<1>2. FoundOnce => FoundOnce'
  BY DEF FoundOnce
<1>3. NotMovedYet => NotMovedYet'
  BY DEF NotMovedYet
<1>4. GoneWasAsked => GoneWasAsked'
  BY DEF GoneWasAsked
<1>5. LeftInOrder => LeftInOrder'
  BY DEF LeftInOrder
<1>6. QED BY <1>1, <1>2, <1>3, <1>4, <1>5 DEF RequeueInv

LEMMA RequeueNext ==
    ASSUME TypeOK, RequeueInv, mu = "requeue", todo # <<>>, items' = items,
           todo' = Tail(todo), asked' = asked, before' = before
    PROVE  RequeueInv'
<1>1. /\ todo' \in Seq(Int) /\ Head(todo) \in Int
      /\ \A j \in 1..Len(todo') : todo'[j] \in Range(asked)
      /\ \A j, k \in 1..Len(todo') : j < k => todo'[j] > todo'[k]
      /\ todo' # <<>> => Head(todo') \in Int /\ Head(todo') < Head(todo)
  BY TodoTail DEF RequeueInv, StillToCome
<1>2. ASSUME todo' # <<>>, NEW k \in 1..Len(before), k <= Head(todo') + 1
      PROVE  k \in 1..Len(items) /\ items[k] = before[k]
  <2>1. k \in Int /\ Head(todo) \in Int /\ Head(todo') \in Int
    BY <1>1, <1>2
  <2>2. k <= Head(todo) + 1
    <3>1. Head(todo') < Head(todo) /\ k <= Head(todo') + 1
      BY <1>1, <1>2
    <3> DEFINE now == Head(todo)
               next == Head(todo')
    <3> HIDE DEF now, next
    <3>2. k \in Int /\ now \in Int /\ next \in Int /\ next < now /\ k <= next + 1
      BY <2>1, <3>1 DEF now, next
    <3>3. k <= now + 1
      BY <3>2
    <3>4. QED BY <3>3 DEF now
  <2>3. NotMovedYet
    BY DEF RequeueInv
  <2>4. QED BY <2>2, <2>3 DEF NotMovedYet
<1>3. StillToCome'
  BY <1>1 DEF StillToCome
<1>4. NotMovedYet'
  BY <1>2 DEF NotMovedYet
<1>5. FoundOnce /\ GoneWasAsked /\ LeftInOrder
  BY DEF RequeueInv
<1>6. FoundOnce'
  BY <1>5 DEF FoundOnce
<1>7. GoneWasAsked'
  BY <1>5 DEF GoneWasAsked
<1>8. LeftInOrder'
  BY <1>5 DEF LeftInOrder
<1>9. QED BY <1>3, <1>4, <1>6, <1>7, <1>8 DEF RequeueInv

LEMMA StepBatchRequeue ==
    ASSUME TypeOK, ParkInv, BatchesNameOnce, NEW b \in DLBatches, BatchRequeue(b)
    PROVE  RequeueInv'
<1>1. /\ b \in Seq(Int) /\ IsInjective(b)
      /\ todo' = sortIndices(b) /\ asked' = b /\ before' = items /\ items' = items
  BY DEF BatchesNameOnce, BatchRequeue, requeueVars
<1>2. /\ todo' \in Seq(Int)
      /\ \A j \in 1..Len(todo') : todo'[j] \in Range(asked')
      /\ \A j, k \in 1..Len(todo') : j < k => todo'[j] > todo'[k]
  BY <1>1, SortIndicesSorts
<1>3. items \in Seq(Entries) /\ Len(items) \in Nat
  BY ItemsType DEF TypeOK
<1>4. \A j, k \in 1..Len(items) : items[j].msg = items[k].msg => j = k
  BY DEF ParkInv
<1>5. ASSUME NEW j \in 1..Len(items), NEW k \in 1..Len(items),
             NEW p \in 1..Len(items), NEW q \in 1..Len(items),
             items[j] = items[p], items[k] = items[q], j < k
      PROVE  p < q
  BY <1>4, <1>5
<1>6. StillToCome'
  BY <1>2 DEF StillToCome
<1>7. FoundOnce'
  <2>1. before' \in Seq(Entries) /\ Len(items') <= Len(before')
    BY <1>1, <1>3
  <2>2. \A j, k \in 1..Len(before') : before'[j].msg = before'[k].msg => j = k
    BY <1>1, <1>4
  <2>3. QED BY <2>1, <2>2 DEF FoundOnce
<1>8. NotMovedYet'
  BY <1>1 DEF NotMovedYet
<1>9. GoneWasAsked'
  BY <1>1 DEF GoneWasAsked
<1>10. LeftInOrder'
  <2>1. \A k \in 1..Len(items') : \E p \in 1..Len(before') : items'[k] = before'[p]
    BY <1>1
  <2>2. \A j, k \in 1..Len(items'), p, q \in 1..Len(before') :
            items'[j] = before'[p] /\ items'[k] = before'[q] /\ j < k => p < q
    BY <1>1, <1>5
  <2>3. QED BY <2>1, <2>2 DEF LeftInOrder
<1>11. QED BY <1>6, <1>7, <1>8, <1>9, <1>10 DEF RequeueInv

LEMMA StepRequeueRemove ==
    ASSUME TypeOK, ParkInv, RequeueInv, RequeueRemove PROVE RequeueInv'
<1> DEFINE i == Head(todo)
           x == i + 1
           n == Len(items)
<1>1. /\ mu = "requeue" /\ pushed /\ todo # <<>> /\ items' = RemoveAt(items, x)
      /\ todo' = Tail(todo) /\ asked' = asked /\ before' = before
  BY DEF RequeueRemove, ParkInv
<1>2. x \in 1..n /\ i \in Nat /\ n \in Nat
  BY <1>1, InRangePosition, ItemsType DEF ParkInv
<1>3. /\ before \in Seq(Entries) /\ Len(before) \in Nat /\ n <= Len(before)
      /\ \A j, k \in 1..Len(before) : before[j].msg = before[k].msg => j = k
      /\ \A k \in 1..Len(before) : k <= x => k \in 1..n /\ items[k] = before[k]
  BY <1>1, LenProperties DEF RequeueInv, FoundOnce, NotMovedYet
<1>4. /\ todo' \in Seq(Int) /\ i \in Range(asked)
      /\ \A j \in 1..Len(todo') : todo'[j] \in Range(asked)
      /\ \A j, k \in 1..Len(todo') : j < k => todo'[j] > todo'[k]
      /\ todo' # <<>> => Head(todo') \in Int /\ Head(todo') < i
  BY <1>1, TodoTail DEF RequeueInv, StillToCome
<1>5. /\ \A p \in 1..Len(before) :
            p - 1 \in Range(asked) \/ \E k \in 1..n : items[k] = before[p]
      /\ \A k \in 1..n : \E p \in 1..Len(before) : items[k] = before[p]
      /\ \A j, k \in 1..n, p, q \in 1..Len(before) :
            items[j] = before[p] /\ items[k] = before[q] /\ j < k => p < q
  BY <1>1 DEF RequeueInv, GoneWasAsked, LeftInOrder
<1> HIDE DEF i
<1>6. /\ Len(items') = n - 1
      /\ \A k \in 1..n - 1 : items'[k] = IF k < x THEN items[k] ELSE items[k + 1]
  BY <1>1, <1>2, RemoveAtProperties DEF TypeOK
<1>7. \A j \in 1..n : j # x => \E k \in 1..Len(items') : items'[k] = items[j]
  BY <1>1, <1>2, OthersStay DEF ParkInv
<1>0. x = i + 1
  OBVIOUS
<1> HIDE DEF x, n
<1> DEFINE at(k) == IF k < x THEN k ELSE k + 1
<1>8. /\ \A k \in 1..Len(items') : at(k) \in 1..n /\ items'[k] = items[at(k)]
      /\ \A j, k \in 1..Len(items') : j < k => at(j) < at(k)
  BY <1>2, <1>6
<1>9. ASSUME todo' # <<>>, NEW k \in 1..Len(before), k <= Head(todo') + 1
      PROVE  k \in 1..Len(items') /\ items'[k] = before[k]
  <2>1. k < x
    BY <1>0, <1>2, <1>4, <1>9
  <2>2. k \in 1..n - 1 /\ items[k] = before[k]
    BY <1>2, <1>3, <2>1
  <2>3. QED BY <1>6, <2>1, <2>2
<1>10. ASSUME NEW p \in 1..Len(before), p - 1 \notin Range(asked)
       PROVE  \E k \in 1..Len(items') : items'[k] = before[p]
  <2>1. p # x
    BY <1>0, <1>2, <1>4, <1>10
  <2>2. PICK j \in 1..n : items[j] = before[p]
    BY <1>5, <1>10
  <2>3. j # x
    <3>1. SUFFICES ASSUME j = x PROVE FALSE
      OBVIOUS
    <3>2. x \in 1..Len(before) /\ items[x] = before[x]
      BY <1>2, <1>3
    <3>3. QED BY <1>3, <2>1, <2>2, <3>1, <3>2
  <2>4. QED BY <1>7, <2>2, <2>3
<1>11. ASSUME NEW k \in 1..Len(items') PROVE \E p \in 1..Len(before) : items'[k] = before[p]
  BY <1>5, <1>8
<1>12. ASSUME NEW j \in 1..Len(items'), NEW k \in 1..Len(items'),
              NEW p \in 1..Len(before), NEW q \in 1..Len(before),
              items'[j] = before[p], items'[k] = before[q], j < k
       PROVE  p < q
  <2> HIDE DEF at
  <2>1. /\ at(j) \in 1..n /\ at(k) \in 1..n /\ at(j) < at(k)
        /\ items[at(j)] = before[p] /\ items[at(k)] = before[q]
    BY <1>8, <1>12
  <2>2. QED BY <1>5, <2>1
<1>13. Len(items') <= Len(before)
  BY <1>2, <1>3, <1>6
<1> HIDE DEF at
<1>14. StillToCome'
  BY <1>1, <1>4 DEF StillToCome
<1>15. FoundOnce'
  <2>1. before' \in Seq(Entries) /\ Len(items') <= Len(before')
    BY <1>1, <1>3, <1>13
  <2>2. \A j, k \in 1..Len(before') : before'[j].msg = before'[k].msg => j = k
    BY <1>1, <1>3
  <2>3. QED BY <2>1, <2>2 DEF FoundOnce
<1>16. NotMovedYet'
  BY <1>1, <1>9 DEF NotMovedYet
<1>17. GoneWasAsked'
  BY <1>1, <1>10 DEF GoneWasAsked
<1>18. LeftInOrder'
  <2>1. \A k \in 1..Len(items') : \E p \in 1..Len(before') : items'[k] = before'[p]
    BY <1>1, <1>11
  <2>2. \A j, k \in 1..Len(items'), p, q \in 1..Len(before') :
            items'[j] = before'[p] /\ items'[k] = before'[q] /\ j < k => p < q
    BY <1>1, <1>12
  <2>3. QED BY <2>1, <2>2 DEF LeftInOrder
<1>19. QED BY <1>14, <1>15, <1>16, <1>17, <1>18 DEF RequeueInv

LEMMA StepRequeue ==
    BatchesNameOnce /\ TypeOK /\ ParkInv /\ RequeueInv /\ [DLNext]_DLvars => RequeueInv'
<1> SUFFICES ASSUME BatchesNameOnce, TypeOK, ParkInv, RequeueInv, [DLNext]_DLvars
             PROVE  RequeueInv'
  OBVIOUS
<1> USE DEF requeueVars, notifyVars
<1>1. ASSUME NEW m \in DLMsgs, Submit(m) \/ Take(m) \/ Attempted(m) PROVE RequeueInv'
  BY <1>1, RequeueSame DEF Submit, Take, Attempted
<1>2. ASSUME NEW m \in DLMsgs, DLPush(m) PROVE RequeueInv'
  BY <1>2 DEF DLPush, RequeueInv
<1>3. ASSUME NEW i, RemoveIndex(i) PROVE RequeueInv'
  BY <1>3 DEF RemoveIndex, RequeueInv
<1>4. CASE Clear
  BY <1>4 DEF Clear, RequeueInv
<1>5. ASSUME NEW b \in DLBatches, BatchRequeue(b) PROVE RequeueInv'
  BY <1>5, StepBatchRequeue
<1>6. CASE RequeuePush
  <2>1. /\ mu = "requeue" /\ todo # <<>>
        /\ UNCHANGED <<items, mu, asked, before>>
        /\ todo' = todo \/ todo' = Tail(todo)
    BY <1>6 DEF RequeuePush
  <2>2. QED BY <2>1, RequeueSame, RequeueNext
<1>7. CASE RequeueRemove
  BY <1>7, StepRequeueRemove
<1>8. CASE RequeueSkip
  BY <1>8, RequeueNext DEF RequeueSkip
<1>9. CASE RequeueReturns
  BY <1>9 DEF RequeueReturns, RequeueInv
<1>10. CASE Notify \/ Receive \/ Close
  BY <1>10, RequeueSame DEF Notify, Receive, Close
<1>11. CASE UNCHANGED DLvars
  BY <1>11, RequeueSame DEF DLvars
<1>12. QED
  BY <1>1, <1>2, <1>3, <1>4, <1>5, <1>6, <1>7, <1>8, <1>9, <1>10, <1>11 DEF DLNext

(* BatchRequeue takes out the entries its indices denoted when it took the  *)
(* lock, and no others, and keeps the rest in order, whatever order the     *)
(* indices are given in, as long as each is given once: sortIndices puts    *)
(* the larger ones first, so a removal moves only entries already dealt     *)
(* with.                                                                    *)
THEOREM BatchRequeuedAsAsked == BatchesNameOnce => (DLSpec => []RequeueAsAsked)
<1> SUFFICES ASSUME BatchesNameOnce PROVE DLSpec => []RequeueAsAsked
  OBVIOUS
<1>1. DLInit => RequeueInv
  BY DEF DLInit, RequeueInv
<1>2. DLInv /\ RequeueInv /\ [DLNext]_DLvars => RequeueInv'
  BY StepRequeue DEF DLInv
<1>3. DLInv /\ RequeueInv => RequeueAsAsked
  BY RequeueInvMeaning DEF DLInv
<1>4. QED BY <1>1, <1>2, <1>3, InitDLInv, StepDLInv, PTL DEF DLSpec

=============================================================================
