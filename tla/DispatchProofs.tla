--------------------------- MODULE DispatchProofs ---------------------------
(***************************************************************************)
(* Proofs about the two components that hand out what they keep in order.  *)
(*                                                                         *)
(* Serving, for any set of messages, any levels and limit and any finite   *)
(* set of workers: how often a waiting message is overtaken.               *)
(*                                                                         *)
(* LoadBalancer, for any endpoints, types and sessions and any finite set  *)
(* of clients: the connections, what is handed out, and round-robin.       *)
(*                                                                         *)
(* Each has its own specification (Spec, LBSpec); they share no variable.  *)
(***************************************************************************)
EXTENDS Serving, LoadBalancer, FiniteSetTheorems, SequenceTheorems, TLAPS

-----------------------------------------------------------------------------
(* Serving: the inductive invariant. *)

\* The types of the variables.
TypeOK ==
    /\ queue \in [Priorities -> Seq(Msgs)]
    /\ place \in [Msgs -> Places]
    /\ pc \in [Workers -> PCs]
    /\ at \in [Workers -> Priorities]
    /\ held \in [Workers -> SUBSET Msgs]
    /\ cancelled \in BOOLEAN
    /\ overtaken \in [Msgs -> Nat]

\* A queued message is an entry of its level: a worker that finds the level
\* empty has not passed it by.
QueuedAtLevel ==
    \A m \in Msgs : place[m] = "queued" =>
        /\ Level[m] \in Priorities
        /\ \E k \in 1..Len(queue[Level[m]]) : queue[Level[m]][k] = m

ServingInv == TypeOK /\ QueuedAtLevel /\ OvertakenOnceEach

\* The workers that have gone past the level of a message.
Past(m) == {w \in Workers : Scanning(w, Level[m])}

-----------------------------------------------------------------------------
(* Serving: facts about the operators. *)

\* A pop leaves everything but the head in the queue.
LEMMA TailKeeps ==
    ASSUME NEW S, NEW s \in Seq(S), s # <<>>, NEW e, e # Head(s),
           NEW k \in 1..Len(s), s[k] = e
    PROVE  \E j \in 1..Len(Tail(s)) : Tail(s)[j] = e
<1>1. /\ Len(s) \in Nat /\ Head(s) = s[1]
      /\ Len(Tail(s)) = Len(s) - 1
      /\ \A i \in 1..(Len(s) - 1) : Tail(s)[i] = s[i + 1]
  BY EmptySeq, HeadTailProperties
<1>2. k # 1 /\ k - 1 \in 1..Len(Tail(s)) /\ Tail(s)[k - 1] = e
  BY <1>1
<1>3. QED BY <1>2

\* A push appends.
LEMMA AppendKeeps ==
    ASSUME NEW S, NEW s \in Seq(S), NEW e \in S
    PROVE  /\ Append(s, e) \in Seq(S)
           /\ Len(s) + 1 \in 1..Len(Append(s, e)) /\ Append(s, e)[Len(s) + 1] = e
           /\ \A k \in 1..Len(s) : k \in 1..Len(Append(s, e)) /\ Append(s, e)[k] = s[k]
<1>1. /\ Len(s) \in Nat
      /\ Append(s, e) \in Seq(S)
      /\ Len(Append(s, e)) = Len(s) + 1
      /\ \A i \in 1..Len(s) : Append(s, e)[i] = s[i]
      /\ Append(s, e)[Len(s) + 1] = e
  OBVIOUS
<1>2. QED BY <1>1

\* The workers past a level are some of the workers, so they can be counted.
LEMMA PastFinite ==
    ASSUME NEW m \in Msgs
    PROVE  /\ IsFiniteSet(Past(m)) /\ Cardinality(Past(m)) \in Nat
           /\ Cardinality(Workers) \in Nat
           /\ Cardinality(Past(m)) <= Cardinality(Workers)
BY ServingSizes, FS_Subset, FS_CardinalityType DEF Past

-----------------------------------------------------------------------------
(* Types. *)

\* Serving starts well typed.
LEMMA InitTypeOK == Init => TypeOK
<1>1. 1 \in Priorities /\ <<>> \in Seq(Msgs)
  BY DEF Priorities
<1> SUFFICES ASSUME Init PROVE TypeOK
  OBVIOUS
<1>2. queue \in [Priorities -> Seq(Msgs)] /\ at \in [Workers -> Priorities]
  BY <1>1 DEF Init
<1>3. QED BY <1>2 DEF Init, TypeOK, Places, PCs

\* Every action keeps the types.
LEMMA StepTypeOK == TypeOK /\ [Next]_vars => TypeOK'
<1> SUFFICES ASSUME TypeOK, [Next]_vars PROVE TypeOK'
  OBVIOUS
<1> USE DEF TypeOK
<1>1. ASSUME NEW m \in Msgs, Submit(m) PROVE TypeOK'
  <2>1. Level[m] \in Priorities
    BY <1>1, LevelsType DEF Submit
  <2>2. Append(queue[Level[m]], m) \in Seq(Msgs)
    BY <2>1, AppendKeeps
  <2>3. QED BY <1>1, <2>1, <2>2 DEF Submit, Places
<1>2. ASSUME Shutdown PROVE TypeOK'
  BY <1>2 DEF Shutdown
<1>3. ASSUME NEW w \in Workers, LoopTop(w) PROVE TypeOK'
  BY <1>3 DEF LoopTop, PCs, Priorities
<1>4. ASSUME NEW w \in Workers, PopLevel(w) PROVE TypeOK'
  <2> DEFINE l == at[w]
  <2>1. l \in Priorities /\ queue[l] \in Seq(Msgs) /\ queue[l] # <<>>
    BY <1>4 DEF PopLevel
  <2>2. Head(queue[l]) \in Msgs /\ Tail(queue[l]) \in Seq(Msgs)
    BY <2>1, HeadTailProperties
  <2>3. overtaken' \in [Msgs -> Nat]
    BY <1>4 DEF PopLevel
  <2>4. QED BY <1>4, <2>1, <2>2, <2>3 DEF PopLevel, Places, PCs
<1>5. ASSUME NEW w \in Workers, EmptyLevel(w) PROVE TypeOK'
  <2>1. at[w] < 4 => at[w] + 1 \in Priorities
    <3>1. at[w] \in Priorities
      OBVIOUS
    <3>2. QED BY <3>1 DEF Priorities
  <2>2. at' \in [Workers -> Priorities]
    BY <1>5, <2>1 DEF EmptyLevel
  <2>3. pc' \in [Workers -> PCs]
    BY <1>5 DEF EmptyLevel, PCs
  <2>4. QED BY <1>5, <2>2, <2>3 DEF EmptyLevel
<1>6. ASSUME NEW w \in Workers, Wake(w) PROVE TypeOK'
  BY <1>6 DEF Wake, PCs
<1>7. ASSUME NEW w \in Workers, Processed(w) PROVE TypeOK'
  <2>1. pc' \in [Workers -> PCs]
    BY <1>7 DEF Processed, Complete, PCs
  <2>2. place' \in [Msgs -> Places] /\ held' \in [Workers -> SUBSET Msgs]
    BY <1>7 DEF Processed, Complete, Places
  <2>3. QED BY <1>7, <2>1, <2>2 DEF Processed
<1>8. ASSUME NEW w \in Workers, Interrupted(w) PROVE TypeOK'
  BY <1>8 DEF Interrupted, PCs, Places
<1>9. ASSUME NEW w \in Workers, UpdateMessage(w) PROVE TypeOK'
  BY <1>9 DEF UpdateMessage, Complete, PCs, Places
<1>10. ASSUME UNCHANGED vars PROVE TypeOK'
  BY <1>10 DEF vars
<1>11. QED
  BY <1>1, <1>2, <1>3, <1>4, <1>5, <1>6, <1>7, <1>8, <1>9, <1>10
     DEF Next, WorkerStep

-----------------------------------------------------------------------------
(* Where queued messages are. *)

\* Only a pop takes a message out of its level, and it no longer counts as
\* queued then.
LEMMA StepQueuedAtLevel == TypeOK /\ QueuedAtLevel /\ [Next]_vars => QueuedAtLevel'
<1> SUFFICES ASSUME TypeOK, QueuedAtLevel, [Next]_vars PROVE QueuedAtLevel'
  OBVIOUS
<1> USE DEF TypeOK
<1>1. ASSUME NEW m \in Msgs, Submit(m) PROVE QueuedAtLevel'
  <2>1. Level[m] \in Priorities
    BY <1>1, LevelsType DEF Submit
  <2>2. /\ queue' = [queue EXCEPT ![Level[m]] = Append(queue[Level[m]], m)]
        /\ place' = [place EXCEPT ![m] = "queued"]
    BY <1>1 DEF Submit
  <2>3. SUFFICES ASSUME NEW n \in Msgs, place'[n] = "queued"
                 PROVE  /\ Level[n] \in Priorities
                        /\ \E k \in 1..Len(queue'[Level[n]]) : queue'[Level[n]][k] = n
    BY DEF QueuedAtLevel
  <2>4. CASE n = m
    <3>1. queue'[Level[m]] = Append(queue[Level[m]], m)
      BY <2>1, <2>2
    <3>2. queue[Level[m]] \in Seq(Msgs)
      BY <2>1
    <3>3. /\ Len(queue[Level[m]]) + 1 \in 1..Len(queue'[Level[m]])
          /\ queue'[Level[m]][Len(queue[Level[m]]) + 1] = m
      BY <3>1, <3>2, AppendKeeps
    <3>4. QED BY <2>1, <2>4, <3>3
  <2>5. CASE n # m
    <3>1. Level[n] \in Priorities
      BY <2>2, <2>3, <2>5 DEF QueuedAtLevel
    <3>2. PICK k \in 1..Len(queue[Level[n]]) : queue[Level[n]][k] = n
      BY <2>2, <2>3, <2>5 DEF QueuedAtLevel
    <3>3. CASE Level[n] = Level[m]
      <4>1. queue'[Level[n]] = Append(queue[Level[n]], m)
        BY <2>1, <2>2, <3>3
      <4>2. k \in 1..Len(queue'[Level[n]]) /\ queue'[Level[n]][k] = n
        BY <3>1, <3>2, <4>1, AppendKeeps
      <4>3. QED BY <3>1, <4>2
    <3>4. CASE Level[n] # Level[m]
      BY <2>1, <2>2, <3>1, <3>2, <3>4
    <3>5. QED BY <3>3, <3>4
  <2>6. QED BY <2>4, <2>5
<1>2. ASSUME NEW w \in Workers, PopLevel(w) PROVE QueuedAtLevel'
  <2> DEFINE l == at[w]
  <2>1. l \in Priorities /\ queue[l] \in Seq(Msgs) /\ queue[l] # <<>>
    BY <1>2 DEF PopLevel
  <2>2. Head(queue[l]) \in Msgs
    BY <2>1, HeadTailProperties
  <2>3. /\ queue' = [queue EXCEPT ![l] = Tail(queue[l])]
        /\ place' = [place EXCEPT ![Head(queue[l])] = "held"]
    BY <1>2 DEF PopLevel
  <2> HIDE DEF l
  <2>4. SUFFICES ASSUME NEW n \in Msgs, place'[n] = "queued"
                 PROVE  /\ Level[n] \in Priorities
                        /\ \E k \in 1..Len(queue'[Level[n]]) : queue'[Level[n]][k] = n
    BY DEF QueuedAtLevel
  <2>5. n # Head(queue[l]) /\ place[n] = "queued"
    BY <2>2, <2>3, <2>4
  <2>6. Level[n] \in Priorities
    BY <2>5 DEF QueuedAtLevel
  <2>7. PICK k \in 1..Len(queue[Level[n]]) : queue[Level[n]][k] = n
    BY <2>5 DEF QueuedAtLevel
  <2>8. CASE Level[n] = l
    <3>1. \E j \in 1..Len(Tail(queue[l])) : Tail(queue[l])[j] = n
      BY <2>1, <2>5, <2>7, <2>8, TailKeeps
    <3>2. QED BY <2>3, <2>6, <2>8, <3>1
  <2>9. CASE Level[n] # l
    BY <2>3, <2>6, <2>7, <2>9
  <2>10. QED BY <2>8, <2>9
<1>3. ASSUME queue' = queue, \A n \in Msgs : place'[n] = "queued" => place[n] = "queued"
      PROVE  QueuedAtLevel'
  BY <1>3 DEF QueuedAtLevel
<1>4. ASSUME NEW w \in Workers,
             Processed(w) \/ Interrupted(w) \/ UpdateMessage(w)
      PROVE  QueuedAtLevel'
  BY <1>3, <1>4 DEF Processed, Interrupted, UpdateMessage, Complete
<1>5. ASSUME Shutdown PROVE QueuedAtLevel'
  BY <1>3, <1>5 DEF Shutdown
<1>6. ASSUME NEW w \in Workers, LoopTop(w) \/ EmptyLevel(w) \/ Wake(w)
      PROVE  QueuedAtLevel'
  BY <1>3, <1>6 DEF LoopTop, EmptyLevel, Wake
<1>7. ASSUME UNCHANGED vars PROVE QueuedAtLevel'
  BY <1>3, <1>7 DEF vars
<1>8. QED
  BY <1>1, <1>2, <1>4, <1>5, <1>6, <1>7 DEF Next, WorkerStep

-----------------------------------------------------------------------------
(* How often a message is overtaken. *)

\* A step after which the message has been overtaken as often as before, and
\* no more workers are past its level, keeps the bound.
LEMMA NotOvertaken ==
    ASSUME TypeOK, OvertakenOnceEach, NEW m \in Msgs, place[m] = "queued",
           overtaken'[m] = overtaken[m], Past(m)' \subseteq Past(m)
    PROVE  overtaken'[m] + Cardinality(Past(m)') <= Cardinality(Workers)
<1>1. overtaken[m] + Cardinality(Past(m)) <= Cardinality(Workers)
  BY DEF OvertakenOnceEach, Past
<1>2. Cardinality(Past(m)') <= Cardinality(Past(m)) /\ Cardinality(Past(m)') \in Nat
  BY PastFinite, FS_Subset, FS_CardinalityType
<1>3. QED BY <1>1, <1>2, PastFinite DEF TypeOK

\* Every action keeps the bound.
LEMMA StepOvertaken == ServingInv /\ [Next]_vars => OvertakenOnceEach'
<1> SUFFICES ASSUME ServingInv, [Next]_vars, NEW m \in Msgs, place'[m] = "queued"
             PROVE  overtaken'[m] + Cardinality(Past(m)') <= Cardinality(Workers)
  BY DEF OvertakenOnceEach, Past
<1> USE DEF ServingInv
<1> DEFINE Goal == overtaken'[m] + Cardinality(Past(m)') <= Cardinality(Workers)
<1>1. ASSUME NEW n \in Msgs, Submit(n) PROVE Goal
  <2>1. Past(m)' = Past(m)
    BY <1>1 DEF Submit, Past, Scanning
  <2>2. CASE n = m
    <3>1. overtaken'[m] = 0
      BY <1>1, <2>2 DEF Submit, TypeOK
    <3>2. QED BY <2>1, <3>1, PastFinite
  <2>3. CASE n # m
    <3>1. place[m] = "queued" /\ overtaken'[m] = overtaken[m]
      BY <1>1, <2>3 DEF Submit, TypeOK
    <3>2. QED BY <2>1, <3>1, NotOvertaken
  <2>4. QED BY <2>2, <2>3
<1>2. ASSUME NEW w \in Workers, PopLevel(w) PROVE Goal
  <2>1. /\ queue[at[w]] \in Seq(Msgs) /\ queue[at[w]] # <<>>
        /\ pc[w] = "scan" /\ pc' = [pc EXCEPT ![w] = "process"] /\ at' = at
    BY <1>2 DEF PopLevel, TypeOK
  <2>2. place[m] = "queued"
    <3>1. Head(queue[at[w]]) \in Msgs
      BY <2>1, HeadTailProperties
    <3>2. QED BY <1>2, <3>1 DEF PopLevel, TypeOK
  <2>3. Past(m)' = Past(m) \ {w}
    BY <2>1 DEF Past, Scanning, TypeOK
  <2>4. CASE Level[m] < at[w]
    <3>1. overtaken'[m] = overtaken[m] + 1
      BY <1>2, <2>2, <2>4 DEF PopLevel
    <3>2. w \in Past(m)
      BY <2>1, <2>4, LevelType DEF Past, Scanning, TypeOK, Priorities
    <3>3. Cardinality(Past(m)') = Cardinality(Past(m)) - 1
      BY <2>3, <3>2, PastFinite, FS_RemoveElement
    <3>4. overtaken[m] + Cardinality(Past(m)) <= Cardinality(Workers)
      BY <2>2 DEF OvertakenOnceEach, Past
    <3>5. QED BY <3>1, <3>3, <3>4, PastFinite DEF TypeOK
  <2>5. CASE ~ (Level[m] < at[w])
    <3>1. overtaken'[m] = overtaken[m]
      BY <1>2, <2>5 DEF PopLevel
    <3>2. QED BY <2>2, <2>3, <3>1, NotOvertaken
  <2>6. QED BY <2>4, <2>5
<1>3. ASSUME NEW w \in Workers, EmptyLevel(w) PROVE Goal
  <2>1. place[m] = "queued" /\ overtaken'[m] = overtaken[m]
    BY <1>3 DEF EmptyLevel
  <2>2. Level[m] \in Priorities /\ at[w] \in Priorities /\ at[w] # Level[m]
    <3>1. Level[m] \in Priorities
      BY <2>1 DEF QueuedAtLevel
    <3>2. PICK k \in 1..Len(queue[Level[m]]) : queue[Level[m]][k] = m
      BY <2>1 DEF QueuedAtLevel
    <3>3. queue[Level[m]] # <<>>
      BY <3>2, EmptySeq
    <3>4. QED BY <1>3, <3>1, <3>3 DEF EmptyLevel, TypeOK
  <2>3. Past(m)' \subseteq Past(m)
    <3>1. CASE at[w] < 4
      <4>1. at' = [at EXCEPT ![w] = at[w] + 1] /\ pc' = pc
        BY <1>3, <3>1 DEF EmptyLevel
      <4>2. at[w] + 1 > Level[m] => at[w] > Level[m]
        BY <2>2 DEF Priorities
      <4>3. QED BY <4>1, <4>2 DEF Past, Scanning, TypeOK
    <3>2. CASE ~ (at[w] < 4)
      BY <1>3, <3>2 DEF EmptyLevel, Past, Scanning, TypeOK
    <3>3. QED BY <3>1, <3>2
  <2>4. QED BY <2>1, <2>3, NotOvertaken
<1>4. ASSUME NEW w \in Workers, LoopTop(w) PROVE Goal
  <2>1. place[m] = "queued" /\ overtaken'[m] = overtaken[m]
    BY <1>4 DEF LoopTop
  <2>2. Level[m] \in Priorities
    BY <2>1 DEF QueuedAtLevel
  <2>3. Past(m)' \subseteq Past(m)
    BY <1>4, <2>2 DEF LoopTop, Past, Scanning, TypeOK, Priorities
  <2>4. QED BY <2>1, <2>3, NotOvertaken
<1>5. ASSUME NEW w \in Workers, Wake(w) PROVE Goal
  <2>1. place[m] = "queued" /\ overtaken'[m] = overtaken[m]
    BY <1>5 DEF Wake
  <2>2. Past(m)' \subseteq Past(m)
    BY <1>5 DEF Wake, Past, Scanning, TypeOK
  <2>3. QED BY <2>1, <2>2, NotOvertaken
<1>6. ASSUME NEW w \in Workers, Processed(w) \/ Interrupted(w) \/ UpdateMessage(w)
      PROVE  Goal
  <2>1. place[m] = "queued" /\ overtaken'[m] = overtaken[m]
    BY <1>6 DEF Processed, Interrupted, UpdateMessage, Complete
  <2>2. Past(m)' \subseteq Past(m)
    BY <1>6 DEF Processed, Interrupted, UpdateMessage, Complete, Past, Scanning, TypeOK
  <2>3. QED BY <2>1, <2>2, NotOvertaken
<1>7. ASSUME Shutdown \/ UNCHANGED vars PROVE Goal
  <2>1. place[m] = "queued" /\ overtaken'[m] = overtaken[m] /\ Past(m)' = Past(m)
    BY <1>7 DEF Shutdown, vars, Past, Scanning
  <2>2. QED BY <2>1, NotOvertaken
<1>8. QED
  BY <1>1, <1>2, <1>3, <1>4, <1>5, <1>6, <1>7 DEF Next, WorkerStep

(* While a message waits, each worker takes at most one less urgent one    *)
(* before it, for every number of workers and of messages: a worker passes *)
(* the message's level only when it finds it empty.                        *)
THEOREM BoundedOvertaking == Spec => []OvertakenOnceEach
<1>1. Init => ServingInv
  <2> SUFFICES ASSUME Init PROVE ServingInv
    OBVIOUS
  <2>1. \A m \in Msgs : place[m] # "queued"
    BY DEF Init
  <2>2. QED BY <2>1, InitTypeOK DEF ServingInv, QueuedAtLevel, OvertakenOnceEach
<1>2. ServingInv /\ [Next]_vars => ServingInv'
  BY StepTypeOK, StepQueuedAtLevel, StepOvertaken DEF ServingInv
<1>3. ServingInv => OvertakenOnceEach
  BY DEF ServingInv
<1>4. QED BY <1>1, <1>2, <1>3, PTL DEF Spec

-----------------------------------------------------------------------------
(* LoadBalancer: the inductive invariant. *)

Calls == [pc : {"idle", "lookup", "select", "save", "holding"},
          s : SUBSET SessionIDs, t : SUBSET Types, ep : SUBSET Endpoints,
          counted : BOOLEAN]

\* The types of the variables.
BalancerType ==
    /\ strategy \in Strategies
    /\ groups \in [Types -> Seq(Endpoints)]
    /\ conns \in [Endpoints -> Nat]
    /\ sessions \in [SessionIDs -> SUBSET Endpoints]
    /\ currentIndex \in [Types -> Nat]
    /\ call \in [Clients -> Calls]
    /\ DOMAIN round = Types
    /\ brought \in [Endpoints -> Nat]

\* A call is for one type, has one endpoint at most, and nothing before the
\* selection.
CallInv ==
    \A c \in Clients :
        /\ \A t, u \in call[c].t : t = u
        /\ \A d, e \in call[c].ep : d = e
        /\ call[c].pc \in {"idle", "lookup", "select"} =>
              call[c].ep = {} /\ ~ call[c].counted

-----------------------------------------------------------------------------
(* LoadBalancer: facts about the operators. *)

\* An endpoint more, and one less.
LEMMA GroupChanges ==
    ASSUME NEW S, NEW s \in Seq(S)
    PROVE  /\ \A e \in S : /\ Append(s, e) \in Seq(S)
                           /\ Range(Append(s, e)) = Range(s) \cup {e}
                           /\ IsInjective(s) /\ e \notin Range(s) => IsInjective(Append(s, e))
           /\ \A i \in DOMAIN s : /\ RemoveAt(s, i) \in Seq(S)
                                  /\ Range(RemoveAt(s, i)) \subseteq Range(s)
                                  /\ IsInjective(s) => IsInjective(RemoveAt(s, i))
<1>1. DOMAIN s = 1..Len(s) /\ Len(s) \in Nat /\ \A i \in 1..Len(s) : s[i] \in S
  BY LenProperties
<1>2. ASSUME NEW e \in S
      PROVE  /\ Append(s, e) \in Seq(S)
             /\ Range(Append(s, e)) = Range(s) \cup {e}
             /\ IsInjective(s) /\ e \notin Range(s) => IsInjective(Append(s, e))
  <2> DEFINE r == Append(s, e)
  <2>1. /\ r \in Seq(S) /\ DOMAIN r = 1..(Len(s) + 1)
        /\ \A i \in 1..Len(s) : r[i] = s[i]
        /\ r[Len(s) + 1] = e
    BY <1>1, AppendProperties
  <2> HIDE DEF r
  <2>2. Range(r) = Range(s) \cup {e}
    BY <1>1, <2>1 DEF Range
  <2>3. IsInjective(s) /\ e \notin Range(s) => IsInjective(r)
    BY <1>1, <2>1 DEF Range, IsInjective
  <2>4. QED BY <2>1, <2>2, <2>3 DEF r
<1>3. ASSUME NEW i \in DOMAIN s
      PROVE  /\ RemoveAt(s, i) \in Seq(S)
             /\ Range(RemoveAt(s, i)) \subseteq Range(s)
             /\ IsInjective(s) => IsInjective(RemoveAt(s, i))
  <2> DEFINE a == SubSeq(s, 1, i - 1)
             b == SubSeq(s, i + 1, Len(s))
             r == RemoveAt(s, i)
  <2>1. /\ a \in Seq(S) /\ Len(a) = i - 1 /\ \A j \in 1..i - 1 : a[j] = s[j]
    BY <1>1, SubSeqProperties
  <2>2. /\ b \in Seq(S) /\ Len(b) = Len(s) - i
        /\ \A j \in 1..Len(s) - i : b[j] = s[i + j]
    BY <1>1, SubSeqProperties
  <2>3. r = a \o b
    BY DEF RemoveAt
  <2> HIDE DEF a, b
  <2>4. /\ a \o b \in Seq(S) /\ Len(a \o b) = Len(a) + Len(b)
        /\ \A j \in 1..Len(a) + Len(b) :
              (a \o b)[j] = IF j <= Len(a) THEN a[j] ELSE b[j - Len(a)]
    BY <2>1, <2>2, ConcatProperties
  <2> HIDE DEF r
  <2>5. r \in Seq(S) /\ DOMAIN r = 1..(Len(s) - 1)
    <3>1. r \in Seq(S) /\ Len(r) = (i - 1) + (Len(s) - i)
      BY <2>1, <2>2, <2>3, <2>4
    <3>2. (i - 1) + (Len(s) - i) = Len(s) - 1
      BY <1>1
    <3>3. DOMAIN r = 1..Len(r)
      BY <3>1, LenProperties
    <3>4. QED BY <3>1, <3>2, <3>3
  <2>10. ASSUME NEW j \in 1..(Len(s) - 1)
         PROVE  r[j] = IF j < i THEN s[j] ELSE s[j + 1]
    <3>1. CASE j < i
      BY <1>1, <2>1, <2>2, <2>3, <2>4, <3>1
    <3>2. CASE ~ (j < i)
      <4>1. j - (i - 1) \in 1..Len(s) - i /\ i + (j - (i - 1)) = j + 1
        BY <1>1, <3>2
      <4>2. j \in 1..Len(a) + Len(b) /\ ~ (j <= Len(a)) /\ Len(a) = i - 1
        BY <1>1, <2>1, <2>2, <3>2
      <4>3. r[j] = b[j - (i - 1)]
        BY <2>3, <2>4, <4>2
      <4>4. b[j - (i - 1)] = s[i + (j - (i - 1))]
        BY <2>2, <4>1
      <4>5. QED BY <3>2, <4>1, <4>3, <4>4
    <3>3. QED BY <3>1, <3>2
  <2>6. \A j \in 1..(Len(s) - 1) : j \in 1..Len(s) /\ j + 1 \in 1..Len(s)
    BY <1>1
  <2>7. Range(r) \subseteq Range(s)
    BY <1>1, <2>5, <2>10, <2>6 DEF Range
  <2>8. ASSUME IsInjective(s) PROVE IsInjective(r)
    <3>1. ASSUME NEW j \in 1..(Len(s) - 1), NEW k \in 1..(Len(s) - 1), r[j] = r[k]
          PROVE  j = k
      <4>1. \A x, y \in 1..Len(s) : s[x] = s[y] => x = y
        BY <1>1, <2>8 DEF IsInjective
      <4>2. QED BY <1>1, <2>6, <2>10, <3>1, <4>1
    <3>2. QED BY <2>5, <3>1 DEF IsInjective
  <2>9. QED BY <2>5, <2>7, <2>8 DEF r
<1>4. QED BY <1>2, <1>3

\* The next index of a round: the remainder goes up by one, or wraps.
LEMMA NextIndex ==
    ASSUME NEW n \in Nat \ {0}, NEW c \in Nat
    PROVE  /\ c % n \in 0..(n - 1)
           /\ (c + 1) % n = IF (c % n) + 1 = n THEN 0 ELSE (c % n) + 1
           /\ c < n => c % n = c
<1> DEFINE q == c \div n
           r == c % n
           x == (c + 1) \div n
           y == (c + 1) % n
<1>1. /\ q \in Int /\ r \in 0..(n - 1) /\ c = n * q + r
      /\ x \in Int /\ y \in 0..(n - 1) /\ c + 1 = n * x + y
  OBVIOUS
<1>2. c < n => r = c
  OBVIOUS
<1> HIDE DEF q, r, x, y
<1>3. n * (x - q) = r + 1 - y
  BY <1>1
<1>4. x - q \in {0, 1}
  <2> DEFINE d == x - q
  <2>1. d \in Int /\ n * d = r + 1 - y
    BY <1>1, <1>3
  <2> HIDE DEF d
  <2>2. ~ (d <= -1)
    <3>1. ASSUME d <= -1 PROVE n * d <= -n
      BY <2>1, <3>1
    <3>2. QED BY <1>1, <2>1, <3>1
  <2>3. ~ (d >= 2)
    <3>1. ASSUME d >= 2 PROVE n * d >= 2 * n
      BY <2>1, <3>1
    <3>2. QED BY <1>1, <2>1, <3>1
  <2>4. d \in {0, 1}
    BY <2>1, <2>2, <2>3
  <2>5. QED BY <2>4 DEF d
<1>5. y = r + 1 \/ y = r + 1 - n
  BY <1>1, <1>3, <1>4
<1>6. y = IF r + 1 = n THEN 0 ELSE r + 1
  BY <1>1, <1>5
<1>7. QED BY <1>1, <1>2, <1>6 DEF r, y

\* The healthy endpoints of a type are numbered from 0, each with its own index.
LEMMA IndexProperties ==
    ASSUME BalancerType, NEW t \in Types
    PROVE  LET H == getHealthyEndpoints(t)
           IN  /\ Cardinality(H) \in Nat
               /\ H # {} => Cardinality(H) # 0
               /\ \A i \in H : Index(t, i) \in 0..(Cardinality(H) - 1)
               /\ \A i, j \in H : Index(t, i) = Index(t, j) => i = j
<1> DEFINE H == getHealthyEndpoints(t)
           Below(i) == {j \in H : j < i}
<1>1. IsFiniteSet(H) /\ H \subseteq Int
  <2> DEFINE n == Len(groups[t])
             I == 1..n
  <2>1. n \in Nat /\ DOMAIN groups[t] = 1..n
    BY LenProperties DEF BalancerType
  <2> HIDE DEF n
  <2>2. 1 \in Int /\ n \in Int
    BY <2>1
  <2>3. IsFiniteSet(I)
    BY <2>2, FS_Interval
  <2>4. H \subseteq I
    BY <2>1 DEF getHealthyEndpoints
  <2>5. QED BY <2>2, <2>3, <2>4, FS_Subset
<1> HIDE DEF H
<1>2. Cardinality(H) \in Nat /\ (H # {} => Cardinality(H) # 0)
  BY <1>1, FS_CardinalityType, FS_EmptySet
<1>3. ASSUME NEW i \in H
      PROVE  /\ IsFiniteSet(Below(i)) /\ Cardinality(Below(i)) \in Nat
             /\ Cardinality(Below(i)) < Cardinality(H)
  <2>1. Below(i) \subseteq H /\ i \notin Below(i)
    BY <1>1
  <2> HIDE DEF Below
  <2>2. IsFiniteSet(Below(i)) /\ Cardinality(Below(i)) <= Cardinality(H)
        /\ (Cardinality(Below(i)) = Cardinality(H) => Below(i) = H)
    BY <1>1, <2>1, FS_Subset
  <2>3. Cardinality(Below(i)) \in Nat
    BY <2>2, FS_CardinalityType
  <2>4. Cardinality(Below(i)) # Cardinality(H)
    BY <2>1, <2>2
  <2>5. QED BY <1>2, <2>2, <2>3, <2>4
<1>4. ASSUME NEW i \in H, NEW j \in H, i < j
      PROVE  Cardinality(Below(i)) < Cardinality(Below(j))
  <2>1. Below(i) \subseteq Below(j) /\ i \in Below(j) /\ i \notin Below(i)
    <3>1. i \in Int /\ j \in Int /\ ~ (i < i)
      BY <1>1
    <3>2. \A k \in H : k < i => k < j
      BY <1>1, <1>4, <3>1
    <3>3. QED BY <1>4, <3>1, <3>2
  <2>2. /\ IsFiniteSet(Below(j)) /\ Cardinality(Below(i)) \in Nat
        /\ Cardinality(Below(j)) \in Nat
    BY <1>3
  <2> DEFINE A == Below(i)
             B == Below(j)
  <2> HIDE DEF A, B
  <2>3. A \subseteq B /\ A # B /\ IsFiniteSet(B)
    BY <2>1, <2>2 DEF A, B
  <2>4. Cardinality(A) <= Cardinality(B) /\ Cardinality(A) # Cardinality(B)
    BY <2>3, FS_Subset
  <2>5. Cardinality(A) \in Nat /\ Cardinality(B) \in Nat
    BY <2>2 DEF A, B
  <2>6. Cardinality(A) < Cardinality(B)
    BY <2>4, <2>5
  <2>7. QED BY <2>6 DEF A, B
<1>5. ASSUME NEW i \in H PROVE Index(t, i) = Cardinality(Below(i))
  <2>1. Below(i) = {j \in getHealthyEndpoints(t) : j < i}
    BY DEF H
  <2>2. QED BY <2>1 DEF Index
<1>6. ASSUME NEW i \in H PROVE Index(t, i) \in 0..(Cardinality(H) - 1)
  <2>1. /\ Cardinality(Below(i)) \in Nat
        /\ Cardinality(Below(i)) < Cardinality(H)
    BY <1>3
  <2> HIDE DEF Below
  <2>2. Cardinality(Below(i)) \in 0..(Cardinality(H) - 1)
    BY <1>2, <2>1
  <2>3. QED BY <1>5, <2>2
<1>7. ASSUME NEW i \in H, NEW j \in H, Index(t, i) = Index(t, j) PROVE i = j
  <2>1. i \in Int /\ j \in Int
    BY <1>1
  <2>2. Cardinality(Below(i)) = Cardinality(Below(j)) /\ Cardinality(Below(i)) \in Nat
    BY <1>3, <1>5, <1>7
  <2>3. ~ (i < j) /\ ~ (j < i)
    BY <1>4, <2>2
  <2>4. QED BY <2>1, <2>3
<1>8. QED BY <1>2, <1>6, <1>7 DEF H

\* What may be selected is healthy, in its group, and for round-robin the one
\* whose index is next.
LEMMA SelectedProperties ==
    ASSUME BalancerType, NEW t \in Types, NEW i \in Selected(t)
    PROVE  /\ i \in getHealthyEndpoints(t)
           /\ i \in DOMAIN groups[t] /\ groups[t][i] \in Endpoints
           /\ groups[t][i] \in Known /\ Healthy(groups[t][i])
           /\ InTurn => Index(t, i) = currentIndex[t] % Cardinality(getHealthyEndpoints(t))
<1>1. i \in getHealthyEndpoints(t)
  <2>1. CASE strategy \in {"round_robin", "ip_hash"}
    <3>1. Selected(t) = roundRobinSelect(t)
      BY <2>1 DEF Selected, InTurn
    <3>2. QED BY <3>1 DEF roundRobinSelect
  <2>2. CASE strategy = "least_connections"
    <3>1. Selected(t) = leastConnectionsSelect(t)
      BY <2>2 DEF Selected, InTurn
    <3>2. QED BY <3>1 DEF leastConnectionsSelect
  <2>3. CASE strategy \in {"weighted_random", "adaptive_load"}
    <3>1. Selected(t) = getHealthyEndpoints(t)
      BY <2>3 DEF Selected, InTurn
    <3>2. QED BY <3>1
  <2>4. QED BY <2>1, <2>2, <2>3 DEF BalancerType, Strategies
<1>2. i \in DOMAIN groups[t] /\ Healthy(groups[t][i])
  BY <1>1 DEF getHealthyEndpoints
<1>3. groups[t][i] \in Endpoints
  BY <1>2, LenProperties DEF BalancerType
<1>4. groups[t][i] \in Known
  BY <1>2 DEF Known, Range
<1>5. InTurn => Index(t, i) = currentIndex[t] % Cardinality(getHealthyEndpoints(t))
  <2>1. InTurn => Selected(t) = roundRobinSelect(t)
    BY DEF Selected, InTurn
  <2>2. QED BY <2>1 DEF roundRobinSelect
<1>6. QED BY <1>1, <1>2, <1>3, <1>4, <1>5

-----------------------------------------------------------------------------
(* LoadBalancer: types and calls. *)

LEMMA IdleType == Idle \in Calls
  BY DEF Idle, Calls

LEMMA InitBalancer == LBInit => BalancerType /\ CallInv
<1> SUFFICES ASSUME LBInit PROVE BalancerType /\ CallInv
  OBVIOUS
<1>1. <<>> \in Seq(Endpoints)
  OBVIOUS
<1>2. \A c \in Clients : call[c] = Idle
  BY DEF LBInit
<1>3. BalancerType
  <2>1. 0 \in Nat
    OBVIOUS
  <2>2. Idle \in Calls
    BY IdleType
  <2>3. call \in [Clients -> Calls] /\ strategy \in Strategies
    BY <2>2, ConfiguredStrategies DEF LBInit
  <2>4. QED BY <1>1, <2>3 DEF LBInit, BalancerType
<1>4. CallInv
  BY <1>2 DEF CallInv, Idle
<1>5. QED BY <1>3, <1>4

\* A step of a client that leaves its call, or the record of it, well-formed.
LEMMA CallStep ==
    ASSUME BalancerType, CallInv, NEW c \in Clients, NEW r \in Calls,
           call' = [call EXCEPT ![c] = r],
           \A t, u \in r.t : t = u, \A d, e \in r.ep : d = e,
           r.pc \in {"idle", "lookup", "select"} => r.ep = {} /\ ~ r.counted
    PROVE  call' \in [Clients -> Calls] /\ CallInv'
<1>1. call' \in [Clients -> Calls]
  BY DEF BalancerType
<1>2. \A d \in Clients : call'[d] = IF d = c THEN r ELSE call[d]
  BY DEF BalancerType
<1>3. CallInv'
  BY <1>2 DEF CallInv
<1>4. QED BY <1>1, <1>3

\* The record of a client that has been given e.
LEMMA HoldingRecord ==
    ASSUME NEW c \in Clients, NEW e \in Endpoints, NEW counted \in BOOLEAN
    PROVE  \E r \in Calls :
              /\ Holding(c, e, counted) = [call EXCEPT ![c] = r]
              /\ r.pc = "holding" /\ r.t = {} /\ r.ep = {e} /\ r.counted = counted
<1> DEFINE r == [Idle EXCEPT !.pc = "holding", !.ep = {e}, !.counted = counted]
<1>1. r \in Calls
  BY DEF Idle, Calls
<1>2. r.pc = "holding" /\ r.t = {} /\ r.ep = {e} /\ r.counted = counted
  BY DEF Idle
<1>3. Holding(c, e, counted) = [call EXCEPT ![c] = r]
  BY DEF Holding
<1>4. QED BY <1>1, <1>2, <1>3

\* What a step of a client makes of its call: it goes back to idle, goes on
\* with nothing, keeps what it has, or is given a healthy endpoint.
ClientMoves(c, r) ==
    /\ call' = [call EXCEPT ![c] = r]
    /\ \A t, u \in r.t : t = u
    /\ \A d, e \in r.ep : d = e
    /\ r.pc \in {"idle", "lookup", "select"} => r.ep = {} /\ ~ r.counted

LEMMA GetEndpointMoves ==
    ASSUME BalancerType, CallInv, NEW c \in Clients, NEW t \in Types,
           NEW s \in {{}} \cup {{x} : x \in SessionIDs}, GetEndpoint(c, s, t)
    PROVE  \E r \in Calls : ClientMoves(c, r) /\ r.ep = {} /\ ~ r.counted
                            /\ call[c].ep = {} /\ ~ call[c].counted
<1> DEFINE r == [Idle EXCEPT !.pc = IF s = {} THEN "select" ELSE "lookup",
                             !.s = s, !.t = {t}]
<1>1. r \in Calls
  BY DEF Idle, Calls
<1>2. r.t = {t} /\ r.ep = {} /\ ~ r.counted
  BY DEF Idle
<1>3. call' = [call EXCEPT ![c] = r]
  BY DEF GetEndpoint
<1>4. call[c].ep = {} /\ ~ call[c].counted
  BY DEF GetEndpoint, CallInv
<1> HIDE DEF r
<1>5. ClientMoves(c, r)
  BY <1>2, <1>3 DEF ClientMoves
<1>6. QED BY <1>1, <1>2, <1>4, <1>5

LEMMA SessionMoves ==
    ASSUME BalancerType, CallInv, NEW c \in Clients, getSessionEndpoint(c)
    PROVE  /\ call[c].ep = {} /\ ~ call[c].counted
           /\ \E r \in Calls :
                 /\ ClientMoves(c, r) /\ ~ r.counted
                 /\ \A e \in r.ep : e \in Known /\ Healthy(e)
           /\ sessions' \in [SessionIDs -> SUBSET Endpoints]
<1>1. call[c].pc = "lookup" /\ call[c] \in Calls
  BY DEF getSessionEndpoint, BalancerType
<1>2. call[c].ep = {} /\ ~ call[c].counted
  BY <1>1 DEF CallInv
<1>3. PICK s \in call[c].s :
         \/ \E e \in sessions[s] \cap Known :
               Healthy(e) /\ call' = Holding(c, e, FALSE) /\ sessions' = sessions
         \/ /\ sessions' = [sessions EXCEPT ![s] = {}]
            /\ call' = [call EXCEPT ![c].pc = "select"]
  BY DEF getSessionEndpoint
<1>4. CASE \E e \in sessions[s] \cap Known :
              Healthy(e) /\ call' = Holding(c, e, FALSE) /\ sessions' = sessions
  <2>1. PICK e \in sessions[s] \cap Known :
           Healthy(e) /\ call' = Holding(c, e, FALSE) /\ sessions' = sessions
    BY <1>4
  <2>2. e \in Endpoints
    BY <1>1, <1>3, <2>1 DEF BalancerType, Calls
  <2>3. PICK r \in Calls :
           /\ Holding(c, e, FALSE) = [call EXCEPT ![c] = r]
           /\ r.pc = "holding" /\ r.t = {} /\ r.ep = {e} /\ r.counted = FALSE
    BY <2>2, HoldingRecord
  <2>4. ClientMoves(c, r) /\ ~ r.counted /\ \A x \in r.ep : x \in Known /\ Healthy(x)
    BY <2>1, <2>3 DEF ClientMoves
  <2>5. QED BY <1>2, <2>1, <2>4 DEF BalancerType
<1>5. CASE /\ sessions' = [sessions EXCEPT ![s] = {}]
           /\ call' = [call EXCEPT ![c].pc = "select"]
  <2> DEFINE r == [call[c] EXCEPT !.pc = "select"]
  <2>1. r \in Calls
    BY <1>1 DEF Calls
  <2>2. r.ep = {} /\ ~ r.counted /\ r.t = call[c].t
    BY <1>1, <1>2 DEF Calls
  <2>3. call' = [call EXCEPT ![c] = r]
    BY <1>5
  <2> HIDE DEF r
  <2>4. ClientMoves(c, r)
    BY <2>2, <2>3 DEF ClientMoves, CallInv
  <2>5. sessions' \in [SessionIDs -> SUBSET Endpoints]
    BY <1>5 DEF BalancerType
  <2>6. QED BY <1>2, <2>1, <2>2, <2>4, <2>5
<1>6. QED BY <1>3, <1>4, <1>5

LEMMA SelectMoves ==
    ASSUME BalancerType, CallInv, NEW c \in Clients, Select(c)
    PROVE  /\ call[c].pc = "select" /\ call[c].ep = {} /\ ~ call[c].counted
           /\ \E t \in Types, i \in Int, r \in Calls :
                 /\ t \in call[c].t /\ i \in Selected(t)
                 /\ ClientMoves(c, r)
                 /\ r.ep = {groups[t][i]} /\ r.counted
                 /\ conns' = [conns EXCEPT ![groups[t][i]] = @ + 1]
                 /\ round' = Serve(t, groups[t][i])
                 /\ currentIndex' = IF InTurn THEN roundRobinNext(t) ELSE currentIndex
<1>1. call[c].pc = "select" /\ call[c] \in Calls
  BY DEF Select, BalancerType
<1>2. call[c].ep = {} /\ ~ call[c].counted
  BY <1>1 DEF CallInv
<1>3. PICK t \in call[c].t : \E i \in Selected(t) :
         LET e == groups[t][i]
         IN  /\ conns' = [conns EXCEPT ![e] = @ + 1]
             /\ call' = IF call[c].s = {} THEN Holding(c, e, TRUE)
                        ELSE [call EXCEPT ![c].pc = "save", ![c].ep = {e},
                                          ![c].counted = TRUE]
             /\ round' = Serve(t, e)
             /\ currentIndex' = IF InTurn THEN roundRobinNext(t) ELSE currentIndex
  BY DEF Select
<1>8. PICK i \in Selected(t) :
         LET e == groups[t][i]
         IN  /\ conns' = [conns EXCEPT ![e] = @ + 1]
             /\ call' = IF call[c].s = {} THEN Holding(c, e, TRUE)
                        ELSE [call EXCEPT ![c].pc = "save", ![c].ep = {e},
                                          ![c].counted = TRUE]
             /\ round' = Serve(t, e)
             /\ currentIndex' = IF InTurn THEN roundRobinNext(t) ELSE currentIndex
  BY <1>3
<1>4. t \in Types
  BY <1>1 DEF Calls
<1> DEFINE e == groups[t][i]
<1>5. e \in Endpoints
  BY <1>4, SelectedProperties
<1> HIDE DEF e
<1>6. PICK r \in Calls : ClientMoves(c, r) /\ r.ep = {e} /\ r.counted
  <2>1. CASE call[c].s = {}
    <3>1. call' = Holding(c, e, TRUE)
      BY <1>8, <2>1 DEF e
    <3>2. PICK r \in Calls :
             /\ Holding(c, e, TRUE) = [call EXCEPT ![c] = r]
             /\ r.pc = "holding" /\ r.t = {} /\ r.ep = {e} /\ r.counted = TRUE
      BY <1>5, HoldingRecord
    <3>3. ClientMoves(c, r) /\ r.ep = {e} /\ r.counted
      BY <3>1, <3>2 DEF ClientMoves
    <3>4. QED BY <3>3
  <2>2. CASE call[c].s # {}
    <3> DEFINE r == [call[c] EXCEPT !.pc = "save", !.ep = {e}, !.counted = TRUE]
    <3>1. call' = [call EXCEPT ![c].pc = "save", ![c].ep = {e}, ![c].counted = TRUE]
      BY <1>8, <2>2 DEF e
    <3>2. call' = [call EXCEPT ![c] = r]
      BY <3>1 DEF BalancerType
    <3>3. r \in Calls
      BY <1>1, <1>5 DEF Calls
    <3>4. r.pc = "save" /\ r.ep = {e} /\ r.counted /\ r.t = call[c].t
      BY <1>1 DEF Calls
    <3> HIDE DEF r
    <3>5. ClientMoves(c, r)
      BY <3>2, <3>4 DEF ClientMoves, CallInv
    <3>6. QED BY <3>3, <3>4, <3>5
  <2>3. QED BY <2>1, <2>2
<1>7. i \in Int
  <2>1. i \in DOMAIN groups[t] /\ DOMAIN groups[t] = 1..Len(groups[t])
    BY <1>4, SelectedProperties, LenProperties DEF BalancerType
  <2>2. QED BY <2>1
<1>9. QED BY <1>1, <1>2, <1>4, <1>6, <1>7, <1>8 DEF e

LEMMA SaveMoves ==
    ASSUME BalancerType, CallInv, NEW c \in Clients, saveSession(c)
    PROVE  /\ \E r \in Calls : /\ ClientMoves(c, r)
                               /\ r.ep = call[c].ep /\ r.counted = call[c].counted
           /\ sessions' \in [SessionIDs -> SUBSET Endpoints]
<1> DEFINE r == [call[c] EXCEPT !.pc = "holding", !.s = {}, !.t = {}]
<1>1. call[c] \in Calls
  BY DEF BalancerType
<1>2. r \in Calls /\ r.pc = "holding" /\ r.t = {}
      /\ r.ep = call[c].ep /\ r.counted = call[c].counted
  BY <1>1 DEF Calls
<1>3. call' = [call EXCEPT ![c] = r]
  BY DEF saveSession, BalancerType
<1> HIDE DEF r
<1>4. ClientMoves(c, r)
  BY <1>2, <1>3 DEF ClientMoves, CallInv
<1>5. sessions' \in [SessionIDs -> SUBSET Endpoints]
  BY <1>1 DEF saveSession, BalancerType, Calls
<1>6. QED BY <1>2, <1>4, <1>5

LEMMA IdleMoves ==
    ASSUME BalancerType, NEW c \in Clients, call' = [call EXCEPT ![c] = Idle]
    PROVE  ClientMoves(c, Idle) /\ Idle \in Calls /\ Idle.ep = {} /\ ~ Idle.counted
  BY IdleType DEF ClientMoves, Idle

LEMMA MovesKeep ==
    ASSUME BalancerType, CallInv, NEW c \in Clients, NEW r \in Calls, ClientMoves(c, r)
    PROVE  /\ call' \in [Clients -> Calls] /\ CallInv'
           /\ call'[c] = r /\ \A d \in Clients \ {c} : call'[d] = call[d]
<1>1. call' \in [Clients -> Calls] /\ CallInv'
  BY CallStep DEF ClientMoves
<1>2. call'[c] = r /\ \A d \in Clients \ {c} : call'[d] = call[d]
  BY DEF ClientMoves, BalancerType
<1>3. QED BY <1>1, <1>2

\* The next index is a number.
LEMMA NextIndexType ==
    ASSUME BalancerType, NEW t \in Types, NEW i \in Selected(t)
    PROVE  LET n == Cardinality(getHealthyEndpoints(t))
           IN  /\ n \in Nat \ {0}
               /\ roundRobinNext(t) \in [Types -> Nat]
               /\ roundRobinNext(t)[t] = (currentIndex[t] + 1) % n
               /\ \A u \in Types \ {t} : roundRobinNext(t)[u] = currentIndex[u]
<1> DEFINE n == Cardinality(getHealthyEndpoints(t))
<1>1. getHealthyEndpoints(t) # {}
  BY SelectedProperties
<1>2. n \in Nat \ {0}
  BY <1>1, IndexProperties
<1>3. currentIndex[t] \in Nat
  BY DEF BalancerType
<1>4. roundRobinNext(t) = [currentIndex EXCEPT ![t] = (currentIndex[t] + 1) % n]
  BY DEF roundRobinNext
<1> HIDE DEF n
<1>5. (currentIndex[t] + 1) % n \in Nat
  BY <1>2, <1>3
<1>6. QED BY <1>2, <1>4, <1>5 DEF BalancerType, n

\* Nobody is given anything when an endpoint is added; who counts it no longer
\* counts.
LEMMA AddCalls ==
    ASSUME BalancerType, CallInv, NEW e \in Endpoints, NEW st \in Statuses,
           NEW t \in Types, NEW n \in Presets, AddEndpoint(e, t, st, n)
    PROVE  /\ call' \in [Clients -> Calls] /\ CallInv'
           /\ \A c \in Clients :
                 /\ call'[c].ep = call[c].ep /\ call'[c].pc = call[c].pc
                 /\ call'[c].counted <=> call[c].counted /\ e \notin call[c].ep
<1> DEFINE r(c) == [call[c] EXCEPT !.counted = @ /\ e \notin call[c].ep]
<1>1. ASSUME NEW c \in Clients
      PROVE  /\ r(c) \in Calls
             /\ r(c).ep = call[c].ep /\ r(c).pc = call[c].pc /\ r(c).t = call[c].t
             /\ r(c).counted <=> call[c].counted /\ e \notin call[c].ep
  <2>1. call[c] \in Calls
    BY DEF BalancerType
  <2>2. QED BY <2>1 DEF Calls
<1>2. call' = [c \in Clients |-> r(c)]
  BY DEF AddEndpoint
<1> HIDE DEF r
<1>3. call' \in [Clients -> Calls] /\ \A c \in Clients : call'[c] = r(c)
  BY <1>1, <1>2
<1>4. CallInv'
  BY <1>1, <1>3 DEF CallInv
<1>5. QED BY <1>1, <1>3, <1>4

\* Every action keeps the types and what the calls have.
LEMMA StepBalancer ==
    BalancerType /\ CallInv /\ [LBNext]_LBvars => BalancerType' /\ CallInv'
<1> SUFFICES ASSUME BalancerType, CallInv, [LBNext]_LBvars
             PROVE  BalancerType' /\ CallInv'
  OBVIOUS
<1> USE DEF endpointVars
<1>1. ASSUME call' = call PROVE call' \in [Clients -> Calls] /\ CallInv'
  BY <1>1 DEF BalancerType, CallInv
<1>2. NewRound => DOMAIN round' = Types
  BY DEF NewRound
<1>3. ASSUME NEW e \in Endpoints, RemoveEndpoint(e) PROVE BalancerType' /\ CallInv'
  <2>1. PICK t \in Types : \E i \in DOMAIN groups[t] :
           groups' = [groups EXCEPT ![t] = RemoveAt(groups[t], i)]
    BY <1>3 DEF RemoveEndpoint
  <2>7. PICK i \in DOMAIN groups[t] :
           groups' = [groups EXCEPT ![t] = RemoveAt(groups[t], i)]
    BY <2>1
  <2>2. RemoveAt(groups[t], i) \in Seq(Endpoints)
    BY GroupChanges DEF BalancerType
  <2>3. groups' \in [Types -> Seq(Endpoints)]
    BY <2>2, <2>7 DEF BalancerType
  <2>4. sessions' \in [SessionIDs -> SUBSET Endpoints]
    BY <1>3 DEF RemoveEndpoint, BalancerType
  <2>5. call' = call /\ UNCHANGED <<strategy, conns, currentIndex, brought>>
        /\ NewRound
    BY <1>3 DEF RemoveEndpoint
  <2>6. QED BY <1>1, <1>2, <2>3, <2>4, <2>5 DEF BalancerType
<1>4. ASSUME NEW e \in Endpoints, checkEndpointHealth(e) PROVE BalancerType' /\ CallInv'
  BY <1>1, <1>2, <1>4 DEF checkEndpointHealth, BalancerType
<1>5. ASSUME NEW e \in Endpoints, NEW st \in Statuses, UpdateEndpointStatus(e, st)
      PROVE  BalancerType' /\ CallInv'
  BY <1>1, <1>2, <1>5 DEF UpdateEndpointStatus, BalancerType
<1>6. ASSUME NEW e \in Endpoints, NEW st \in Statuses, NEW t \in Types,
             NEW n \in Presets, AddEndpoint(e, t, st, n)
      PROVE  BalancerType' /\ CallInv'
  <2>1. Append(groups[t], e) \in Seq(Endpoints) /\ n \in Nat
    BY PresetsAreCounts DEF BalancerType
  <2>2. /\ groups' \in [Types -> Seq(Endpoints)] /\ conns' \in [Endpoints -> Nat]
        /\ brought' \in [Endpoints -> Nat]
    BY <1>6, <2>1 DEF AddEndpoint, BalancerType
  <2>3. UNCHANGED <<strategy, sessions, currentIndex>> /\ NewRound
    BY <1>6 DEF AddEndpoint
  <2>4. call' \in [Clients -> Calls] /\ CallInv'
    BY <1>6, AddCalls
  <2>5. QED BY <1>2, <2>2, <2>3, <2>4 DEF BalancerType
<1>7. CASE performHealthChecks
  BY <1>1, <1>7 DEF performHealthChecks, BalancerType
<1>8. CASE ClearSessions
  BY <1>1, <1>8 DEF ClearSessions, BalancerType
<1>9. ASSUME NEW c \in Clients, getSessionEndpoint(c) PROVE BalancerType' /\ CallInv'
  <2>1. PICK r \in Calls : ClientMoves(c, r)
    BY <1>9, SessionMoves
  <2>2. call' \in [Clients -> Calls] /\ CallInv'
    BY <2>1, MovesKeep
  <2>3. sessions' \in [SessionIDs -> SUBSET Endpoints]
    BY <1>9, SessionMoves
  <2>4. UNCHANGED <<strategy, groups, conns, currentIndex, round, brought>>
    BY <1>9 DEF getSessionEndpoint
  <2>5. QED BY <2>2, <2>3, <2>4 DEF BalancerType
<1>10. ASSUME NEW c \in Clients, Select(c) PROVE BalancerType' /\ CallInv'
  <2>1. PICK t \in Types, i \in Int, r \in Calls :
           /\ t \in call[c].t /\ i \in Selected(t)
           /\ ClientMoves(c, r)
           /\ conns' = [conns EXCEPT ![groups[t][i]] = @ + 1]
           /\ round' = Serve(t, groups[t][i])
           /\ currentIndex' = IF InTurn THEN roundRobinNext(t) ELSE currentIndex
    BY <1>10, SelectMoves
  <2>2. call' \in [Clients -> Calls] /\ CallInv'
    BY <2>1, MovesKeep
  <2>3. conns' \in [Endpoints -> Nat]
    <3>1. t \in Types
      BY <2>1
    <3>2. groups[t][i] \in Endpoints
      BY <2>1, SelectedProperties
    <3>3. QED BY <2>1, <3>2 DEF BalancerType
  <2>4. currentIndex' \in [Types -> Nat]
    BY <2>1, NextIndexType DEF BalancerType
  <2>5. DOMAIN round' = Types
    BY <2>1 DEF Serve, BalancerType
  <2>6. UNCHANGED <<strategy, groups, sessions, brought>>
    BY <1>10 DEF Select
  <2>7. QED BY <2>2, <2>3, <2>4, <2>5, <2>6 DEF BalancerType
<1>11. ASSUME NEW c \in Clients, SelectFails(c) PROVE BalancerType' /\ CallInv'
  <2>1. call' \in [Clients -> Calls] /\ CallInv'
    BY <1>11, IdleMoves, MovesKeep DEF SelectFails
  <2>2. QED BY <1>11, <2>1 DEF SelectFails, BalancerType
<1>12. ASSUME NEW c \in Clients, saveSession(c) PROVE BalancerType' /\ CallInv'
  <2>1. PICK r \in Calls : ClientMoves(c, r)
    BY <1>12, SaveMoves
  <2>2. call' \in [Clients -> Calls] /\ CallInv'
    BY <2>1, MovesKeep
  <2>3. sessions' \in [SessionIDs -> SUBSET Endpoints]
    BY <1>12, SaveMoves
  <2>4. QED BY <1>12, <2>2, <2>3 DEF saveSession, BalancerType
<1>13. ASSUME NEW c \in Clients, ReleaseEndpoint(c) PROVE BalancerType' /\ CallInv'
  <2>1. call' \in [Clients -> Calls] /\ CallInv'
    BY <1>13, IdleMoves, MovesKeep DEF ReleaseEndpoint
  <2>2. conns' \in [Endpoints -> Nat]
    BY <1>13 DEF ReleaseEndpoint, BalancerType
  <2>3. QED BY <1>13, <2>1, <2>2 DEF ReleaseEndpoint, BalancerType
<1>14. ASSUME NEW c \in Clients, NEW t \in Types,
              NEW s \in {{}} \cup {{x} : x \in SessionIDs}, GetEndpoint(c, s, t)
       PROVE  BalancerType' /\ CallInv'
  <2>1. PICK r \in Calls : ClientMoves(c, r)
    BY <1>14, GetEndpointMoves
  <2>2. call' \in [Clients -> Calls] /\ CallInv'
    BY <2>1, MovesKeep
  <2>3. QED BY <1>14, <2>2 DEF GetEndpoint, BalancerType
<1>15. CASE UNCHANGED LBvars
  BY <1>1, <1>15 DEF LBvars, BalancerType
<1>16. QED
  BY <1>3, <1>4, <1>5, <1>6, <1>7, <1>8, <1>9, <1>10, <1>11, <1>12, <1>13, <1>14,
     <1>15 DEF LBNext, ClientStep

-----------------------------------------------------------------------------
(* LoadBalancer: connections. *)

LEMMA KnownEndpoints ==
    ASSUME BalancerType PROVE Known \subseteq Endpoints
<1>1. ASSUME NEW t \in Types PROVE Range(groups[t]) \subseteq Endpoints
  <2>1. groups[t] \in Seq(Endpoints)
    BY DEF BalancerType
  <2>2. DOMAIN groups[t] = 1..Len(groups[t])
        /\ \A i \in 1..Len(groups[t]) : groups[t][i] \in Endpoints
    BY <2>1, LenProperties
  <2>3. QED BY <2>2 DEF Range
<1>2. QED BY <1>1 DEF Known

LEMMA CountedFinite ==
    ASSUME NEW e
    PROVE  IsFiniteSet(Counted(e)) /\ Cardinality(Counted(e)) \in Nat
<1>1. Counted(e) \subseteq Clients
  BY DEF Counted
<1>2. IsFiniteSet(Counted(e))
  BY <1>1, ClientsFinite, FS_Subset
<1>3. QED BY <1>2, FS_CardinalityType

\* A step after which the clients count what they counted before.
LEMMA SameCounts ==
    ASSUME \A c \in Clients : call'[c].ep = call[c].ep /\ call'[c].counted = call[c].counted
    PROVE  \A e \in Endpoints : Counted(e)' = Counted(e)
  BY DEF Counted

LEMMA ConnectionsKept ==
    ASSUME BalancerType, NoLeakedConnections, Known' \subseteq Known, conns' = conns,
           brought' = brought, \A e \in Endpoints : Counted(e)' = Counted(e)
    PROVE  NoLeakedConnections'
<1>1. ASSUME NEW e \in Known'
      PROVE  conns'[e] \in 0..(brought'[e] + Cardinality(Counted(e)'))
  <2>1. e \in Known /\ e \in Endpoints
    BY <1>1, KnownEndpoints
  <2>2. conns[e] \in 0..(brought[e] + Cardinality(Counted(e)))
    BY <2>1 DEF NoLeakedConnections
  <2>3. QED BY <2>1, <2>2
<1>2. QED BY <1>1 DEF NoLeakedConnections

\* A client that counts nothing before a step counts nothing, or one, after it.
LEMMA CallCounts ==
    ASSUME BalancerType, CallInv, NEW c \in Clients, NEW r \in Calls,
           ClientMoves(c, r), ~ r.counted, ~ call[c].counted, NEW e
    PROVE  Counted(e)' = Counted(e)
<1>1. call'[c] = r /\ \A d \in Clients \ {c} : call'[d] = call[d]
  BY MovesKeep
<1>2. QED BY <1>1 DEF Counted

LEMMA RemoveKeepsKnown ==
    ASSUME BalancerType, NEW t \in Types, NEW i \in DOMAIN groups[t],
           groups' = [groups EXCEPT ![t] = RemoveAt(groups[t], i)]
    PROVE  Known' \subseteq Known
<1>1. groups[t] \in Seq(Endpoints)
  BY DEF BalancerType
<1>2. Range(RemoveAt(groups[t], i)) \subseteq Range(groups[t])
  BY <1>1, GroupChanges
<1>3. \A u \in Types : groups'[u] = IF u = t THEN RemoveAt(groups[t], i) ELSE groups[u]
  BY DEF BalancerType
<1>4. \A u \in Types : Range(groups'[u]) \subseteq Range(groups[u])
  BY <1>2, <1>3
<1>5. Known' = UNION {Range(groups'[u]) : u \in Types}
  BY DEF Known
<1>6. QED BY <1>4, <1>5 DEF Known

LEMMA AddMakesKnown ==
    ASSUME BalancerType, NEW t \in Types, NEW e \in Endpoints,
           groups' = [groups EXCEPT ![t] = Append(groups[t], e)]
    PROVE  Known' = Known \cup {e}
<1>1. groups[t] \in Seq(Endpoints)
  BY DEF BalancerType
<1>2. Range(Append(groups[t], e)) = Range(groups[t]) \cup {e}
  BY <1>1, GroupChanges
<1>3. \A u \in Types : groups'[u] = IF u = t THEN Append(groups[t], e) ELSE groups[u]
  BY DEF BalancerType
<1>4. Range(groups'[t]) = Range(groups[t]) \cup {e}
  <2>1. groups'[t] = Append(groups[t], e)
    BY <1>3
  <2>2. QED BY <1>2, <2>1
<1>5. \A u \in Types \ {t} : Range(groups'[u]) = Range(groups[u])
  BY <1>3
<1>6. Known' = UNION {Range(groups'[u]) : u \in Types}
  BY DEF Known
<1>7. Known' \subseteq Known \cup {e}
  <2>1. ASSUME NEW u \in Types, NEW x \in Range(groups'[u])
        PROVE  x = e \/ x \in Range(groups[u])
    <3>1. CASE u = t
      BY <1>4, <2>1, <3>1
    <3>2. CASE u # t
      BY <1>5, <2>1, <3>2
    <3>3. QED BY <3>1, <3>2
  <2>2. QED BY <1>6, <2>1 DEF Known
<1>8. e \in Known'
  BY <1>4, <1>6
<1>9. Known \subseteq Known'
  <2>1. ASSUME NEW u \in Types, NEW x \in Range(groups[u])
        PROVE  x \in Range(groups'[u])
    <3>1. CASE u = t
      BY <1>4, <2>1, <3>1
    <3>2. CASE u # t
      BY <1>5, <2>1, <3>2
    <3>3. QED BY <3>1, <3>2
  <2>2. QED BY <1>6, <2>1 DEF Known
<1>10. QED BY <1>7, <1>8, <1>9

LEMMA SelectConnections ==
    ASSUME BalancerType, CallInv, NoLeakedConnections, NEW c \in Clients, Select(c)
    PROVE  NoLeakedConnections'
<1>1. PICK t \in Types, i \in Int, r \in Calls :
         /\ i \in Selected(t)
         /\ ClientMoves(c, r)
         /\ r.ep = {groups[t][i]} /\ r.counted
         /\ conns' = [conns EXCEPT ![groups[t][i]] = @ + 1]
  BY SelectMoves
<1> DEFINE g == groups[t][i]
<1>2. g \in Endpoints
  BY <1>1, SelectedProperties
<1>3. call'[c] = r /\ \A d \in Clients \ {c} : call'[d] = call[d]
  BY <1>1, MovesKeep
<1>4. ~ call[c].counted
  BY SelectMoves
<1>5. r.ep = {g} /\ r.counted /\ conns' = [conns EXCEPT ![g] = @ + 1]
  BY <1>1
<1> HIDE DEF g
<1>6. Known' = Known /\ brought' = brought
  BY DEF Select, Known
<1>7. ASSUME NEW e \in Known
      PROVE  conns'[e] \in 0..(brought'[e] + Cardinality(Counted(e)'))
  <2>1. e \in Endpoints /\ conns[e] \in 0..(brought[e] + Cardinality(Counted(e)))
    BY KnownEndpoints DEF NoLeakedConnections
  <2>6. brought'[e] = brought[e] /\ brought[e] \in Nat
    BY <1>6, <2>1 DEF BalancerType
  <2>2. IsFiniteSet(Counted(e)) /\ Cardinality(Counted(e)) \in Nat
    BY CountedFinite
  <2>3. CASE e = g
    <3>1. Counted(e)' = Counted(e) \cup {c} /\ c \notin Counted(e)
      BY <1>3, <1>4, <1>5, <2>3 DEF Counted
    <3>2. Cardinality(Counted(e)') = Cardinality(Counted(e)) + 1
      BY <2>2, <3>1, FS_AddElement
    <3>3. conns'[e] = conns[e] + 1
      BY <1>5, <2>1, <2>3 DEF BalancerType
    <3>4. QED BY <2>1, <2>2, <2>6, <3>2, <3>3
  <2>4. CASE e # g
    <3>1. Counted(e)' = Counted(e)
      BY <1>3, <1>4, <1>5, <2>4 DEF Counted
    <3>2. conns'[e] = conns[e]
      BY <1>5, <2>1, <2>4 DEF BalancerType
    <3>3. QED BY <2>1, <2>6, <3>1, <3>2
  <2>5. QED BY <2>3, <2>4
<1>8. QED BY <1>6, <1>7 DEF NoLeakedConnections

LEMMA ReleaseConnections ==
    ASSUME BalancerType, NoLeakedConnections, NEW c \in Clients, ReleaseEndpoint(c)
    PROVE  NoLeakedConnections'
<1>1. \A e \in Endpoints :
         conns'[e] = IF e \in call[c].ep \cap Known /\ conns[e] > 0
                     THEN conns[e] - 1 ELSE conns[e]
  BY DEF ReleaseEndpoint
<1>2. \A d \in Clients : call'[d] = IF d = c THEN Idle ELSE call[d]
  BY DEF ReleaseEndpoint, BalancerType
<1>3. Known' = Known /\ brought' = brought
  BY DEF ReleaseEndpoint, Known
<1>4. ASSUME NEW e \in Known
      PROVE  conns'[e] \in 0..(brought'[e] + Cardinality(Counted(e)'))
  <2>1. e \in Endpoints /\ conns[e] \in 0..(brought[e] + Cardinality(Counted(e)))
    BY KnownEndpoints DEF NoLeakedConnections
  <2>7. brought'[e] = brought[e] /\ brought[e] \in Nat
    BY <1>3, <2>1 DEF BalancerType
  <2>2. IsFiniteSet(Counted(e)) /\ Cardinality(Counted(e)) \in Nat
    BY CountedFinite
  <2>3. Counted(e)' = Counted(e) \ {c}
    BY <1>2 DEF Counted, Idle
  <2>4. CASE c \in Counted(e)
    <3>1. Cardinality(Counted(e)') = Cardinality(Counted(e)) - 1
      BY <2>2, <2>3, <2>4, FS_RemoveElement
    <3>2. e \in call[c].ep \cap Known
      BY <2>4 DEF Counted
    <3>3. conns'[e] = IF conns[e] > 0 THEN conns[e] - 1 ELSE conns[e]
      BY <1>1, <2>1, <3>2
    <3>4. Cardinality(Counted(e)) # 0
      BY <2>2, <2>4, FS_EmptySet
    <3>5. QED BY <2>1, <2>2, <2>7, <3>1, <3>3, <3>4
  <2>5. CASE c \notin Counted(e)
    <3>1. Counted(e)' = Counted(e)
      BY <2>3, <2>5
    <3>2. conns'[e] = conns[e] \/ (conns[e] > 0 /\ conns'[e] = conns[e] - 1)
      BY <1>1, <2>1
    <3>3. QED BY <2>1, <2>2, <2>7, <3>1, <3>2
  <2>6. QED BY <2>4, <2>5
<1>5. QED BY <1>3, <1>4 DEF NoLeakedConnections

\* An added endpoint has what it brings, whoever held one with its identifier
\* before.
LEMMA AddConnections ==
    ASSUME BalancerType, CallInv, NoLeakedConnections, NEW e \in Endpoints,
           NEW t \in Types, NEW st \in Statuses, NEW n \in Presets,
           AddEndpoint(e, t, st, n)
    PROVE  NoLeakedConnections'
<1>1. /\ groups' = [groups EXCEPT ![t] = Append(groups[t], e)]
      /\ conns' = [conns EXCEPT ![e] = n] /\ brought' = [brought EXCEPT ![e] = n]
  BY DEF AddEndpoint
<1>2. Known' = Known \cup {e}
  BY <1>1, AddMakesKnown
<1>3. ASSUME NEW d \in Endpoints
      PROVE  /\ Cardinality(Counted(d)') \in Nat
             /\ d # e => Cardinality(Counted(d)') = Cardinality(Counted(d))
  <2>1. Counted(d)' = {c \in Counted(d) : e \notin call[c].ep}
    BY AddCalls DEF Counted
  <2>2. Cardinality({c \in Counted(d) : e \notin call[c].ep}) \in Nat
    BY CountedFinite, FS_Subset, FS_CardinalityType
  <2>3. ASSUME d # e PROVE Counted(d)' = Counted(d)
    <3>1. \A c \in Counted(d) : e \notin call[c].ep
      BY <2>3 DEF Counted, CallInv
    <3>2. QED BY <2>1, <3>1
  <2>4. QED BY <2>1, <2>2, <2>3
<1>4. ASSUME NEW d \in Known'
      PROVE  conns'[d] \in 0..(brought'[d] + Cardinality(Counted(d)'))
  <2>1. d \in Endpoints /\ n \in Nat
    BY <1>2, KnownEndpoints, PresetsAreCounts
  <2>2. Cardinality(Counted(d)') \in Nat
    BY <1>3, <2>1
  <2>3. CASE d = e
    <3>1. conns'[d] = n /\ brought'[d] = n
      BY <1>1, <2>1, <2>3 DEF BalancerType
    <3>2. QED BY <2>1, <2>2, <3>1
  <2>4. CASE d # e
    <3>1. conns'[d] = conns[d] /\ brought'[d] = brought[d]
      BY <1>1, <2>1, <2>4 DEF BalancerType
    <3>2. conns[d] \in 0..(brought[d] + Cardinality(Counted(d)))
      BY <1>2, <2>4 DEF NoLeakedConnections
    <3>3. Cardinality(Counted(d)') = Cardinality(Counted(d))
      BY <1>3, <2>1, <2>4
    <3>4. QED BY <3>1, <3>2, <3>3
  <2>5. QED BY <2>3, <2>4
<1>5. QED BY <1>4 DEF NoLeakedConnections

LEMMA StepConnections ==
    BalancerType /\ CallInv /\ NoLeakedConnections /\ [LBNext]_LBvars
        => NoLeakedConnections'
<1> SUFFICES ASSUME BalancerType, CallInv, NoLeakedConnections, [LBNext]_LBvars
             PROVE  NoLeakedConnections'
  OBVIOUS
<1> USE DEF endpointVars
<1>1. groups' = groups => Known' \subseteq Known
  BY DEF Known
<1>2. call' = call => \A e \in Endpoints : Counted(e)' = Counted(e)
  BY SameCounts
<1>3. ASSUME NEW e \in Endpoints, RemoveEndpoint(e) PROVE NoLeakedConnections'
  <2>1. PICK t \in Types : \E i \in DOMAIN groups[t] :
           groups' = [groups EXCEPT ![t] = RemoveAt(groups[t], i)]
    BY <1>3 DEF RemoveEndpoint
  <2>2. Known' \subseteq Known
    BY <2>1, RemoveKeepsKnown
  <2>3. QED BY <1>2, <1>3, <2>2, ConnectionsKept DEF RemoveEndpoint
<1>4. ASSUME NEW e \in Endpoints, checkEndpointHealth(e) PROVE NoLeakedConnections'
  BY <1>1, <1>2, <1>4, ConnectionsKept DEF checkEndpointHealth
<1>5. ASSUME NEW e \in Endpoints, NEW st \in Statuses, UpdateEndpointStatus(e, st)
      PROVE  NoLeakedConnections'
  BY <1>1, <1>2, <1>5, ConnectionsKept DEF UpdateEndpointStatus
<1>6. ASSUME NEW e \in Endpoints, NEW st \in Statuses, NEW t \in Types,
             NEW n \in Presets, AddEndpoint(e, t, st, n)
      PROVE  NoLeakedConnections'
  BY <1>6, AddConnections
<1>7. CASE performHealthChecks
  BY <1>1, <1>2, <1>7, ConnectionsKept DEF performHealthChecks
<1>8. CASE ClearSessions
  BY <1>1, <1>2, <1>8, ConnectionsKept DEF ClearSessions
<1>9. ASSUME NEW c \in Clients, getSessionEndpoint(c) PROVE NoLeakedConnections'
  <2>1. PICK r \in Calls : ClientMoves(c, r) /\ ~ r.counted
    BY <1>9, SessionMoves
  <2>2. \A e \in Endpoints : Counted(e)' = Counted(e)
    BY <1>9, <2>1, SessionMoves, CallCounts
  <2>3. QED BY <1>1, <1>9, <2>2, ConnectionsKept DEF getSessionEndpoint
<1>10. ASSUME NEW c \in Clients, Select(c) PROVE NoLeakedConnections'
  BY <1>10, SelectConnections
<1>11. ASSUME NEW c \in Clients, SelectFails(c) PROVE NoLeakedConnections'
  <2>1. ~ call[c].counted
    BY <1>11 DEF SelectFails, CallInv
  <2>2. ClientMoves(c, Idle) /\ Idle \in Calls /\ ~ Idle.counted
    BY <1>11, IdleMoves DEF SelectFails
  <2>3. \A e \in Endpoints : Counted(e)' = Counted(e)
    BY <2>1, <2>2, CallCounts
  <2>4. QED BY <1>1, <1>11, <2>3, ConnectionsKept DEF SelectFails
<1>12. ASSUME NEW c \in Clients, saveSession(c) PROVE NoLeakedConnections'
  <2>1. PICK r \in Calls : /\ ClientMoves(c, r)
                           /\ r.ep = call[c].ep /\ r.counted = call[c].counted
    BY <1>12, SaveMoves
  <2>2. call'[c] = r /\ \A d \in Clients \ {c} : call'[d] = call[d]
    BY <2>1, MovesKeep
  <2>3. \A e \in Endpoints : Counted(e)' = Counted(e)
    BY <2>1, <2>2, SameCounts
  <2>4. QED BY <1>1, <1>12, <2>3, ConnectionsKept DEF saveSession
<1>13. ASSUME NEW c \in Clients, ReleaseEndpoint(c) PROVE NoLeakedConnections'
  BY <1>13, ReleaseConnections
<1>14. ASSUME NEW c \in Clients, NEW t \in Types,
              NEW s \in {{}} \cup {{x} : x \in SessionIDs}, GetEndpoint(c, s, t)
       PROVE  NoLeakedConnections'
  <2>1. PICK r \in Calls : ClientMoves(c, r) /\ ~ r.counted
    BY <1>14, GetEndpointMoves
  <2>2. \A e \in Endpoints : Counted(e)' = Counted(e)
    BY <1>14, <2>1, GetEndpointMoves, CallCounts
  <2>3. QED BY <1>1, <1>14, <2>2, ConnectionsKept DEF GetEndpoint
<1>15. CASE UNCHANGED LBvars
  BY <1>1, <1>2, <1>15, ConnectionsKept DEF LBvars
<1>16. QED
  BY <1>3, <1>4, <1>5, <1>6, <1>7, <1>8, <1>9, <1>10, <1>11, <1>12, <1>13, <1>14,
     <1>15 DEF LBNext, ClientStep

-----------------------------------------------------------------------------
(* LoadBalancer: what is handed out. *)

\* Whoever has an endpoint after a step that it did not have before has a known
\* and healthy one.
Serves ==
    \A c \in Clients : \A e \in call'[c].ep \ call[c].ep : e \in Known /\ Healthy(e)

\* A client that moves is given healthy endpoints only, or keeps what it has.
LEMMA MoveServes ==
    ASSUME BalancerType, CallInv, NEW c \in Clients, NEW r \in Calls, ClientMoves(c, r),
           \A e \in r.ep \ call[c].ep : e \in Known /\ Healthy(e)
    PROVE  Serves
<1>1. call'[c] = r /\ \A d \in Clients \ {c} : call'[d] = call[d]
  BY MovesKeep
<1>2. QED BY <1>1 DEF Serves

LEMMA StepServes == BalancerType /\ CallInv /\ [LBNext]_LBvars => Serves
<1> SUFFICES ASSUME BalancerType, CallInv, [LBNext]_LBvars PROVE Serves
  OBVIOUS
<1>1. call' = call => Serves
  BY DEF Serves
<1>2. ASSUME NEW c \in Clients, getSessionEndpoint(c) PROVE Serves
  <2>1. PICK r \in Calls : ClientMoves(c, r) /\ \A e \in r.ep : e \in Known /\ Healthy(e)
    BY <1>2, SessionMoves
  <2>2. QED BY <2>1, MoveServes
<1>3. ASSUME NEW c \in Clients, Select(c) PROVE Serves
  <2>1. PICK t \in Types, i \in Int, r \in Calls :
           i \in Selected(t) /\ ClientMoves(c, r) /\ r.ep = {groups[t][i]}
    BY <1>3, SelectMoves
  <2>2. \A e \in r.ep : e \in Known /\ Healthy(e)
    BY <2>1, SelectedProperties
  <2>3. QED BY <2>1, <2>2, MoveServes
<1>4. ASSUME NEW c \in Clients, saveSession(c) PROVE Serves
  <2>1. PICK r \in Calls : ClientMoves(c, r) /\ r.ep = call[c].ep
    BY <1>4, SaveMoves
  <2>2. QED BY <2>1, MoveServes
<1>5. ASSUME NEW c \in Clients, SelectFails(c) \/ ReleaseEndpoint(c) PROVE Serves
  <2>1. call' = [call EXCEPT ![c] = Idle]
    BY <1>5 DEF SelectFails, ReleaseEndpoint
  <2>2. QED BY <2>1, IdleMoves, MoveServes
<1>6. ASSUME NEW c \in Clients, NEW t \in Types,
             NEW s \in {{}} \cup {{x} : x \in SessionIDs}, GetEndpoint(c, s, t)
      PROVE  Serves
  <2>1. PICK r \in Calls : ClientMoves(c, r) /\ r.ep = {}
    BY <1>6, GetEndpointMoves
  <2>2. QED BY <2>1, MoveServes
<1>7. ASSUME NEW e \in Endpoints, NEW st \in Statuses, NEW t \in Types,
             NEW n \in Presets, AddEndpoint(e, t, st, n)
      PROVE  Serves
  BY <1>7, AddCalls DEF Serves
<1>8. CASE performHealthChecks
  BY <1>1, <1>8 DEF performHealthChecks
<1>9. CASE ClearSessions
  BY <1>1, <1>9 DEF ClearSessions
<1>10. CASE UNCHANGED LBvars
  BY <1>1, <1>10 DEF LBvars
<1>11. ASSUME NEW e \in Endpoints, RemoveEndpoint(e) PROVE Serves
  BY <1>1, <1>11 DEF RemoveEndpoint
<1>12. ASSUME NEW e \in Endpoints, checkEndpointHealth(e) PROVE Serves
  BY <1>1, <1>12 DEF checkEndpointHealth
<1>13. ASSUME NEW e \in Endpoints, NEW st \in Statuses, UpdateEndpointStatus(e, st)
       PROVE  Serves
  BY <1>1, <1>13 DEF UpdateEndpointStatus
<1>14. QED
  BY <1>2, <1>3, <1>4, <1>5, <1>6, <1>7, <1>8, <1>9, <1>10, <1>11, <1>12, <1>13
     DEF LBNext, ClientStep

-----------------------------------------------------------------------------
(* LoadBalancer: rounds. *)

\* The indices of a round that went from a up to c, past the end or not.
Arc(a, c, k) == IF a < c THEN a <= k /\ k < c ELSE a <= k \/ k < c

\* The round of a type began at index a and is not over: it has served the
\* endpoints from there up to the current index, and no other.
RoundFrom(t, a) ==
    LET n == Cardinality(getHealthyEndpoints(t))
        c == currentIndex[t]
    IN  /\ a \in 0..(n - 1) /\ c \in 0..(n - 1) /\ a # c
        /\ \A i \in getHealthyEndpoints(t) :
              groups[t][i] \in round[t] <=> Arc(a, c, Index(t, i))

RoundInv ==
    /\ \A t \in Types : IsInjective(groups[t])
    /\ InTurn => \A t \in Types : round[t] = {} \/ \E a \in Int : RoundFrom(t, a)

\* The arc grows by the current index; it is full when it comes round to a.
LEMMA ArcGrows ==
    ASSUME NEW n \in Nat \ {0}, NEW a \in 0..(n - 1), NEW c \in 0..(n - 1), a # c,
           NEW d \in 0..(n - 1), d = IF c + 1 = n THEN 0 ELSE c + 1,
           NEW k \in 0..(n - 1)
    PROVE  /\ ~ Arc(a, c, c)
           /\ a # d => (Arc(a, d, k) <=> Arc(a, c, k) \/ k = c)
           /\ a = d => Arc(a, c, k) \/ k = c
  BY DEF Arc

\* A round of one endpoint.
LEMMA ArcStarts ==
    ASSUME NEW n \in Nat \ {0}, NEW c \in 0..(n - 1),
           NEW d \in 0..(n - 1), d = IF c + 1 = n THEN 0 ELSE c + 1,
           NEW k \in 0..(n - 1), c # d
    PROVE  Arc(c, d, k) <=> k = c
  BY DEF Arc

\* What round-robin selects has not been served in this round.
LEMMA NotServedYet ==
    ASSUME BalancerType, RoundInv, InTurn, NEW t \in Types, NEW i \in Selected(t)
    PROVE  groups[t][i] \notin round[t]
<1> DEFINE n == Cardinality(getHealthyEndpoints(t))
           c == currentIndex[t]
<1>1. CASE round[t] = {}
  BY <1>1
<1>2. ASSUME NEW a \in Int, RoundFrom(t, a) PROVE groups[t][i] \notin round[t]
  <2>1. /\ a \in 0..(n - 1) /\ c \in 0..(n - 1) /\ a # c
        /\ groups[t][i] \in round[t] <=> Arc(a, c, Index(t, i))
    BY <1>2, SelectedProperties DEF RoundFrom
  <2>2. n \in Nat \ {0} /\ Index(t, i) = c % n
    BY NextIndexType, SelectedProperties
  <2> HIDE DEF n, c
  <2>3. c % n = c
    <3>1. c \in Nat /\ c < n
      BY <2>1, <2>2
    <3>2. QED BY <2>2, <3>1, NextIndex
  <2>4. ~ Arc(a, c, c)
    BY <2>1 DEF Arc
  <2>5. QED BY <2>1, <2>2, <2>3, <2>4
<1>3. QED BY <1>1, <1>2 DEF RoundInv

\* A selection goes one further in its round, or ends it.
LEMMA RoundGrows ==
    ASSUME BalancerType, RoundInv, InTurn, NEW t \in Types, NEW i \in Selected(t),
           round' = Serve(t, groups[t][i]), currentIndex' = roundRobinNext(t),
           groups' = groups, status' = status
    PROVE  round'[t] = {} \/ \E a \in Int : RoundFrom(t, a)'
<1> DEFINE H == getHealthyEndpoints(t)
           n == Cardinality(H)
           c == currentIndex[t]
           e == groups[t][i]
           k == Index(t, i)
           d == currentIndex'[t]
<1>1. /\ n \in Nat \ {0} /\ i \in H
      /\ \A j \in H : Index(t, j) \in 0..(n - 1)
      /\ \A j, l \in H : Index(t, j) = Index(t, l) => j = l
  BY SelectedProperties, IndexProperties, NextIndexType
<1>2. k = c % n /\ d = (c + 1) % n /\ c \in Nat
  BY SelectedProperties, NextIndexType DEF BalancerType
<1>3. ASSUME NEW j \in H PROVE groups[t][j] = e <=> Index(t, j) = k
  <2>1. \A x, y \in DOMAIN groups[t] : groups[t][x] = groups[t][y] => x = y
    BY DEF RoundInv, IsInjective
  <2>2. j \in DOMAIN groups[t] /\ i \in DOMAIN groups[t]
    BY <1>1 DEF getHealthyEndpoints
  <2>3. QED BY <1>1, <2>1, <2>2
<1>4. round'[t] = IF \A j \in H : groups[t][j] \in round[t] \cup {e}
                  THEN {} ELSE round[t] \cup {e}
  BY DEF Serve, BalancerType
<1>5. /\ getHealthyEndpoints(t)' = H
      /\ \A j : Index(t, j)' = Index(t, j)
  BY DEF getHealthyEndpoints, Index, Healthy
<1>6. ASSUME NEW a \in 0..(n - 1), d \in 0..(n - 1), a # d,
             \A j \in H : groups[t][j] \in round'[t] <=> Arc(a, d, Index(t, j))
      PROVE  \E b \in Int : RoundFrom(t, b)'
  <2>1. RoundFrom(t, a)'
    BY <1>5, <1>6 DEF RoundFrom
  <2>2. QED BY <1>1, <2>1
<1> HIDE DEF H, n, c, e, k, d
<1>7. /\ k \in 0..(n - 1) /\ d \in 0..(n - 1)
      /\ d = IF k + 1 = n THEN 0 ELSE k + 1
      /\ c < n => c = k
  <2>1. /\ c % n \in 0..(n - 1)
        /\ (c + 1) % n = IF (c % n) + 1 = n THEN 0 ELSE (c % n) + 1
        /\ c < n => c % n = c
    BY <1>1, <1>2, NextIndex
  <2>2. QED BY <1>1, <1>2, <2>1
<1>8. CASE \A j \in H : groups[t][j] \in round[t] \cup {e}
  BY <1>4, <1>8
<1>9. ASSUME NEW j \in H, groups[t][j] \notin round[t] \cup {e}
      PROVE  \E a \in Int : RoundFrom(t, a)'
  <2>1. round'[t] = round[t] \cup {e}
    BY <1>4, <1>9
  <2>2. Index(t, j) \in 0..(n - 1) /\ Index(t, j) # k
    BY <1>1, <1>3, <1>9
  <2>3. CASE round[t] = {}
    <3>1. k # d
      BY <1>1, <1>7, <2>2
    <3>2. \A l \in H : groups[t][l] \in round'[t] <=> Arc(k, d, Index(t, l))
      BY <1>1, <1>3, <1>7, <2>1, <2>3, <3>1, ArcStarts
    <3>3. QED BY <1>6, <1>7, <3>1, <3>2
  <2>4. ASSUME NEW a \in Int, RoundFrom(t, a) PROVE \E b \in Int : RoundFrom(t, b)'
    <3>1. /\ a \in 0..(n - 1) /\ c \in 0..(n - 1) /\ a # c
          /\ \A l \in H : groups[t][l] \in round[t] <=> Arc(a, c, Index(t, l))
      BY <2>4 DEF RoundFrom, H, n, c
    <3>2. c = k
      BY <1>1, <1>7, <3>1
    <3>3. a # d
      <4>1. ~ Arc(a, k, Index(t, j)) /\ a # k
        BY <1>9, <3>1, <3>2
      <4>2. QED BY <1>1, <1>7, <2>2, <3>1, <4>1, ArcGrows
    <3>4. ASSUME NEW l \in H
          PROVE  groups[t][l] \in round'[t] <=> Arc(a, d, Index(t, l))
      <4>1. Index(t, l) \in 0..(n - 1) /\ a # k
        BY <1>1, <3>1, <3>2
      <4>2. Arc(a, d, Index(t, l)) <=> Arc(a, k, Index(t, l)) \/ Index(t, l) = k
        BY <1>1, <1>7, <3>1, <3>3, <4>1, ArcGrows
      <4>3. QED BY <1>3, <2>1, <3>1, <3>2, <4>2
    <3>5. QED BY <1>6, <1>7, <3>1, <3>3, <3>4
  <2>5. QED BY <2>3, <2>4 DEF RoundInv
<1>10. QED BY <1>8, <1>9

LEMMA SelectKeepsRounds ==
    ASSUME BalancerType, CallInv, RoundInv, NEW c \in Clients, Select(c)
    PROVE  RoundInv'
<1>1. PICK t \in Types, i \in Int, r \in Calls :
         /\ t \in call[c].t /\ i \in Selected(t)
         /\ round' = Serve(t, groups[t][i])
         /\ currentIndex' = IF InTurn THEN roundRobinNext(t) ELSE currentIndex
  BY SelectMoves
<1>2. groups' = groups /\ status' = status /\ strategy' = strategy
  BY DEF Select
<1>3. \A u \in Types : IsInjective(groups'[u])
  BY <1>2 DEF RoundInv
<1>4. ASSUME InTurn, NEW u \in Types
      PROVE  round'[u] = {} \/ \E a \in Int : RoundFrom(u, a)'
  <2>1. CASE u = t
    BY <1>1, <1>2, <1>4, <2>1, RoundGrows
  <2>2. CASE u # t
    <3>1. round'[u] = round[u]
      BY <1>1, <2>2 DEF Serve, BalancerType
    <3>2. currentIndex'[u] = currentIndex[u]
      BY <1>1, <1>4, <2>2, NextIndexType
    <3>3. \A a \in Int : RoundFrom(u, a) => RoundFrom(u, a)'
      BY <1>2, <3>1, <3>2 DEF RoundFrom, getHealthyEndpoints, Index, Healthy
    <3>4. QED BY <1>4, <3>1, <3>3 DEF RoundInv
  <2>3. QED BY <2>1, <2>2
<1>5. InTurn' <=> InTurn
  BY <1>2 DEF InTurn
<1>6. QED BY <1>3, <1>4, <1>5 DEF RoundInv

LEMMA StepRounds ==
    BalancerType /\ CallInv /\ RoundInv /\ [LBNext]_LBvars => RoundInv'
<1> SUFFICES ASSUME BalancerType, CallInv, RoundInv, [LBNext]_LBvars
             PROVE  RoundInv'
  OBVIOUS
<1> USE DEF endpointVars
<1>1. ASSUME UNCHANGED <<strategy, groups, status, currentIndex, round>>
      PROVE  RoundInv'
  <2>1. \A t \in Types, a \in Int : RoundFrom(t, a) => RoundFrom(t, a)'
    BY <1>1 DEF RoundFrom, getHealthyEndpoints, Index, Healthy
  <2>2. (InTurn' <=> InTurn) /\ round' = round /\ groups' = groups
    BY <1>1 DEF InTurn
  <2>3. QED BY <2>1, <2>2 DEF RoundInv
<1>2. ASSUME NewRound, \A t \in Types : IsInjective(groups'[t]) PROVE RoundInv'
  BY <1>2 DEF NewRound, RoundInv
<1>3. groups' = groups => \A t \in Types : IsInjective(groups'[t])
  BY DEF RoundInv
<1>4. ASSUME NEW e \in Endpoints, RemoveEndpoint(e) PROVE RoundInv'
  <2>1. PICK t \in Types : \E i \in DOMAIN groups[t] :
           groups' = [groups EXCEPT ![t] = RemoveAt(groups[t], i)]
    BY <1>4 DEF RemoveEndpoint
  <2>2. PICK i \in DOMAIN groups[t] :
           groups' = [groups EXCEPT ![t] = RemoveAt(groups[t], i)]
    BY <2>1
  <2>3. groups[t] \in Seq(Endpoints) /\ IsInjective(groups[t])
    BY DEF BalancerType, RoundInv
  <2>4. IsInjective(RemoveAt(groups[t], i))
    BY <2>3, GroupChanges
  <2>5. ASSUME NEW u \in Types PROVE IsInjective(groups'[u])
    <3>1. groups'[u] = IF u = t THEN RemoveAt(groups[t], i) ELSE groups[u]
      BY <2>2 DEF BalancerType
    <3>2. QED BY <2>4, <3>1 DEF RoundInv
  <2>6. QED BY <1>2, <1>4, <2>5 DEF RemoveEndpoint
<1>5. ASSUME NEW e \in Endpoints, NEW st \in Statuses, NEW t \in Types,
             NEW n \in Presets, AddEndpoint(e, t, st, n)
      PROVE  RoundInv'
  <2>1. groups' = [groups EXCEPT ![t] = Append(groups[t], e)] /\ e \notin Known
    BY <1>5 DEF AddEndpoint
  <2>2. groups[t] \in Seq(Endpoints) /\ IsInjective(groups[t])
    BY DEF BalancerType, RoundInv
  <2>3. e \notin Range(groups[t])
    BY <2>1 DEF Known
  <2>4. IsInjective(Append(groups[t], e))
    BY <2>2, <2>3, GroupChanges
  <2>5. ASSUME NEW u \in Types PROVE IsInjective(groups'[u])
    <3>1. groups'[u] = IF u = t THEN Append(groups[t], e) ELSE groups[u]
      BY <2>1 DEF BalancerType
    <3>2. QED BY <2>4, <3>1 DEF RoundInv
  <2>6. QED BY <1>2, <1>5, <2>5 DEF AddEndpoint
<1>6. ASSUME NEW e \in Endpoints, checkEndpointHealth(e) PROVE RoundInv'
  BY <1>1, <1>2, <1>3, <1>6 DEF checkEndpointHealth
<1>7. ASSUME NEW e \in Endpoints, NEW st \in Statuses, UpdateEndpointStatus(e, st)
      PROVE  RoundInv'
  BY <1>2, <1>3, <1>7 DEF UpdateEndpointStatus
<1>8. CASE performHealthChecks
  BY <1>1, <1>8 DEF performHealthChecks
<1>9. CASE ClearSessions
  BY <1>1, <1>9 DEF ClearSessions
<1>10. ASSUME NEW c \in Clients, Select(c) PROVE RoundInv'
  BY <1>10, SelectKeepsRounds
<1>11. ASSUME NEW c \in Clients, getSessionEndpoint(c) PROVE RoundInv'
  BY <1>1, <1>11 DEF getSessionEndpoint
<1>12. ASSUME NEW c \in Clients, SelectFails(c) PROVE RoundInv'
  BY <1>1, <1>12 DEF SelectFails
<1>13. ASSUME NEW c \in Clients, saveSession(c) PROVE RoundInv'
  BY <1>1, <1>13 DEF saveSession
<1>14. ASSUME NEW c \in Clients, ReleaseEndpoint(c) PROVE RoundInv'
  BY <1>1, <1>14 DEF ReleaseEndpoint
<1>15. ASSUME NEW c \in Clients, NEW t \in Types,
              NEW s \in {{}} \cup {{x} : x \in SessionIDs}, GetEndpoint(c, s, t)
       PROVE  RoundInv'
  BY <1>1, <1>15 DEF GetEndpoint
<1>16. CASE UNCHANGED LBvars
  BY <1>1, <1>16 DEF LBvars
<1>17. QED
  BY <1>4, <1>5, <1>6, <1>7, <1>8, <1>9, <1>10, <1>11, <1>12, <1>13, <1>14, <1>15,
     <1>16 DEF LBNext, ClientStep

\* A client that is selecting is not given an endpoint served in this round.
Even ==
    \A c \in Clients : \A t \in call[c].t :
        InTurn /\ call[c].pc = "select" => call'[c].ep \cap round[t] = {}

LEMMA MoveIsEven ==
    ASSUME BalancerType, CallInv, NEW c \in Clients, NEW r \in Calls, ClientMoves(c, r),
           call[c].pc = "select" => r.ep = {}
    PROVE  Even
<1>1. call'[c] = r /\ \A d \in Clients \ {c} : call'[d] = call[d]
  BY MovesKeep
<1>2. \A d \in Clients : call[d].pc = "select" => call'[d].ep = {}
  BY <1>1 DEF CallInv
<1>3. QED BY <1>2 DEF Even

LEMMA StepEven == BalancerType /\ CallInv /\ RoundInv /\ [LBNext]_LBvars => Even
<1> SUFFICES ASSUME BalancerType, CallInv, RoundInv, [LBNext]_LBvars PROVE Even
  OBVIOUS
<1>1. ASSUME call' = call PROVE Even
  <2>1. \A d \in Clients : call[d].pc = "select" => call'[d].ep = {}
    BY <1>1 DEF CallInv
  <2>2. QED BY <2>1 DEF Even
<1>2. ASSUME NEW c \in Clients, getSessionEndpoint(c) PROVE Even
  <2>1. PICK r \in Calls : ClientMoves(c, r)
    BY <1>2, SessionMoves
  <2>2. call[c].pc = "lookup"
    BY <1>2 DEF getSessionEndpoint
  <2>3. QED BY <2>1, <2>2, MoveIsEven
<1>3. ASSUME NEW c \in Clients, Select(c) PROVE Even
  <2>1. PICK t \in Types, i \in Int, r \in Calls :
           /\ t \in call[c].t /\ i \in Selected(t)
           /\ ClientMoves(c, r) /\ r.ep = {groups[t][i]}
    BY <1>3, SelectMoves
  <2>2. call'[c] = r /\ \A d \in Clients \ {c} : call'[d] = call[d]
    BY <2>1, MovesKeep
  <2>3. InTurn => groups[t][i] \notin round[t]
    BY <2>1, NotServedYet
  <2>4. ASSUME NEW d \in Clients, NEW u \in call[d].t, InTurn, call[d].pc = "select"
        PROVE  call'[d].ep \cap round[u] = {}
    <3>1. CASE d = c
      <4>1. u = t
        BY <2>1, <2>4, <3>1 DEF CallInv
      <4>2. QED BY <2>1, <2>2, <2>3, <2>4, <3>1, <4>1
    <3>2. CASE d # c
      BY <2>2, <2>4, <3>2 DEF CallInv
    <3>3. QED BY <3>1, <3>2
  <2>5. QED BY <2>4 DEF Even
<1>4. ASSUME NEW c \in Clients, saveSession(c) PROVE Even
  <2>1. PICK r \in Calls : ClientMoves(c, r)
    BY <1>4, SaveMoves
  <2>2. call[c].pc = "save"
    BY <1>4 DEF saveSession
  <2>3. QED BY <2>1, <2>2, MoveIsEven
<1>5. ASSUME NEW c \in Clients, SelectFails(c) PROVE Even
  BY <1>5, IdleMoves, MoveIsEven DEF SelectFails
<1>6. ASSUME NEW c \in Clients, ReleaseEndpoint(c) PROVE Even
  BY <1>6, IdleMoves, MoveIsEven DEF ReleaseEndpoint
<1>7. ASSUME NEW c \in Clients, NEW t \in Types,
             NEW s \in {{}} \cup {{x} : x \in SessionIDs}, GetEndpoint(c, s, t)
      PROVE  Even
  <2>1. PICK r \in Calls : ClientMoves(c, r) /\ r.ep = {}
    BY <1>7, GetEndpointMoves
  <2>2. QED BY <2>1, MoveIsEven
<1>8. ASSUME NEW e \in Endpoints, NEW st \in Statuses, NEW t \in Types,
             NEW n \in Presets, AddEndpoint(e, t, st, n)
      PROVE  Even
  <2>1. \A d \in Clients : call[d].pc = "select" => call'[d].ep = {}
    BY <1>8, AddCalls DEF CallInv
  <2>2. QED BY <2>1 DEF Even
<1>9. ASSUME NEW e \in Endpoints, RemoveEndpoint(e) PROVE Even
  BY <1>1, <1>9 DEF RemoveEndpoint
<1>10. ASSUME NEW e \in Endpoints, checkEndpointHealth(e) PROVE Even
  BY <1>1, <1>10 DEF checkEndpointHealth
<1>11. ASSUME NEW e \in Endpoints, NEW st \in Statuses, UpdateEndpointStatus(e, st)
       PROVE  Even
  BY <1>1, <1>11 DEF UpdateEndpointStatus
<1>12. CASE performHealthChecks
  BY <1>1, <1>12 DEF performHealthChecks
<1>13. CASE ClearSessions
  BY <1>1, <1>13 DEF ClearSessions
<1>14. CASE UNCHANGED LBvars
  BY <1>1, <1>14 DEF LBvars
<1>15. QED
  BY <1>2, <1>3, <1>4, <1>5, <1>6, <1>7, <1>8, <1>9, <1>10, <1>11, <1>12, <1>13,
     <1>14 DEF LBNext, ClientStep

-----------------------------------------------------------------------------
(* LoadBalancer: theorems. *)

BalancerInv == BalancerType /\ CallInv /\ NoLeakedConnections /\ RoundInv

LEMMA BalancerInvariant == LBSpec => []BalancerInv
<1>1. LBInit => BalancerInv
  <2> SUFFICES ASSUME LBInit PROVE BalancerInv
    OBVIOUS
  <2>1. Range(<<>>) = {} /\ IsInjective(<<>>)
    BY DEF Range, IsInjective
  <2>2. Known = {}
    BY <2>1 DEF LBInit, Known
  <2>3. RoundInv
    BY <2>1 DEF LBInit, RoundInv
  <2>4. QED BY <2>2, <2>3, InitBalancer DEF BalancerInv, NoLeakedConnections
<1>2. BalancerInv /\ [LBNext]_LBvars => BalancerInv'
  BY StepBalancer, StepConnections, StepRounds DEF BalancerInv
<1>3. QED BY <1>1, <1>2, PTL DEF LBSpec

(* Connections of a known endpoint never exceeds what AddEndpoint was given *)
(* and the clients that count one to it since: GetEndpoint and             *)
(* ReleaseEndpoint balance, for every client, session, strategy, preset    *)
(* count and order of additions and removals.                              *)
THEOREM NoConnectionLeaked == LBSpec => []NoLeakedConnections
<1>1. BalancerInv => NoLeakedConnections
  BY DEF BalancerInv
<1>2. QED BY <1>1, BalancerInvariant, PTL

(* Whatever getSessionEndpoint and the strategies hand out is known and    *)
(* healthy at that moment.                                                 *)
THEOREM OnlyHealthyServed == LBSpec => ServedIsHealthy
<1>1. BalancerInv /\ [LBNext]_LBvars
      => [\A c \in Clients : \A e \in call'[c].ep \ call[c].ep :
             e \in Known /\ Healthy(e)]_LBvars
  BY StepServes DEF BalancerInv, Serves
<1>2. QED BY <1>1, BalancerInvariant, PTL DEF LBSpec, ServedIsHealthy

(* While endpoints and their status stay as they are, round-robin serves   *)
(* every healthy endpoint of a type once before it serves one again, for   *)
(* any number of them and from any index left behind in currentIndex.      *)
THEOREM RoundsAreEven == LBSpec => RoundRobinIsEven
<1>1. BalancerInv /\ [LBNext]_LBvars
      => [\A c \in Clients : \A t \in call[c].t :
             (InTurn /\ call[c].pc = "select") => call'[c].ep \cap round[t] = {}]_LBvars
  BY StepEven DEF BalancerInv, Even
<1>2. QED BY <1>1, BalancerInvariant, PTL DEF LBSpec, RoundRobinIsEven
=============================================================================
