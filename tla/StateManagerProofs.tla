------------------------- MODULE StateManagerProofs -------------------------
(***************************************************************************)
(* Proofs about StateManager, for any conversations, clients and           *)
(* processes, any finite set of messages and any number of calls.          *)
(***************************************************************************)
EXTENDS StateManager, FiniteSetTheorems, TLAPS

USE DEF stores, histories

-----------------------------------------------------------------------------
(* Types, and what the place of a call says about it. *)

Phases == {"none", "create", "lookup", "redis", "select", "fill", "fillBoth",
           "fillRedis", "insert", "write", "dropCache", "dropRedis"}
Calls == [op : Ops \cup {"none"}, at : Phases, conv : SUBSET Convs,
          msg : SUBSET Msgs, val : SUBSET Conversation]
Reasons == {"late fill", "other process", "redis error", "restart", "reply lost"}

\* Only updates write and invalidate; AddMessage counts from a copy it has.
PhaseOK(r) ==
    /\ r.at = "create" => r.op = "create"
    /\ r.at \in {"write", "dropCache", "dropRedis"}
          => r.op \in {"add", "archive", "delete"}
    /\ r.at = "insert" => r.op = "add"
    /\ r.op = "add" /\ r.at \in {"insert", "write"} => r.val # {}

\* The types of the variables.
TypeOK ==
    /\ db \in [Convs -> SUBSET Conversation]
    /\ rows \in [Msgs -> SUBSET Convs]
    /\ redis \in [Convs -> SUBSET Conversation]
    /\ cache \in [Processes -> [Convs -> SUBSET Conversation]]
    /\ call \in [Clients -> Calls]
    /\ calls \in Nat
    /\ created \subseteq Convs
    /\ inserted \in [Convs -> SUBSET Msgs]
    /\ overtaken \subseteq Clients
    /\ reasons \in [Convs -> SUBSET Reasons]
    /\ \A k \in Clients : PhaseOK(call[k])

\* No call in progress is a call.
LEMMA IdleType == Idle \in Calls /\ PhaseOK(Idle) /\ \A c : Idle.conv # {c}
BY DEF Idle, Calls, PhaseOK, Phases

\* A step of a client's call replaces its record, by one of the same operation
\* on the same conversation or by none.
Continues(k, r) ==
    /\ r \in Calls /\ PhaseOK(r)
    /\ call' = [call EXCEPT ![k] = r]
    /\ \/ r = Idle
       \/ r.op = call[k].op /\ r.conv = call[k].conv /\ r.msg = call[k].msg

\* Going on to another place, with the copy in hand or with another.
LEMMA GotoContinues ==
    ASSUME TypeOK, NEW k \in Clients, NEW a \in Phases, Goto(k, a),
           PhaseOK([call[k] EXCEPT !.at = a])
    PROVE  Continues(k, [call[k] EXCEPT !.at = a])
BY DEF TypeOK, Goto, Continues, Calls

LEMMA ReadContinues ==
    ASSUME TypeOK, NEW k \in Clients, NEW a \in {"fill", "fillBoth"},
           NEW v \in Conversation,
           call' = [call EXCEPT ![k].at = a, ![k].val = {v}]
    PROVE  Continues(k, [call[k] EXCEPT !.at = a, !.val = {v}])
BY DEF TypeOK, Continues, Calls, Phases, PhaseOK

\* Returning to the client.
LEMMA ReturnContinues ==
    ASSUME TypeOK, NEW k \in Clients, Return(k)
    PROVE  Continues(k, Idle)
BY IdleType DEF TypeOK, Return, Continues

\* GetConversation returns, to AddMessage or to the client.
LEMMA GotContinues ==
    ASSUME TypeOK, NEW k \in Clients, NEW v \in Conversation,
           GotConversation(k, v)
    PROVE  \/ /\ call[k].op = "add"
              /\ Continues(k, [call[k] EXCEPT !.at = "insert", !.val = {v}])
           \/ Continues(k, Idle)
<1>1. CASE call[k].op = "add"
  <2>1. call' = [call EXCEPT ![k] = [call[k] EXCEPT !.at = "insert", !.val = {v}]]
    BY <1>1 DEF GotConversation
  <2>2. [call[k] EXCEPT !.at = "insert", !.val = {v}] \in Calls
    BY DEF TypeOK, Calls, Phases
  <2>3. PhaseOK([call[k] EXCEPT !.at = "insert", !.val = {v}])
    BY <1>1 DEF TypeOK, Calls, PhaseOK
  <2>4. QED BY <1>1, <2>1, <2>2, <2>3 DEF TypeOK, Continues, Calls
<1>2. CASE call[k].op # "add"
  BY <1>2, IdleType DEF TypeOK, GotConversation, Continues
<1>3. QED BY <1>1, <1>2

\* A new conversation is one.
LEMMA NewType == NewConversation \in Conversation
BY DEF NewConversation, Conversation

\* What an update makes of a row is a row.
LEMMA UpdatedType ==
    ASSUME TypeOK, NEW k \in Clients, call[k].at = "write",
           NEW old \in SUBSET Conversation
    PROVE  Updated(k, old) \in SUBSET Conversation
<1>1. call[k].op \in {"add", "archive", "delete"}
  BY DEF TypeOK, PhaseOK
<1>2. CASE call[k].op = "add"
  <2> DEFINE v == CHOOSE v \in call[k].val : TRUE
  <2>1. v \in Conversation
    BY <1>2 DEF TypeOK, PhaseOK, Calls
  <2>2. v.count + 1 \in Nat
    BY <2>1 DEF Conversation
  <2> HIDE DEF v
  <2>3. \A o \in old : [o EXCEPT !.count = v.count + 1] \in Conversation
    BY <2>2 DEF Conversation
  <2>4. Updated(k, old) = {[o EXCEPT !.count = v.count + 1] : o \in old}
    BY <1>2 DEF Updated, v
  <2>5. QED BY <2>3, <2>4
<1>3. CASE call[k].op = "archive"
  <2>1. \A o \in old : [o EXCEPT !.status = "archived"] \in Conversation
    BY DEF Conversation
  <2>2. Updated(k, old) = {[o EXCEPT !.status = "archived"] : o \in old}
    BY <1>3 DEF Updated
  <2>3. QED BY <2>1, <2>2
<1>4. CASE call[k].op = "delete"
  BY <1>4 DEF Updated
<1>5. QED BY <1>1, <1>2, <1>3, <1>4

\* The record of a call that begins.
LEMMA BeginCall ==
    ASSUME TypeOK, NEW k \in Clients, NEW op \in Ops, NEW c \in Convs,
           NEW m \in Msgs, Begin(k, op, c, m)
    PROVE  \E r \in Calls :
              /\ PhaseOK(r) /\ call' = [call EXCEPT ![k] = r]
              /\ r.op = op /\ r.conv = {c} /\ r.val = {} /\ r.at = First(op)
              /\ r.at \in {"create", "lookup", "write"}
              /\ r.at = "create" <=> op = "create"
<1> DEFINE r == [op |-> op, at |-> First(op), conv |-> {c},
                 msg |-> IF op = "add" THEN {m} ELSE {}, val |-> {}]
<1>1. /\ First(op) \in {"create", "lookup", "write"}
      /\ First(op) = "create" <=> op = "create"
      /\ First(op) = "write" => op \in {"archive", "delete"}
  BY DEF First, Ops
<1>2. r \in Calls
  BY <1>1 DEF Calls, Phases
<1>3. PhaseOK(r)
  BY <1>1 DEF PhaseOK
<1>4. call' = [call EXCEPT ![k] = r]
  BY DEF Begin
<1>5. QED BY <1>1, <1>2, <1>3, <1>4

\* How every step of a call moves it on.
LEMMA StepCall ==
    ASSUME TypeOK, NEW k \in Clients, NEW c \in Convs, Step(k, c)
    PROVE  \E r : Continues(k, r)
<1> USE DEF Phases
<1>0. /\ call[k] \in Calls /\ PhaseOK(call[k])
      /\ db[c] \subseteq Conversation /\ redis[c] \subseteq Conversation
      /\ \A p \in Processes : cache[p][c] \subseteq Conversation
      /\ call[k].val \subseteq Conversation /\ ProcessOf[k] \in Processes
  BY ProcessOfType DEF TypeOK, Calls
<1>1. ASSUME CreateRow(k, c) PROVE \E r : Continues(k, r)
  BY <1>1, ReadContinues, NewType DEF CreateRow
<1>2. ASSUME Lookup(k, c) PROVE \E r : Continues(k, r)
  <2>1. CASE \E v \in cache[ProcessOf[k]][c] : GotConversation(k, v)
    BY <1>0, <2>1, GotContinues
  <2>2. CASE Goto(k, "redis")
    BY <2>2, <1>0, GotoContinues DEF PhaseOK, Calls
  <2>3. QED BY <1>2, <2>1, <2>2 DEF Lookup
<1>3. ASSUME ReadRedis(k, c) PROVE \E r : Continues(k, r)
  <2>1. CASE \E v \in redis[c] : call' = [call EXCEPT ![k].at = "fill", ![k].val = {v}]
    BY <1>0, <2>1, ReadContinues
  <2>2. CASE Goto(k, "select")
    BY <2>2, <1>0, GotoContinues DEF PhaseOK, Calls
  <2>3. QED BY <1>3, <2>1, <2>2 DEF ReadRedis
<1>4. ASSUME Select(k, c) PROVE \E r : Continues(k, r)
  BY <1>0, <1>4, ReadContinues, ReturnContinues DEF Select
<1>5. ASSUME cacheConversation(k, c) PROVE \E r : Continues(k, r)
  <2>1. CASE \E v \in call[k].val : GotConversation(k, v)
    BY <1>0, <2>1, GotContinues
  <2>2. CASE Goto(k, "fillRedis")
    BY <2>2, <1>0, GotoContinues DEF PhaseOK, Calls
  <2>3. QED BY <1>5, <2>1, <2>2 DEF cacheConversation
<1>6. ASSUME cacheToRedis(k, c) PROVE \E r : Continues(k, r)
  BY <1>0, <1>6, GotContinues DEF cacheToRedis
<1>7. ASSUME InsertMessage(k, c) PROVE \E r : Continues(k, r)
  <2>1. CASE Return(k)
    BY <2>1, ReturnContinues
  <2>2. CASE Goto(k, "write") /\ call[k].op = "add"
    BY <1>0, <1>7, <2>2, GotoContinues DEF PhaseOK, Calls, InsertMessage
  <2>3. call[k].op = "add"
    BY <1>0, <1>7 DEF InsertMessage, PhaseOK, TypeOK
  <2>4. QED BY <1>7, <2>1, <2>2, <2>3 DEF InsertMessage
<1>8. ASSUME UpdateRow(k, c) PROVE \E r : Continues(k, r)
  BY <1>0, <1>8, GotoContinues DEF UpdateRow, PhaseOK, Calls
<1>9. ASSUME invalidateCache(k, c) PROVE \E r : Continues(k, r)
  BY <1>0, <1>9, GotoContinues DEF invalidateCache, PhaseOK, Calls
<1>10. ASSUME invalidateRedis(k, c) PROVE \E r : Continues(k, r)
  BY <1>10, ReturnContinues DEF invalidateRedis
<1>11. QED
  BY <1>1, <1>2, <1>3, <1>4, <1>5, <1>6, <1>7, <1>8, <1>9, <1>10 DEF Step

\* A reason is noted for one conversation.
LEMMA BecauseType ==
    ASSUME TypeOK, NEW c \in Convs, NEW w \in Reasons, Because(c, w)
    PROVE  /\ reasons' \in [Convs -> SUBSET Reasons]
           /\ reasons' = [reasons EXCEPT ![c] = reasons[c] \cup {w}]
           /\ reasons'[c] # {}
           /\ \A d \in Convs : d # c => reasons'[d] = reasons[d]
<1>1. reasons[c] \cup {w} \in SUBSET Reasons
  BY DEF TypeOK
<1>2. reasons' = [reasons EXCEPT ![c] = reasons[c] \cup {w}]
  BY DEF Because
<1>3. QED BY <1>1, <1>2 DEF TypeOK

\* What a step of a call leaves in the histories of the copies.
LEMMA StepHistory ==
    ASSUME TypeOK, NEW k \in Clients, NEW c \in Convs, Step(k, c)
    PROVE  /\ reasons' = reasons \/ \E w \in Reasons : Because(c, w)
           /\ reasons' \in [Convs -> SUBSET Reasons]
           /\ overtaken' \in {overtaken, overtaken \cup {k}, overtaken \ {k},
                              overtaken \cup (Filling(c) \ {k})}
           /\ overtaken' \subseteq Clients
<1>1. reasons' = reasons \/ \E w \in Reasons : Because(c, w)
  BY DEF Reasons, Step, CreateRow, Lookup, ReadRedis, Select, cacheConversation,
         cacheToRedis, InsertMessage, UpdateRow, invalidateCache, invalidateRedis
<1>2. reasons' \in [Convs -> SUBSET Reasons]
  BY <1>1, BecauseType DEF TypeOK
<1>3. overtaken' \in {overtaken, overtaken \cup {k}, overtaken \ {k},
                     overtaken \cup (Filling(c) \ {k})}
  BY DEF Step, CreateRow, Lookup, ReadRedis, Select, cacheConversation,
         cacheToRedis, InsertMessage, UpdateRow, invalidateCache, invalidateRedis,
         Overtakes
<1>4. overtaken' \subseteq Clients
  BY <1>3 DEF TypeOK, Filling, InProgress
<1>5. QED BY <1>1, <1>2, <1>3, <1>4

\* The state manager starts well typed.
LEMMA InitTypeOK == Init => TypeOK
<1> SUFFICES ASSUME Init PROVE TypeOK
  OBVIOUS
<1>1. call \in [Clients -> Calls] /\ \A k \in Clients : PhaseOK(call[k])
  BY IdleType DEF Init
<1>2. QED BY <1>1 DEF Init, TypeOK

\* A call that goes on or returns keeps the calls typed.
LEMMA ContinuesType ==
    ASSUME TypeOK, NEW k \in Clients, NEW r, Continues(k, r)
    PROVE  call' \in [Clients -> Calls] /\ \A j \in Clients : PhaseOK(call'[j])
BY DEF TypeOK, Continues

\* Every action keeps the types.
LEMMA StepTypeOK == TypeOK /\ [Next]_vars => TypeOK'
<1> SUFFICES ASSUME TypeOK, [Next]_vars PROVE TypeOK'
  OBVIOUS
<1> DEFINE CallsOK == /\ call' \in [Clients -> Calls]
                      /\ \A j \in Clients : PhaseOK(call'[j])
<1>1. ASSUME NEW k \in Clients, NEW op \in Ops, NEW c \in Convs, NEW m \in Msgs,
             Begin(k, op, c, m)
      PROVE  TypeOK'
  <2>1. CallsOK
    <3>1. PICK r \in Calls : PhaseOK(r) /\ call' = [call EXCEPT ![k] = r]
      BY <1>1, BeginCall
    <3>2. QED BY <3>1 DEF TypeOK
  <2>2. created' \subseteq Convs /\ calls' \in Nat
    BY <1>1 DEF TypeOK, Begin
  <2>3. QED BY <1>1, <2>1, <2>2 DEF TypeOK, Begin
<1>2. ASSUME NEW k \in Clients, NEW c \in Convs, Step(k, c) PROVE TypeOK'
  <2>1. CallsOK
    BY <1>2, StepCall, ContinuesType
  <2>2. call[k].val \subseteq Conversation /\ call[k].msg \subseteq Msgs
        /\ ProcessOf[k] \in Processes
    BY ProcessOfType DEF TypeOK, Calls
  <2>3. calls' = calls /\ created' = created
    BY <1>2 DEF Step, CreateRow, Lookup, ReadRedis, Select, cacheConversation,
                cacheToRedis, InsertMessage, UpdateRow, invalidateCache,
                invalidateRedis
  <2>4. db' \in [Convs -> SUBSET Conversation]
    <3>1. CASE UpdateRow(k, c)
      BY <3>1, UpdatedType DEF TypeOK, UpdateRow
    <3>2. CASE CreateRow(k, c)
      BY <3>2, NewType DEF TypeOK, CreateRow
    <3>3. QED BY <1>2, <3>1, <3>2
         DEF TypeOK, Step, Lookup, ReadRedis, Select, cacheConversation,
             cacheToRedis, InsertMessage, invalidateCache, invalidateRedis
  <2>5. rows' \in [Msgs -> SUBSET Convs] /\ inserted' \in [Convs -> SUBSET Msgs]
    <3>1. CASE InsertMessage(k, c)
      BY <2>2, <3>1 DEF TypeOK, InsertMessage, Inserted
    <3>2. QED BY <1>2, <3>1
         DEF TypeOK, Step, CreateRow, Lookup, ReadRedis, Select, cacheConversation,
             cacheToRedis, UpdateRow, invalidateCache, invalidateRedis
  <2>6. redis' \in [Convs -> SUBSET Conversation]
    <3>1. CASE cacheToRedis(k, c)
      BY <2>2, <3>1 DEF TypeOK, cacheToRedis
    <3>2. CASE invalidateRedis(k, c)
      BY <3>2 DEF TypeOK, invalidateRedis
    <3>3. QED BY <1>2, <3>1, <3>2
         DEF TypeOK, Step, CreateRow, Lookup, ReadRedis, Select, cacheConversation,
             InsertMessage, UpdateRow, invalidateCache
  <2>7. cache' \in [Processes -> [Convs -> SUBSET Conversation]]
    <3>1. CASE cacheConversation(k, c)
      BY <2>2, <3>1 DEF TypeOK, cacheConversation
    <3>2. CASE invalidateCache(k, c)
      BY <2>2, <3>2 DEF TypeOK, invalidateCache
    <3>3. QED BY <1>2, <3>1, <3>2
         DEF TypeOK, Step, CreateRow, Lookup, ReadRedis, Select, cacheToRedis,
             InsertMessage, UpdateRow, invalidateRedis
  <2>8. reasons' \in [Convs -> SUBSET Reasons] /\ overtaken' \subseteq Clients
    BY <1>2, StepHistory, BecauseType
  <2>9. QED BY <2>1, <2>3, <2>4, <2>5, <2>6, <2>7, <2>8 DEF TypeOK
<1>3. ASSUME NEW k \in Clients, DatabaseError(k) PROVE TypeOK'
  <2>1. CallsOK
    BY <1>3, ReturnContinues, ContinuesType DEF DatabaseError
  <2>2. QED BY <1>3, <2>1 DEF TypeOK, DatabaseError
<1>4. ASSUME NEW k \in Clients, NEW c \in Convs, ReplyLost(k, c) PROVE TypeOK'
  <2>1. CallsOK
    BY <1>4, ReturnContinues, ContinuesType DEF ReplyLost
  <2>2. call[k].msg \subseteq Msgs
    BY DEF TypeOK, Calls
  <2>3. db' \in [Convs -> SUBSET Conversation]
    <3>1. CASE call[k].at = "write" /\ db' = [db EXCEPT ![c] = Updated(k, @)]
      <4>1. Updated(k, db[c]) \in SUBSET Conversation
        BY <3>1, UpdatedType DEF TypeOK
      <4>2. QED BY <3>1, <4>1 DEF TypeOK
    <3>2. CASE db' = db \/ db' = [db EXCEPT ![c] = {NewConversation}]
      BY <3>2, NewType DEF TypeOK
    <3>3. QED BY <1>4, <3>1, <3>2 DEF ReplyLost
  <2>4. rows' \in [Msgs -> SUBSET Convs] /\ inserted' \in [Convs -> SUBSET Msgs]
    <3>1. CASE \E m \in call[k].msg : rows[m] = {} /\ Inserted(m, c)
      BY <2>2, <3>1 DEF TypeOK, Inserted
    <3>2. CASE UNCHANGED <<rows, inserted>>
      BY <3>2 DEF TypeOK
    <3>3. QED BY <1>4, <3>1, <3>2 DEF ReplyLost
  <2>5. reasons' \in [Convs -> SUBSET Reasons] /\ overtaken' \subseteq Clients
    <3>1. \/ UNCHANGED <<overtaken, reasons>>
          \/ Overtakes(k, c) /\ Because(c, "reply lost")
      BY <1>4 DEF ReplyLost
    <3>2. CASE UNCHANGED <<overtaken, reasons>>
      BY <3>2 DEF TypeOK
    <3>3. CASE Overtakes(k, c) /\ Because(c, "reply lost")
      BY <3>3, BecauseType DEF TypeOK, Overtakes, Filling, InProgress, Reasons
    <3>4. QED BY <3>1, <3>2, <3>3
  <2>6. QED BY <1>4, <2>1, <2>3, <2>4, <2>5 DEF TypeOK, ReplyLost
<1>5. ASSUME NEW m \in Msgs, NEW c \in Convs, UpdateMessage(m, c) PROVE TypeOK'
  BY <1>5 DEF TypeOK, UpdateMessage
<1>6. ASSUME NEW c \in Convs, RedisExpires(c) PROVE TypeOK'
  BY <1>6 DEF TypeOK, RedisExpires
<1>7. ASSUME NEW p \in Processes, Restart(p) PROVE TypeOK'
  <2>1. CallsOK
    BY <1>7, IdleType DEF TypeOK, Restart
  <2>2. cache' \in [Processes -> [Convs -> SUBSET Conversation]]
    BY <1>7 DEF TypeOK, Restart
  <2>3. reasons' \in [Convs -> SUBSET Reasons]
    BY <1>7 DEF TypeOK, Restart, Reasons
  <2>4. overtaken' \subseteq Clients
    BY <1>7 DEF TypeOK, Restart
  <2>5. QED BY <1>7, <2>1, <2>2, <2>3, <2>4 DEF TypeOK, Restart
<1>8. ASSUME UNCHANGED vars PROVE TypeOK'
  BY <1>8 DEF TypeOK, vars
<1>9. QED
  BY <1>1, <1>2, <1>3, <1>4, <1>5, <1>6, <1>7, <1>8 DEF Next

-----------------------------------------------------------------------------
(* Counts.  CountInv is CountHasInserts with the union of the copies replaced *)
(* by one conjunct for each place, and with what AddMessage knows once it  *)
(* has inserted its row: one more than its copy counts.                    *)

Bound(c) == Cardinality(inserted[c])
Within(S, n) == \A v \in S : v.count <= n

\* A copy in hand, and the count AddMessage is about to write from it.
HandWithin(r, n) ==
    /\ Within(r.val, n)
    /\ r.op = "add" /\ r.at = "write" => \A v \in r.val : v.count + 1 <= n

CountAt(c) ==
    /\ Within(db[c], Bound(c))
    /\ Within(redis[c], Bound(c))
    /\ \A p \in Processes : Within(cache[p][c], Bound(c))
    /\ \A k \in Clients : call[k].conv = {c} => HandWithin(call[k], Bound(c))

CountInv == \A c \in Convs : CountAt(c)

\* CountInv says of every copy that the property collects that it is within
\* the bound.
LEMMA CountInvMeaning == CountInv => CountHasInserts
<1> SUFFICES ASSUME CountInv, NEW c \in Convs,
                    NEW v \in db[c] \cup redis[c]
                                \cup (UNION {cache[p][c] : p \in Processes})
                                \cup (UNION {call[k].val : k \in InProgress(c)})
             PROVE  v.count <= Cardinality(inserted[c])
  BY DEF CountHasInserts
<1>1. CASE v \in db[c] \cup redis[c]
  BY <1>1 DEF CountInv, CountAt, HandWithin, Within, Bound
<1>2. CASE \E p \in Processes : v \in cache[p][c]
  BY <1>2 DEF CountInv, CountAt, HandWithin, Within, Bound
<1>3. CASE \E k \in Clients : call[k].conv = {c} /\ v \in call[k].val
  BY <1>3 DEF CountInv, CountAt, HandWithin, Within, Bound
<1>4. QED BY <1>1, <1>2, <1>3 DEF InProgress

\* A message that was inserted has a row, wherever that is by now.
InsertedInv == \A c \in Convs : \A m \in inserted[c] : rows[m] # {}

\* What is inserted are numbers of messages.
LEMMA BoundType ==
    ASSUME TypeOK, NEW c \in Convs
    PROVE  IsFiniteSet(inserted[c]) /\ Bound(c) \in Nat
BY MsgsFinite, FS_Subset, FS_CardinalityType DEF TypeOK, Bound

\* No row is ever taken away, and messages are inserted when they have none.
LEMMA RowsStay ==
    ASSUME TypeOK, [Next]_vars
    PROVE  /\ \A m \in Msgs : rows[m] # {} => rows'[m] # {}
           /\ \/ inserted' = inserted
              \/ \E m \in Msgs, d \in Convs : rows[m] = {} /\ Inserted(m, d)
<1> DEFINE Stay == /\ \A m \in Msgs : rows[m] # {} => rows'[m] # {}
                   /\ \/ inserted' = inserted
                      \/ \E m \in Msgs, d \in Convs : rows[m] = {} /\ Inserted(m, d)
<1>1. ASSUME UNCHANGED <<rows, inserted>> PROVE Stay
  BY <1>1
<1>2. ASSUME NEW m \in Msgs, NEW d \in Convs, rows[m] = {}, Inserted(m, d) PROVE Stay
  BY <1>2 DEF TypeOK, Inserted
<1>3. \A k \in Clients : call[k].msg \subseteq Msgs
  BY DEF TypeOK, Calls
<1>4. ASSUME NEW k \in Clients, NEW d \in Convs, InsertMessage(k, d) PROVE Stay
  <2>1. CASE UNCHANGED <<rows, inserted>>
    BY <1>1, <2>1
  <2>2. CASE \E m \in call[k].msg : rows[m] = {} /\ Inserted(m, d)
    BY <1>2, <1>3, <2>2
  <2>3. QED BY <1>4, <2>1, <2>2 DEF InsertMessage
<1>5. ASSUME NEW k \in Clients, NEW d \in Convs, ReplyLost(k, d) PROVE Stay
  <2>1. CASE UNCHANGED <<rows, inserted>>
    BY <1>1, <2>1
  <2>2. CASE \E m \in call[k].msg : rows[m] = {} /\ Inserted(m, d)
    BY <1>2, <1>3, <2>2
  <2>3. QED BY <1>5, <2>1, <2>2 DEF ReplyLost
<1>6. ASSUME NEW m \in Msgs, NEW d \in Convs, UpdateMessage(m, d) PROVE Stay
  BY <1>6 DEF UpdateMessage, TypeOK
<1>7. ASSUME NEW k \in Clients, NEW d \in Convs, Step(k, d), ~ InsertMessage(k, d)
      PROVE  UNCHANGED <<rows, inserted>>
  BY <1>7 DEF Step, CreateRow, Lookup, ReadRedis, Select, cacheConversation,
              cacheToRedis, UpdateRow, invalidateCache, invalidateRedis
<1>8. ASSUME NEW k \in Clients, NEW op \in Ops, NEW d \in Convs, NEW m \in Msgs,
             Begin(k, op, d, m)
      PROVE  UNCHANGED <<rows, inserted>>
  BY <1>8 DEF Begin
<1>9. ASSUME \/ \E k \in Clients : DatabaseError(k)
             \/ \E d \in Convs : RedisExpires(d)
             \/ \E q \in Processes : Restart(q)
             \/ UNCHANGED vars
      PROVE  UNCHANGED <<rows, inserted>>
  BY <1>9 DEF DatabaseError, RedisExpires, Restart, vars
<1> HIDE DEF Stay
<1>10. Stay
  BY <1>1, <1>4, <1>5, <1>6, <1>7, <1>8, <1>9 DEF Next
<1>11. QED BY <1>10 DEF Stay

\* So the bound of a conversation only grows.
LEMMA BoundGrows ==
    ASSUME TypeOK, [Next]_vars, NEW c \in Convs
    PROVE  Bound(c) <= Bound(c)' /\ Bound(c)' \in Nat
<1>1. inserted[c] \subseteq inserted'[c] /\ inserted'[c] \subseteq Msgs
  BY RowsStay DEF Inserted, TypeOK
<1>2. IsFiniteSet(inserted'[c]) /\ Cardinality(inserted'[c]) \in Nat
  BY <1>1, MsgsFinite, FS_Subset, FS_CardinalityType
<1>3. Cardinality(inserted[c]) <= Cardinality(inserted'[c])
  BY <1>1, <1>2, FS_Subset
<1>4. QED BY <1>2, <1>3 DEF Bound

LEMMA StepInserted == TypeOK /\ InsertedInv /\ [Next]_vars => InsertedInv'
<1> SUFFICES ASSUME TypeOK, InsertedInv, [Next]_vars,
                    NEW c \in Convs, NEW m \in inserted'[c]
             PROVE  rows'[m] # {}
  BY DEF InsertedInv
<1>1. CASE m \in inserted[c]
  BY <1>1, RowsStay DEF InsertedInv, TypeOK
<1>2. CASE m \notin inserted[c]
  <2>1. PICK n \in Msgs, d \in Convs : Inserted(n, d)
    BY <1>2, RowsStay
  <2>2. m = n
    BY <1>2, <2>1 DEF Inserted, TypeOK
  <2>3. rows'[n] = {d}
    BY <2>1 DEF Inserted, TypeOK
  <2>4. QED BY <2>2, <2>3
<1>3. QED BY <1>1, <1>2

LEMMA WithinGrows ==
    ASSUME NEW S \in SUBSET Conversation, NEW m \in Nat, NEW n \in Nat, m <= n,
           Within(S, m)
    PROVE  Within(S, n)
BY DEF Within, Conversation

LEMMA WithinEmpty == \A n : Within({}, n)
BY DEF Within

\* A new conversation counts no messages.
LEMMA WithinNew == \A n \in Nat : Within({NewConversation}, n)
BY DEF Within, NewConversation

\* AddMessage writes one more than its copy counts; archiving leaves the count.
LEMMA WithinUpdated ==
    ASSUME TypeOK, CountInv, NEW k \in Clients, NEW c \in Convs,
           call[k].at = "write", call[k].conv = {c}
    PROVE  Within(Updated(k, db[c]), Bound(c))
<1>1. /\ call[k].op \in {"add", "archive", "delete"}
      /\ call[k].op = "add" => call[k].val # {}
      /\ db[c] \subseteq Conversation
  BY DEF TypeOK, PhaseOK
<1>2. CASE call[k].op = "add"
  <2> DEFINE v == CHOOSE v \in call[k].val : TRUE
  <2>1. v \in call[k].val
    BY <1>1, <1>2
  <2>2. v.count + 1 <= Bound(c)
    BY <1>2, <2>1 DEF CountInv, CountAt, HandWithin
  <2>3. Updated(k, db[c]) = {[o EXCEPT !.count = v.count + 1] : o \in db[c]}
    BY <1>2 DEF Updated
  <2> HIDE DEF v
  <2>4. \A o \in db[c] : [o EXCEPT !.count = v.count + 1].count = v.count + 1
    BY <1>1 DEF Conversation
  <2>5. QED BY <2>2, <2>3, <2>4 DEF Within
<1>3. CASE call[k].op = "archive"
  <2>1. Updated(k, db[c]) = {[o EXCEPT !.status = "archived"] : o \in db[c]}
    BY <1>3 DEF Updated
  <2>2. \A o \in db[c] : [o EXCEPT !.status = "archived"].count = o.count
    BY <1>1 DEF Conversation
  <2>3. QED BY <2>1, <2>2 DEF CountInv, CountAt, Within
<1>4. CASE call[k].op = "delete"
  BY <1>4 DEF Updated, Within
<1>5. QED BY <1>1, <1>2, <1>3, <1>4

\* What a step leaves alone stays within the bound, which only grows.
LEMMA CountKeeps ==
    ASSUME TypeOK, CountInv, [Next]_vars, NEW c \in Convs,
           db'[c] = db[c] \/ Within(db'[c], Bound(c)),
           redis'[c] = redis[c] \/ Within(redis'[c], Bound(c)),
           \A p \in Processes :
              cache'[p][c] = cache[p][c] \/ Within(cache'[p][c], Bound(c)),
           \A k \in Clients : \/ call'[k] = call[k]
                              \/ call'[k].conv # {c}
                              \/ HandWithin(call'[k], Bound(c)')
    PROVE  CountAt(c)'
<1>1. Bound(c) \in Nat /\ Bound(c)' \in Nat /\ Bound(c) <= Bound(c)'
  BY BoundType, BoundGrows
<1>2. TypeOK'
  BY StepTypeOK
<1>3. \A S \in SUBSET Conversation : Within(S, Bound(c)) => Within(S, Bound(c)')
  BY <1>1, WithinGrows
<1>4. Within(db'[c], Bound(c)') /\ Within(redis'[c], Bound(c)')
  BY <1>2, <1>3 DEF TypeOK, CountInv, CountAt
<1>5. ASSUME NEW p \in Processes PROVE Within(cache'[p][c], Bound(c)')
  BY <1>2, <1>3 DEF TypeOK, CountInv, CountAt
<1>6. ASSUME NEW k \in Clients, call'[k].conv = {c} PROVE HandWithin(call'[k], Bound(c)')
  <2>1. CASE call'[k] = call[k]
    <3>1. HandWithin(call[k], Bound(c)) /\ call[k].val \subseteq Conversation
      BY <1>6, <2>1 DEF CountInv, CountAt, TypeOK, Calls
    <3>2. Within(call[k].val, Bound(c)')
      BY <1>3, <3>1 DEF HandWithin
    <3>3. \A v \in call[k].val : v.count \in Nat
      BY <3>1 DEF Conversation
    <3>4. HandWithin(call[k], Bound(c)')
      BY <1>1, <3>1, <3>2, <3>3 DEF HandWithin
    <3>5. QED BY <2>1, <3>4
  <2>2. QED BY <1>6, <2>1
<1>7. QED BY <1>4, <1>5, <1>6 DEF CountAt

\* An insertion adds one.
LEMMA InsertBound ==
    ASSUME TypeOK, InsertedInv, NEW c \in Convs, NEW m \in Msgs, rows[m] = {},
           Inserted(m, c)
    PROVE  Bound(c)' = Bound(c) + 1
<1>1. inserted'[c] = inserted[c] \cup {m} /\ m \notin inserted[c]
  BY DEF TypeOK, Inserted, InsertedInv
<1>2. QED BY <1>1, BoundType, FS_AddElement DEF Bound

\* Every step of a call keeps the bounds of its own conversation.
LEMMA StepCount ==
    ASSUME TypeOK, InsertedInv, CountInv, [Next]_vars, NEW k \in Clients, NEW c \in Convs,
           Step(k, c)
    PROVE  CountAt(c)'
<1> DEFINE DbOK == db'[c] = db[c] \/ Within(db'[c], Bound(c))
           RedisOK == redis'[c] = redis[c] \/ Within(redis'[c], Bound(c))
           CacheOK == \A p \in Processes :
              cache'[p][c] = cache[p][c] \/ Within(cache'[p][c], Bound(c))
           CallOK == \A j \in Clients : \/ call'[j] = call[j]
                                        \/ call'[j].conv # {c}
                                        \/ HandWithin(call'[j], Bound(c)')
<1>0. /\ Bound(c) \in Nat /\ Bound(c)' \in Nat /\ Bound(c) <= Bound(c)'
      /\ call[k] \in Calls /\ call[k].val \subseteq Conversation
      /\ call[k].conv = {c} /\ ProcessOf[k] \in Processes
      /\ Within(call[k].val, Bound(c))
      /\ Within(db[c], Bound(c)) /\ Within(redis[c], Bound(c))
      /\ Within(cache[ProcessOf[k]][c], Bound(c))
      /\ db[c] \subseteq Conversation /\ redis[c] \subseteq Conversation
      /\ cache[ProcessOf[k]][c] \subseteq Conversation
  <2>1. call[k].conv = {c}
    BY DEF Step, CreateRow, Lookup, ReadRedis, Select, cacheConversation,
           cacheToRedis, InsertMessage, UpdateRow, invalidateCache, invalidateRedis
  <2>2. QED BY <2>1, BoundType, BoundGrows, ProcessOfType
            DEF TypeOK, Calls, CountInv, CountAt, HandWithin
<1> HIDE DEF CallOK
<1>1. ASSUME NEW r \in Calls, call' = [call EXCEPT ![k] = r],
             Within(r.val, Bound(c)), r.at # "write"
      PROVE  CallOK
  <2>1. Within(r.val, Bound(c)')
    BY <1>0, <1>1, WithinGrows DEF Calls
  <2>2. QED BY <1>1, <2>1 DEF TypeOK, HandWithin, CallOK
<1>2. ASSUME NEW v \in Conversation, Within({v}, Bound(c)), GotConversation(k, v)
      PROVE  CallOK
  <2>1. CASE Continues(k, [call[k] EXCEPT !.at = "insert", !.val = {v}])
    <3> DEFINE r == [call[k] EXCEPT !.at = "insert", !.val = {v}]
    <3>1. r \in Calls /\ r.val = {v} /\ r.at = "insert" /\ call' = [call EXCEPT ![k] = r]
      BY <1>0, <2>1 DEF Continues, Calls
    <3> HIDE DEF r
    <3>2. QED BY <1>1, <1>2, <3>1
  <2>2. CASE Continues(k, Idle)
    BY <1>1, <2>2, IdleType, WithinEmpty DEF Continues, Idle
  <2>3. QED BY <1>2, <2>1, <2>2, GotContinues
<1>3. ASSUME NEW a \in Phases \ {"write"}, Goto(k, a) PROVE CallOK
  <2> DEFINE r == [call[k] EXCEPT !.at = a]
  <2>1. r \in Calls /\ r.val = call[k].val /\ r.at = a /\ call' = [call EXCEPT ![k] = r]
    BY <1>0, <1>3 DEF Calls, Goto
  <2> HIDE DEF r
  <2>2. QED BY <1>0, <1>1, <2>1
<1>4. ASSUME Return(k) PROVE CallOK
  BY <1>1, <1>4, IdleType, WithinEmpty DEF Return, Idle
<1>5. ASSUME NEW a \in {"fill", "fillBoth"}, NEW v \in Conversation,
             Within({v}, Bound(c)),
             call' = [call EXCEPT ![k].at = a, ![k].val = {v}]
      PROVE  CallOK
  <2> DEFINE r == [call[k] EXCEPT !.at = a, !.val = {v}]
  <2>1. r \in Calls /\ r.val = {v} /\ r.at = a /\ call' = [call EXCEPT ![k] = r]
    BY <1>0, <1>5 DEF Calls, Phases
  <2> HIDE DEF r
  <2>2. QED BY <1>1, <1>5, <2>1
<1>6. \A S \in SUBSET Conversation : \A v \in S :
          Within(S, Bound(c)) => v \in Conversation /\ Within({v}, Bound(c))
  BY DEF Within
<1>7. DbOK
  <2>1. CASE CreateRow(k, c)
    BY <1>0, <2>1, WithinNew DEF CreateRow, TypeOK
  <2>2. CASE UpdateRow(k, c)
    BY <2>2, WithinUpdated DEF UpdateRow, TypeOK
  <2>3. QED BY <2>1, <2>2
       DEF Step, Lookup, ReadRedis, Select, cacheConversation, cacheToRedis,
           InsertMessage, invalidateCache, invalidateRedis
<1>8. RedisOK
  <2>1. CASE cacheToRedis(k, c)
    <3>1. redis'[c] = redis[c] \/ redis'[c] = call[k].val
      BY <2>1 DEF cacheToRedis, TypeOK
    <3>2. QED BY <1>0, <3>1
  <2>2. CASE invalidateRedis(k, c)
    <3>1. redis'[c] = redis[c] \/ redis'[c] = {}
      BY <2>2 DEF invalidateRedis, TypeOK
    <3>2. QED BY <3>1, WithinEmpty
  <2>3. QED BY <2>1, <2>2
       DEF Step, CreateRow, Lookup, ReadRedis, Select, cacheConversation,
           InsertMessage, UpdateRow, invalidateCache
<1>9. CacheOK
  <2>1. CASE cacheConversation(k, c)
    <3>1. \A p \in Processes : cache'[p][c] = cache[p][c] \/ cache'[p][c] = call[k].val
      BY <1>0, <2>1 DEF cacheConversation, TypeOK
    <3>2. QED BY <1>0, <3>1
  <2>2. CASE invalidateCache(k, c)
    <3>1. \A p \in Processes : cache'[p][c] = cache[p][c] \/ cache'[p][c] = {}
      BY <1>0, <2>2 DEF invalidateCache, TypeOK
    <3>2. QED BY <3>1, WithinEmpty
  <2>3. QED BY <2>1, <2>2
       DEF Step, CreateRow, Lookup, ReadRedis, Select, cacheToRedis,
           InsertMessage, UpdateRow, invalidateRedis
<1>10. CallOK
  <2>1. CASE CreateRow(k, c)
    BY <1>0, <1>5, <2>1, WithinNew, NewType DEF CreateRow
  <2>2. CASE Lookup(k, c)
    BY <1>0, <1>2, <1>3, <1>6, <2>2 DEF Lookup, Phases
  <2>3. CASE ReadRedis(k, c)
    BY <1>0, <1>3, <1>5, <1>6, <2>3 DEF ReadRedis, Phases
  <2>4. CASE Select(k, c)
    <3>1. CASE Return(k)
      BY <1>4, <3>1
    <3>2. CASE \E v \in db[c] : call' = [call EXCEPT ![k].at = "fillBoth", ![k].val = {v}]
      <4>1. PICK v \in db[c] : call' = [call EXCEPT ![k].at = "fillBoth", ![k].val = {v}]
        BY <3>2
      <4>2. v \in Conversation /\ Within({v}, Bound(c))
        BY <1>0, <1>6
      <4>3. QED BY <1>5, <4>1, <4>2
    <3>3. QED BY <2>4, <3>1, <3>2 DEF Select
  <2>5. CASE cacheConversation(k, c)
    BY <1>0, <1>2, <1>3, <1>6, <2>5 DEF cacheConversation, Phases
  <2>6. CASE cacheToRedis(k, c)
    BY <1>0, <1>2, <1>6, <2>6 DEF cacheToRedis
  <2>7. CASE InsertMessage(k, c)
    <3>1. CASE Return(k)
      BY <1>4, <3>1
    <3>2. CASE \E m \in call[k].msg : /\ rows[m] = {}
                                      /\ Inserted(m, c)
                                      /\ Goto(k, "write")
      <4>1. Bound(c)' = Bound(c) + 1
        BY <1>0, <3>2, InsertBound DEF Calls
      <4> DEFINE r == [call[k] EXCEPT !.at = "write"]
      <4>2. r.val = call[k].val /\ call' = [call EXCEPT ![k] = r]
        BY <1>0, <3>2 DEF Calls, Goto
      <4>3. HandWithin(r, Bound(c)')
        <5>1. \A v \in call[k].val : v.count \in Nat /\ v.count <= Bound(c)
          BY <1>0 DEF Within, Conversation
        <5>2. QED BY <1>0, <4>1, <4>2, <5>1 DEF HandWithin, Within
      <4> HIDE DEF r
      <4>4. QED BY <4>2, <4>3 DEF TypeOK, CallOK
    <3>3. QED BY <2>7, <3>1, <3>2 DEF InsertMessage
  <2>8. CASE UpdateRow(k, c)
    BY <1>3, <2>8 DEF UpdateRow, Phases
  <2>9. CASE invalidateCache(k, c)
    BY <1>3, <2>9 DEF invalidateCache, Phases
  <2>10. CASE invalidateRedis(k, c)
    BY <1>4, <2>10 DEF invalidateRedis
  <2>11. QED
    BY <2>1, <2>2, <2>3, <2>4, <2>5, <2>6, <2>7, <2>8, <2>9, <2>10 DEF Step
<1>11. QED BY <1>7, <1>8, <1>9, <1>10, CountKeeps DEF CallOK

\* A step on one conversation leaves the others alone.
LEMMA StepElsewhere ==
    ASSUME TypeOK, NEW k \in Clients, NEW d \in Convs, Step(k, d),
           NEW c \in Convs, c # d
    PROVE  /\ db'[c] = db[c] /\ redis'[c] = redis[c]
           /\ \A p \in Processes : cache'[p][c] = cache[p][c]
           /\ reasons'[c] = reasons[c]
           /\ call[k].conv # {c}
           /\ \A j \in overtaken : call[j].conv = {c} => j \in overtaken'
           /\ \A j \in Clients : call'[j] = call[j] \/ call'[j].conv # {c}
<1>0. call[k].conv = {d} /\ ProcessOf[k] \in Processes
  BY ProcessOfType
     DEF Step, CreateRow, Lookup, ReadRedis, Select, cacheConversation,
         cacheToRedis, InsertMessage, UpdateRow, invalidateCache, invalidateRedis
<1>1. db'[c] = db[c]
  BY DEF TypeOK, Step, CreateRow, Lookup, ReadRedis, Select, cacheConversation,
         cacheToRedis, InsertMessage, UpdateRow, invalidateCache, invalidateRedis
<1>2. redis'[c] = redis[c]
  <2>1. CASE cacheToRedis(k, d)
    BY <2>1 DEF TypeOK, cacheToRedis
  <2>2. CASE invalidateRedis(k, d)
    BY <2>2 DEF TypeOK, invalidateRedis
  <2>3. QED BY <2>1, <2>2
       DEF Step, CreateRow, Lookup, ReadRedis, Select, cacheConversation,
           InsertMessage, UpdateRow, invalidateCache
<1>3. \A p \in Processes : cache'[p][c] = cache[p][c]
  <2>1. CASE cacheConversation(k, d)
    BY <1>0, <2>1 DEF TypeOK, cacheConversation
  <2>2. CASE invalidateCache(k, d)
    BY <1>0, <2>2 DEF TypeOK, invalidateCache
  <2>3. QED BY <2>1, <2>2
       DEF Step, CreateRow, Lookup, ReadRedis, Select, cacheToRedis,
           InsertMessage, UpdateRow, invalidateRedis
<1>4. reasons'[c] = reasons[c]
  BY StepHistory, BecauseType
<1>5. \A j \in Clients : call'[j] = call[j] \/ call'[j].conv # {c}
  BY <1>0, StepCall, IdleType DEF Continues, TypeOK
<1>6. \A j \in overtaken : call[j].conv = {c} => j \in overtaken'
  BY <1>0, StepHistory
<1>7. QED BY <1>0, <1>1, <1>2, <1>3, <1>4, <1>5, <1>6

\* Every action keeps the counts within the bounds.
LEMMA StepCountInv == TypeOK /\ InsertedInv /\ CountInv /\ [Next]_vars => CountInv'
<1> SUFFICES ASSUME TypeOK, InsertedInv, CountInv, [Next]_vars, NEW c \in Convs
             PROVE  CountAt(c)'
  BY DEF CountInv
<1>1. ASSUME NEW k \in Clients, NEW op \in Ops, NEW d \in Convs, NEW m \in Msgs,
             Begin(k, op, d, m)
      PROVE  CountAt(c)'
  <2>1. PICK r \in Calls : call' = [call EXCEPT ![k] = r] /\ r.val = {}
    BY <1>1, BeginCall
  <2>2. HandWithin(r, Bound(c)')
    BY <2>1, WithinEmpty DEF HandWithin
  <2>3. db' = db /\ redis' = redis /\ cache' = cache
    BY <1>1 DEF Begin
  <2>4. \A j \in Clients : call'[j] = call[j] \/ HandWithin(call'[j], Bound(c)')
    BY <2>1, <2>2 DEF TypeOK
  <2>5. QED BY <2>3, <2>4, CountKeeps
<1>2. ASSUME NEW k \in Clients, NEW d \in Convs, Step(k, d) PROVE CountAt(c)'
  <2>1. CASE c = d
    BY <1>2, <2>1, StepCount
  <2>2. CASE c # d
    <3>1. /\ db'[c] = db[c] /\ redis'[c] = redis[c]
          /\ \A p \in Processes : cache'[p][c] = cache[p][c]
          /\ \A j \in Clients : call'[j] = call[j] \/ call'[j].conv # {c}
      BY <1>2, <2>2, StepElsewhere
    <3>2. QED BY <3>1, CountKeeps
  <2>3. QED BY <2>1, <2>2
<1>3. ASSUME NEW k \in Clients, DatabaseError(k) PROVE CountAt(c)'
  <2>1. db' = db /\ redis' = redis /\ cache' = cache
    BY <1>3 DEF DatabaseError
  <2>2. \A j \in Clients : call'[j] = call[j] \/ call'[j].conv # {c}
    BY <1>3, IdleType DEF DatabaseError, Return, TypeOK
  <2>3. QED BY <2>1, <2>2, CountKeeps
<1>4. ASSUME NEW k \in Clients, NEW d \in Convs, ReplyLost(k, d) PROVE CountAt(c)'
  <2>1. redis' = redis /\ cache' = cache /\ call[k].conv = {d}
    BY <1>4 DEF ReplyLost
  <2>2. \A j \in Clients : call'[j] = call[j] \/ call'[j].conv # {c}
    BY <1>4, IdleType DEF ReplyLost, Return, TypeOK
  <2>3. db'[c] = db[c] \/ Within(db'[c], Bound(c))
    <3>1. CASE db' = db
      BY <3>1
    <3>2. CASE db' = [db EXCEPT ![d] = {NewConversation}]
      BY <3>2, BoundType, WithinNew DEF TypeOK
    <3>3. CASE call[k].at = "write" /\ db' = [db EXCEPT ![d] = Updated(k, @)]
      <4>1. Within(Updated(k, db[d]), Bound(d))
        BY <2>1, <3>3, WithinUpdated
      <4>2. QED BY <3>3, <4>1 DEF TypeOK
    <3>4. QED BY <1>4, <3>1, <3>2, <3>3 DEF ReplyLost
  <2>4. QED BY <2>1, <2>2, <2>3, CountKeeps
<1>5. ASSUME NEW m \in Msgs, NEW d \in Convs, UpdateMessage(m, d) PROVE CountAt(c)'
  BY <1>5, CountKeeps DEF UpdateMessage
<1>6. ASSUME NEW d \in Convs, RedisExpires(d) PROVE CountAt(c)'
  <2>1. redis'[c] = redis[c] \/ redis'[c] = {}
    BY <1>6 DEF RedisExpires, TypeOK
  <2>2. db' = db /\ cache' = cache /\ call' = call
    BY <1>6 DEF RedisExpires
  <2>3. redis'[c] = redis[c] \/ Within(redis'[c], Bound(c))
    BY <2>1, WithinEmpty
  <2>4. QED BY <2>2, <2>3, CountKeeps
<1>7. ASSUME NEW p \in Processes, Restart(p) PROVE CountAt(c)'
  <2>1. \A q \in Processes : cache'[q][c] = cache[q][c] \/ cache'[q][c] = {}
    BY <1>7 DEF Restart, TypeOK
  <2>2. \A q \in Processes :
            cache'[q][c] = cache[q][c] \/ Within(cache'[q][c], Bound(c))
    BY <2>1, WithinEmpty
  <2>3. \A j \in Clients : call'[j] = call[j] \/ call'[j].conv # {c}
    BY <1>7, IdleType DEF Restart
  <2>4. db' = db /\ redis' = redis
    BY <1>7 DEF Restart
  <2>5. QED BY <2>2, <2>3, <2>4, CountKeeps
<1>8. ASSUME UNCHANGED vars PROVE CountAt(c)'
  BY <1>8, CountKeeps DEF vars
<1>9. QED
  BY <1>1, <1>2, <1>3, <1>4, <1>5, <1>6, <1>7, <1>8 DEF Next

\* At the start there are no copies.
LEMMA InitCount == Init => CountInv /\ InsertedInv
<1> SUFFICES ASSUME Init, NEW c \in Convs PROVE CountAt(c) /\ inserted[c] = {}
  BY DEF CountInv, InsertedInv
<1>1. /\ db[c] = {} /\ redis[c] = {}
      /\ \A p \in Processes : cache[p][c] = {}
      /\ \A k \in Clients : call[k].conv # {c}
  BY IdleType DEF Init
<1>2. QED BY <1>1, WithinEmpty DEF CountAt, Init

\* Every variable keeps its type, for every instance.
THEOREM TypeCorrect == Spec => []TypeOK
BY InitTypeOK, StepTypeOK, PTL DEF Spec

(* No count claims a message that was not added: in the database, in       *)
(* Redis, in the memory of any process and in the hands of any call,       *)
(* MessageCount is at most the number of messages that AddMessage has      *)
(* inserted into the conversation, however the reads, updates, failures,   *)
(* lost replies and restarts of any number of processes interleave, and    *)
(* wherever UpdateMessage moves the rows.                                  *)
THEOREM CountsAreCovered == Spec => []CountHasInserts
<1>1. TypeOK /\ InsertedInv /\ CountInv /\ [Next]_vars
         => (TypeOK /\ InsertedInv /\ CountInv)'
  BY StepTypeOK, StepInserted, StepCountInv
<1>2. Init => TypeOK /\ InsertedInv /\ CountInv
  BY InitTypeOK, InitCount
<1>3. QED BY <1>1, <1>2, CountInvMeaning, PTL DEF Spec

-----------------------------------------------------------------------------
(* Copies.  As long as nothing has happened to a conversation that may     *)
(* leave an old copy behind, a call about to store a copy has what the     *)
(* database has or has been overtaken, and a copy that differs from the    *)
(* database is going to be dropped, or found in another process, by an     *)
(* update that has made its write.                                         *)

On(k, c) == call[k].conv = {c}
DroppingCache(j, c) == On(j, c) /\ call[j].at = "dropCache"
DroppingAny(j, c) == On(j, c) /\ call[j].at \in Drops

AgreeBody(c) ==
    /\ \A k \in Clients : On(k, c) /\ call[k].at \in Fills =>
          k \in overtaken \/ call[k].val = db[c]
    /\ \A p \in Processes : \/ cache[p][c] \in {{}, db[c]}
                            \/ \E j \in Clients : DroppingCache(j, c)
    /\ \/ redis[c] \in {{}, db[c]}
       \/ \E j \in Clients : DroppingAny(j, c)

\* A row exists once, and is made once; until then there is nothing to copy.
Creating(k, c) == On(k, c) /\ call[k].at = "create"

RowOK(c) ==
    /\ \A v, w \in db[c] : v = w
    /\ \A k \in Clients : Creating(k, c) =>
          c \in created /\ \A j \in Clients : Creating(j, c) => j = k
    /\ c \notin created \/ (\E k \in Clients : Creating(k, c)) =>
          /\ db[c] = {} /\ redis[c] = {} /\ \A p \in Processes : cache[p][c] = {}
          /\ \A k \in Clients : ~ (On(k, c) /\ call[k].at \in Fills)

AgreeInv == \A c \in Convs : RowOK(c) /\ (reasons[c] = {} => AgreeBody(c))

\* Where no update is dropping copies, AgreeInv is CopiesAgree.
LEMMA AgreeInvMeaning == AgreeInv => CopiesAgree
<1> SUFFICES ASSUME AgreeInv, NEW c \in Convs, Dropping(c) = {}, reasons[c] = {},
                    NEW copies \in {redis[c]} \cup {cache[p][c] : p \in Processes}
             PROVE  copies = {} \/ copies = db[c]
  BY DEF CopiesAgree
<1>1. \A k \in Clients : ~ DroppingAny(k, c) /\ ~ DroppingCache(k, c)
  BY DEF Dropping, InProgress, On, DroppingAny, DroppingCache, Drops
<1>2. redis[c] \in {{}, db[c]} /\ \A p \in Processes : cache[p][c] \in {{}, db[c]}
  BY <1>1 DEF AgreeInv, AgreeBody
<1>3. QED BY <1>2

\* Reasons are not forgotten.
LEMMA ReasonsGrow ==
    ASSUME TypeOK, [Next]_vars, NEW c \in Convs, reasons'[c] = {}
    PROVE  reasons[c] = {}
<1>1. ASSUME NEW d \in Convs, NEW w \in Reasons, Because(d, w) PROVE reasons[c] = {}
  BY <1>1, BecauseType
<1>2. ASSUME NEW k \in Clients, NEW d \in Convs, Step(k, d) PROVE reasons[c] = {}
  BY <1>1, <1>2, StepHistory
<1>3. ASSUME NEW k \in Clients, NEW d \in Convs, ReplyLost(k, d) PROVE reasons[c] = {}
  BY <1>1, <1>3 DEF ReplyLost, Reasons
<1>4. ASSUME NEW p \in Processes, Restart(p) PROVE reasons[c] = {}
  BY <1>4 DEF Restart
<1>5. ASSUME \/ \E k \in Clients, op \in Ops, d \in Convs, m \in Msgs : Begin(k, op, d, m)
             \/ \E k \in Clients : DatabaseError(k)
             \/ \E m \in Msgs, d \in Convs : UpdateMessage(m, d)
             \/ \E d \in Convs : RedisExpires(d)
             \/ UNCHANGED vars
      PROVE  reasons[c] = {}
  BY <1>5 DEF Begin, DatabaseError, UpdateMessage, RedisExpires, vars
<1>6. QED BY <1>2, <1>3, <1>4, <1>5 DEF Next

\* A step that leaves the row alone: what has to be shown of the copies, of the
\* updates that are dropping them, and of the calls about to store one.
LEMMA AgreeKept ==
    ASSUME NEW c \in Convs, AgreeBody(c), db'[c] = db[c],
           \A p \in Processes : \/ cache'[p][c] \in {{}, db[c], cache[p][c]}
                                \/ \E j \in Clients : DroppingCache(j, c),
           \/ redis'[c] \in {{}, db[c], redis[c]}
           \/ \E j \in Clients : DroppingAny(j, c),
           \A j \in Clients : DroppingAny(j, c) => call'[j] = call[j],
           \A j \in Clients : On(j, c)' /\ call'[j].at \in Fills =>
              \/ j \in overtaken' \/ call'[j].val = db[c]
    PROVE  AgreeBody(c)'
<1>1. \A j \in Clients : DroppingAny(j, c) => DroppingAny(j, c)'
  BY DEF DroppingAny, On
<1>2. \A j \in Clients : DroppingCache(j, c) => DroppingCache(j, c)'
  BY DEF DroppingCache, DroppingAny, On, Drops
<1>3. \A p \in Processes : \/ cache'[p][c] \in {{}, db'[c]}
                           \/ \E j \in Clients : DroppingCache(j, c)'
  BY <1>2 DEF AgreeBody
<1>4. \/ redis'[c] \in {{}, db'[c]}
      \/ \E j \in Clients : DroppingAny(j, c)'
  BY <1>1 DEF AgreeBody
<1>5. QED BY <1>3, <1>4 DEF AgreeBody

\* What a step of one call, that is not dropping copies, has to show of the
\* calls about to store one.
LEMMA FillersKept ==
    ASSUME TypeOK, NEW c \in Convs, AgreeBody(c), NEW k \in Clients, NEW r,
           call' = [call EXCEPT ![k] = r], call[k].at \notin Drops,
           r.at \in Fills => k \in overtaken' \/ r.val = db[c],
           \A j \in Clients \ {k} : j \in overtaken => j \in overtaken'
    PROVE  /\ \A j \in Clients : DroppingAny(j, c) => call'[j] = call[j]
           /\ \A j \in Clients : On(j, c)' /\ call'[j].at \in Fills =>
                 \/ j \in overtaken' \/ call'[j].val = db[c]
<1>1. call'[k] = r /\ \A j \in Clients \ {k} : call'[j] = call[j]
  BY DEF TypeOK
<1>2. ~ DroppingAny(k, c)
  BY DEF DroppingAny
<1>3. ASSUME NEW j \in Clients, j # k, On(j, c)', call'[j].at \in Fills
      PROVE  j \in overtaken' \/ call'[j].val = db[c]
  BY <1>1, <1>3 DEF AgreeBody, On
<1>4. QED BY <1>1, <1>2, <1>3

\* A step of a call that reads, on a conversation on which nothing has gone
\* wrong.
LEMMA ReadAgree ==
    ASSUME TypeOK, NEW k \in Clients, NEW c \in Convs, RowOK(c), AgreeBody(c),
           Lookup(k, c) \/ ReadRedis(k, c) \/ Select(k, c) \/ InsertMessage(k, c)
    PROVE  AgreeBody(c)'
<1>0. /\ call[k] \in Calls /\ On(k, c) /\ call[k].at \notin Drops /\ call[k].at \notin Fills
      /\ db[c] \subseteq Conversation /\ redis[c] \subseteq Conversation
      /\ cache[ProcessOf[k]][c] \subseteq Conversation
      /\ db' = db /\ redis' = redis /\ cache' = cache
  BY ProcessOfType DEF TypeOK, On, Drops, Fills, Lookup, ReadRedis, Select, InsertMessage
<1>1. ASSUME NEW r, call' = [call EXCEPT ![k] = r],
             r.at \in Fills => k \in overtaken' \/ r.val = db[c],
             \A j \in Clients : j \in overtaken => j \in overtaken'
      PROVE  AgreeBody(c)'
  BY <1>0, <1>1, FillersKept, AgreeKept
<1>2. Idle.at \notin Fills
  BY DEF Idle, Fills
<1>3. ASSUME NEW v \in Conversation, GotConversation(k, v), overtaken' = overtaken
      PROVE  AgreeBody(c)'
  <2>1. CASE Continues(k, Idle)
    BY <1>1, <1>2, <1>3, <2>1 DEF Continues
  <2>2. CASE Continues(k, [call[k] EXCEPT !.at = "insert", !.val = {v}])
    <3> DEFINE r == [call[k] EXCEPT !.at = "insert", !.val = {v}]
    <3>1. r.at \notin Fills /\ call' = [call EXCEPT ![k] = r]
      BY <1>0, <2>2 DEF Calls, Fills, Continues
    <3> HIDE DEF r
    <3>2. QED BY <1>1, <1>3, <3>1
  <2>3. QED BY <1>3, <2>1, <2>2, GotContinues
<1>4. ASSUME NEW a, Goto(k, a), a \notin Fills, overtaken' = overtaken
      PROVE  AgreeBody(c)'
  <2> DEFINE r == [call[k] EXCEPT !.at = a]
  <2>1. r.at = a /\ call' = [call EXCEPT ![k] = r]
    BY <1>0, <1>4 DEF Calls, Goto
  <2> HIDE DEF r
  <2>2. QED BY <1>1, <1>4, <2>1
<1>5. ASSUME NEW a, NEW v, call' = [call EXCEPT ![k].at = a, ![k].val = {v}],
             k \in overtaken' \/ {v} = db[c],
             \A j \in Clients : j \in overtaken => j \in overtaken'
      PROVE  AgreeBody(c)'
  <2> DEFINE r == [call[k] EXCEPT !.at = a, !.val = {v}]
  <2>1. r.val = {v} /\ call' = [call EXCEPT ![k] = r]
    BY <1>0, <1>5 DEF Calls
  <2> HIDE DEF r
  <2>2. QED BY <1>1, <1>5, <2>1
<1>6. ASSUME Return(k), overtaken' = overtaken PROVE AgreeBody(c)'
  BY <1>1, <1>2, <1>6 DEF Return
<1>7. \A v \in db[c] : {v} = db[c]
  BY DEF RowOK
<1>8. CASE Lookup(k, c)
  BY <1>0, <1>3, <1>4, <1>8 DEF Lookup, Fills
<1>9. CASE ReadRedis(k, c)
  <2>1. CASE Goto(k, "select") /\ UNCHANGED overtaken
    BY <1>4, <2>1 DEF Fills
  <2>2. ASSUME NEW v \in redis[c],
               call' = [call EXCEPT ![k].at = "fill", ![k].val = {v}],
               overtaken' = IF Dropping(c) = {} THEN overtaken ELSE overtaken \cup {k}
        PROVE  AgreeBody(c)'
    <3>1. CASE Dropping(c) = {}
      <4>1. \A j \in Clients : ~ DroppingAny(j, c)
        BY <3>1 DEF Dropping, InProgress, DroppingAny, On
      <4>2. redis[c] = db[c]
        BY <2>2, <4>1 DEF AgreeBody
      <4>3. {v} = db[c]
        BY <1>7, <2>2, <4>2
      <4>4. QED BY <1>5, <2>2, <3>1, <4>3
    <3>2. CASE Dropping(c) # {}
      BY <1>5, <2>2, <3>2
    <3>3. QED BY <3>1, <3>2
  <2>3. QED BY <1>9, <2>1, <2>2 DEF ReadRedis
<1>10. CASE Select(k, c)
  <2>1. CASE Return(k)
    BY <1>6, <1>10, <2>1 DEF Select
  <2>2. ASSUME NEW v \in db[c], call' = [call EXCEPT ![k].at = "fillBoth", ![k].val = {v}]
        PROVE  AgreeBody(c)'
    <3>1. overtaken' = overtaken
      BY <1>10 DEF Select
    <3>2. QED BY <1>5, <1>7, <2>2, <3>1
  <2>3. QED BY <1>10, <2>1, <2>2 DEF Select
<1>11. CASE InsertMessage(k, c)
  BY <1>4, <1>6, <1>11 DEF InsertMessage, Fills
<1>12. QED BY <1>8, <1>9, <1>10, <1>11

\* A step of a call that stores its copy.
LEMMA FillAgree ==
    ASSUME TypeOK, NEW k \in Clients, NEW c \in Convs, RowOK(c), AgreeBody(c),
           cacheConversation(k, c) \/ cacheToRedis(k, c), reasons'[c] = {}
    PROVE  AgreeBody(c)'
<1>0. /\ call[k] \in Calls /\ On(k, c) /\ call[k].at \notin Drops /\ call[k].at \in Fills
      /\ call[k].val \subseteq Conversation
      /\ k \in overtaken \/ call[k].val = db[c]
      /\ ProcessOf[k] \in Processes /\ db' = db
  <2>1. /\ call[k] \in Calls /\ On(k, c) /\ call[k].at \notin Drops /\ call[k].at \in Fills
        /\ ProcessOf[k] \in Processes /\ db' = db
    BY ProcessOfType DEF TypeOK, On, Drops, Fills, cacheConversation, cacheToRedis
  <2>2. k \in overtaken \/ call[k].val = db[c]
    BY <2>1 DEF AgreeBody
  <2>3. QED BY <2>1, <2>2 DEF Calls
<1>1. /\ \A j \in Clients : DroppingAny(j, c) => call'[j] = call[j]
      /\ \A j \in Clients : On(j, c)' /\ call'[j].at \in Fills =>
            \/ j \in overtaken' \/ call'[j].val = db[c]
  <2>1. ASSUME NEW v \in Conversation, GotConversation(k, v), overtaken' = overtaken \ {k}
        PROVE  \E r : /\ call' = [call EXCEPT ![k] = r]
                      /\ r.at \in Fills => k \in overtaken' \/ r.val = db[c]
    <3>1. CASE Continues(k, Idle)
      <4>1. Idle.at \notin Fills
        BY DEF Idle, Fills
      <4>2. QED BY <3>1, <4>1 DEF Continues
    <3>2. CASE Continues(k, [call[k] EXCEPT !.at = "insert", !.val = {v}])
      <4> DEFINE r == [call[k] EXCEPT !.at = "insert", !.val = {v}]
      <4>1. r.at \notin Fills /\ call' = [call EXCEPT ![k] = r]
        BY <1>0, <3>2 DEF Calls, Fills, Continues
      <4> HIDE DEF r
      <4>2. QED BY <4>1
    <3>3. QED BY <2>1, <3>1, <3>2, GotContinues
  <2>2. ASSUME Goto(k, "fillRedis"), overtaken' = overtaken
        PROVE  \E r : /\ call' = [call EXCEPT ![k] = r]
                      /\ r.at \in Fills => k \in overtaken' \/ r.val = db[c]
    <3> DEFINE r == [call[k] EXCEPT !.at = "fillRedis"]
    <3>1. r.val = call[k].val /\ call' = [call EXCEPT ![k] = r]
      BY <1>0, <2>2 DEF Calls, Goto
    <3> HIDE DEF r
    <3>2. QED BY <1>0, <2>2, <3>1
  <2>3. \E r : /\ call' = [call EXCEPT ![k] = r]
               /\ r.at \in Fills => k \in overtaken' \/ r.val = db[c]
    BY <1>0, <2>1, <2>2 DEF cacheConversation, cacheToRedis
  <2>4. \A j \in Clients \ {k} : j \in overtaken => j \in overtaken'
    BY DEF cacheConversation, cacheToRedis
  <2>5. QED BY <1>0, <2>3, <2>4, FillersKept
<1>2. CASE cacheConversation(k, c)
  <2>1. /\ \A p \in Processes : cache'[p][c] = cache[p][c] \/ cache'[p][c] = call[k].val
        /\ redis' = redis
    BY <1>0, <1>2 DEF cacheConversation, TypeOK
  <2>2. CASE call[k].val = db[c]
    BY <1>0, <1>1, <2>1, <2>2, AgreeKept
  <2>3. CASE k \in overtaken
    <3>1. ~ Because(c, "late fill")
      BY BecauseType DEF Reasons
    <3>2. PICK j \in Dropping(c) : call[j].at # "dropRedis"
      BY <1>2, <2>3, <3>1 DEF cacheConversation
    <3>3. j \in Clients /\ DroppingCache(j, c)
      BY <3>2 DEF Dropping, InProgress, DroppingCache, On, Drops
    <3>4. QED BY <1>0, <1>1, <2>1, <3>3, AgreeKept
  <2>4. QED BY <1>0, <2>2, <2>3
<1>3. CASE cacheToRedis(k, c)
  <2>1. cache' = cache /\ (redis'[c] = redis[c] \/ redis'[c] = call[k].val)
    BY <1>3 DEF cacheToRedis, TypeOK
  <2>2. CASE call[k].val = db[c] \/ redis' = redis
    BY <1>0, <1>1, <2>1, <2>2, AgreeKept
  <2>3. CASE k \in overtaken /\ redis' # redis
    <3>1. ~ Because(c, "late fill")
      BY BecauseType DEF Reasons
    <3>2. PICK j \in Dropping(c) : TRUE
      BY <1>3, <2>3, <3>1 DEF cacheToRedis
    <3>3. j \in Clients /\ DroppingAny(j, c)
      BY <3>2 DEF Dropping, InProgress, DroppingAny, On
    <3>4. QED BY <1>0, <1>1, <2>1, <3>3, AgreeKept
  <2>4. QED BY <1>0, <2>2, <2>3
<1>4. QED BY <1>2, <1>3

\* A step of a call that writes the row or drops copies.
LEMMA WriteAgree ==
    ASSUME TypeOK, NEW k \in Clients, NEW c \in Convs, RowOK(c), AgreeBody(c),
           \/ CreateRow(k, c) \/ UpdateRow(k, c)
           \/ invalidateCache(k, c) \/ invalidateRedis(k, c),
           reasons'[c] = {}
    PROVE  AgreeBody(c)'
<1>0. call[k] \in Calls /\ On(k, c) /\ ProcessOf[k] \in Processes
  BY ProcessOfType
     DEF TypeOK, On, CreateRow, UpdateRow, invalidateCache, invalidateRedis
<1>1. ASSUME CreateRow(k, c) PROVE AgreeBody(c)'
  <2>1. Creating(k, c) /\ redis' = redis /\ cache' = cache /\ db'[c] = {NewConversation}
    BY <1>0, <1>1 DEF CreateRow, Creating, TypeOK
  <2>2. /\ redis[c] = {} /\ \A p \in Processes : cache[p][c] = {}
        /\ \A j \in Clients : ~ (On(j, c) /\ call[j].at \in Fills)
    BY <2>1 DEF RowOK
  <2>3. /\ \A j \in Clients \ {k} : call'[j] = call[j]
        /\ call'[k].val = {NewConversation}
    BY <1>0, <1>1 DEF CreateRow, TypeOK, Calls
  <2>4. QED BY <2>1, <2>2, <2>3 DEF AgreeBody, On
<1>2. ASSUME UpdateRow(k, c) PROVE AgreeBody(c)'
  <2>1. /\ call' = [call EXCEPT ![k] = [call[k] EXCEPT !.at = "dropCache"]]
        /\ overtaken' = overtaken \cup (Filling(c) \ {k})
    BY <1>2 DEF UpdateRow, Goto, Overtakes
  <2>2. /\ call'[k].at = "dropCache" /\ call'[k].conv = {c}
        /\ \A j \in Clients \ {k} : call'[j] = call[j]
    BY <1>0, <2>1 DEF TypeOK, Calls, On
  <2>3. DroppingCache(k, c)' /\ DroppingAny(k, c)'
    BY <2>2 DEF DroppingCache, DroppingAny, On, Drops
  <2>4. ASSUME NEW j \in Clients, On(j, c)', call'[j].at \in Fills PROVE j \in overtaken'
    <3>1. j # k
      BY <2>2, <2>4 DEF Fills
    <3>2. j \in Filling(c)
      BY <2>2, <2>4, <3>1 DEF Filling, InProgress, On
    <3>3. QED BY <2>1, <3>1, <3>2
  <2>5. QED BY <2>3, <2>4 DEF AgreeBody
<1>3. ASSUME invalidateCache(k, c) PROVE AgreeBody(c)'
  <2>1. /\ call' = [call EXCEPT ![k] = [call[k] EXCEPT !.at = "dropRedis"]]
        /\ overtaken' = overtaken /\ db' = db
    BY <1>3 DEF invalidateCache, Goto
  <2>2. /\ call'[k].at = "dropRedis" /\ call'[k].conv = {c}
        /\ \A j \in Clients \ {k} : call'[j] = call[j]
    BY <1>0, <2>1 DEF TypeOK, Calls, On
  <2>3. DroppingAny(k, c)'
    BY <2>2 DEF DroppingAny, On, Drops
  <2>4. ~ Because(c, "other process")
    BY BecauseType DEF Reasons
  <2>5. \A p \in Processes \ {ProcessOf[k]} : cache[p][c] = {}
    BY <1>3, <2>4 DEF invalidateCache
  <2>6. \A p \in Processes : cache'[p][c] = {}
    BY <1>0, <1>3, <2>5 DEF invalidateCache, TypeOK
  <2>7. ASSUME NEW j \in Clients, On(j, c)', call'[j].at \in Fills
        PROVE  j \in overtaken' \/ call'[j].val = db'[c]
    <3>1. j # k
      BY <2>2, <2>7 DEF Fills
    <3>2. QED BY <2>1, <2>2, <2>7, <3>1 DEF AgreeBody, On
  <2>8. QED BY <2>3, <2>6, <2>7 DEF AgreeBody
<1>4. ASSUME invalidateRedis(k, c) PROVE AgreeBody(c)'
  <2>1. /\ call' = [call EXCEPT ![k] = Idle] /\ call[k].at = "dropRedis"
        /\ overtaken' = overtaken /\ db' = db /\ cache' = cache
    BY <1>4 DEF invalidateRedis, Return
  <2>2. call'[k] = Idle /\ \A j \in Clients \ {k} : call'[j] = call[j]
    BY <2>1 DEF TypeOK
  <2>3. ~ Because(c, "redis error")
    BY BecauseType DEF Reasons
  <2>4. redis'[c] = {}
    BY <1>4, <2>3 DEF invalidateRedis, TypeOK
  <2>5. \A j \in Clients : DroppingCache(j, c) => DroppingCache(j, c)'
    BY <2>1, <2>2 DEF DroppingCache, On
  <2>6. ASSUME NEW j \in Clients, On(j, c)', call'[j].at \in Fills
        PROVE  j \in overtaken' \/ call'[j].val = db'[c]
    <3>1. j # k
      BY <2>2, <2>6 DEF Fills, Idle
    <3>2. QED BY <2>1, <2>2, <2>6, <3>1 DEF AgreeBody, On
  <2>7. QED BY <2>1, <2>4, <2>5, <2>6 DEF AgreeBody
<1>5. QED BY <1>1, <1>2, <1>3, <1>4

\* Every action keeps the copies fresh, or leaves a reason.
LEMMA StepAgree ==
    ASSUME TypeOK, [Next]_vars, NEW c \in Convs, RowOK(c), AgreeBody(c),
           reasons'[c] = {}
    PROVE  AgreeBody(c)'
<1>0. Idle.at \notin Fills /\ Idle.at \notin Drops
  BY DEF Idle, Fills, Drops
\* A step after which only calls have ended, none of which was dropping.
<1>1. ASSUME db'[c] = db[c], redis'[c] \in {{}, redis[c]},
             \A p \in Processes : cache'[p][c] \in {{}, cache[p][c]},
             \A j \in Clients : \/ call'[j] = call[j] /\ (j \in overtaken => j \in overtaken')
                                \/ call'[j].conv # {c} /\ ~ DroppingAny(j, c)
      PROVE  AgreeBody(c)'
  <2>1. \A j \in Clients : DroppingAny(j, c) => call'[j] = call[j]
    BY <1>1
  <2>2. \A j \in Clients : On(j, c)' /\ call'[j].at \in Fills =>
              \/ j \in overtaken' \/ call'[j].val = db[c]
    BY <1>1 DEF On, AgreeBody
  <2>3. QED BY <1>1, <2>1, <2>2, AgreeKept
<1>2. ASSUME NEW k \in Clients, Return(k), call[k].at \notin Drops, overtaken' = overtaken
      PROVE  \A j \in Clients :
                \/ call'[j] = call[j] /\ (j \in overtaken => j \in overtaken')
                \/ call'[j].conv # {c} /\ ~ DroppingAny(j, c)
  BY <1>2, IdleType DEF Return, TypeOK, DroppingAny
<1>3. ASSUME NEW k \in Clients, NEW d \in Convs, Step(k, d) PROVE AgreeBody(c)'
  <2>1. CASE c = d
    BY <1>3, <2>1, ReadAgree, FillAgree, WriteAgree DEF Step
  <2>2. CASE c # d
    <3>1. /\ db'[c] = db[c] /\ redis'[c] = redis[c]
          /\ \A p \in Processes : cache'[p][c] = cache[p][c]
          /\ call[k].conv # {c}
          /\ \A j \in overtaken : call[j].conv = {c} => j \in overtaken'
      BY <1>3, <2>2, StepElsewhere
    <3>2. PICK r : Continues(k, r)
      BY <1>3, StepCall
    <3>3. /\ \A j \in Clients \ {k} : call'[j] = call[j]
          /\ call'[k].conv # {c}
      BY <3>1, <3>2, IdleType DEF Continues, TypeOK
    <3>4. \A j \in Clients : DroppingAny(j, c) => call'[j] = call[j]
      BY <3>1, <3>3 DEF DroppingAny, On
    <3>5. \A j \in Clients : On(j, c)' /\ call'[j].at \in Fills =>
              \/ j \in overtaken' \/ call'[j].val = db[c]
      BY <3>1, <3>3 DEF On, AgreeBody
    <3>6. QED BY <3>1, <3>4, <3>5, AgreeKept
  <2>3. QED BY <2>1, <2>2
<1>4. ASSUME NEW k \in Clients, DatabaseError(k) PROVE AgreeBody(c)'
  <2>1. Return(k) /\ call[k].at \notin Drops /\ UNCHANGED <<stores, overtaken>>
    BY <1>4 DEF DatabaseError, Drops
  <2>2. QED BY <1>1, <1>2, <2>1
<1>5. ASSUME NEW k \in Clients, NEW d \in Convs, ReplyLost(k, d) PROVE AgreeBody(c)'
  <2>1. /\ Return(k) /\ call[k].at \notin Drops /\ On(k, d)
        /\ redis' = redis /\ cache' = cache
    BY <1>5 DEF ReplyLost, Drops, On
  <2>2. CASE UNCHANGED <<db, overtaken>>
    BY <1>1, <1>2, <2>1, <2>2
  <2>3. CASE call[k].at = "create" /\ db' = [db EXCEPT ![d] = {NewConversation}]
             /\ UNCHANGED overtaken
    <3>1. CASE c = d
      <4>1. Creating(k, c)
        BY <2>1, <2>3, <3>1 DEF Creating
      <4>2. /\ redis[c] = {} /\ \A p \in Processes : cache[p][c] = {}
            /\ \A j \in Clients : ~ (On(j, c) /\ call[j].at \in Fills)
        BY <4>1 DEF RowOK
      <4>3. \A j \in Clients : ~ (On(j, c)' /\ call'[j].at \in Fills)
        BY <1>0, <2>1, <4>2 DEF Return, TypeOK, On
      <4>4. QED BY <2>1, <4>2, <4>3 DEF AgreeBody
    <3>2. CASE c # d
      <4>1. db'[c] = db[c]
        BY <2>3, <3>2 DEF TypeOK
      <4>2. QED BY <1>1, <1>2, <2>1, <2>3, <4>1
    <3>3. QED BY <3>1, <3>2
  <2>4. CASE db' = [db EXCEPT ![d] = Updated(k, @)] /\ Overtakes(k, d)
             /\ Because(d, "reply lost")
    <3>1. c # d
      BY <2>4, BecauseType DEF Reasons
    <3>2. db'[c] = db[c]
      BY <2>4, <3>1 DEF TypeOK
    <3>3. \A j \in Clients : \/ call'[j] = call[j] /\ (j \in overtaken => j \in overtaken')
                             \/ call'[j].conv # {c} /\ ~ DroppingAny(j, c)
      BY <2>1, <2>4, IdleType DEF Return, TypeOK, DroppingAny, Overtakes
    <3>4. QED BY <1>1, <2>1, <3>2, <3>3
  <2>5. QED BY <1>5, <2>2, <2>3, <2>4 DEF ReplyLost
<1>6. ASSUME NEW k \in Clients, NEW op \in Ops, NEW d \in Convs, NEW m \in Msgs,
             Begin(k, op, d, m)
      PROVE  AgreeBody(c)'
  <2>1. PICK r : /\ call' = [call EXCEPT ![k] = r]
                 /\ r.at \in {"create", "lookup", "write"}
    BY <1>6, BeginCall
  <2>2. call[k].at \notin Drops /\ UNCHANGED <<stores, overtaken>>
    BY <1>0, <1>6 DEF Begin
  <2>3. r.at \notin Fills
    BY <2>1 DEF Fills
  <2>4. /\ \A j \in Clients : DroppingAny(j, c) => call'[j] = call[j]
        /\ \A j \in Clients : On(j, c)' /\ call'[j].at \in Fills =>
              \/ j \in overtaken' \/ call'[j].val = db[c]
    BY <2>1, <2>2, <2>3, FillersKept
  <2>5. QED BY <2>2, <2>4, AgreeKept
<1>7. ASSUME NEW p \in Processes, Restart(p) PROVE AgreeBody(c)'
  <2>1. \A j \in Dropping(c) : ProcessOf[j] # p
    BY <1>7 DEF Restart
  <2>2. \A j \in Clients : DroppingAny(j, c) => ProcessOf[j] # p
    BY <2>1 DEF Dropping, InProgress, DroppingAny, On
  <2>3. ASSUME NEW j \in Clients
        PROVE  \/ call'[j] = call[j] /\ (j \in overtaken => j \in overtaken')
               \/ call'[j].conv # {c} /\ ~ DroppingAny(j, c)
    BY <1>7, <2>2, IdleType DEF Restart
  <2>4. /\ \A q \in Processes : cache'[q][c] \in {{}, cache[q][c]}
        /\ db' = db /\ redis' = redis
    BY <1>7 DEF Restart, TypeOK
  <2>5. QED BY <1>1, <2>3, <2>4
<1>8. ASSUME NEW m \in Msgs, NEW d \in Convs, UpdateMessage(m, d) PROVE AgreeBody(c)'
  BY <1>1, <1>8 DEF UpdateMessage
<1>9. ASSUME NEW d \in Convs, RedisExpires(d) PROVE AgreeBody(c)'
  <2>1. redis'[c] \in {{}, redis[c]}
    BY <1>9 DEF RedisExpires, TypeOK
  <2>2. QED BY <1>1, <1>9, <2>1 DEF RedisExpires
<1>10. ASSUME UNCHANGED vars PROVE AgreeBody(c)'
  BY <1>1, <1>10 DEF vars
<1>11. QED
  BY <1>3, <1>4, <1>5, <1>6, <1>7, <1>8, <1>9, <1>10 DEF Next

\* An update keeps a row single, and makes none.
LEMMA UpdatedRow ==
    ASSUME NEW c \in Convs, RowOK(c), NEW k \in Clients, TypeOK, call[k].at = "write"
    PROVE  /\ \A v, w \in Updated(k, db[c]) : v = w
           /\ db[c] = {} => Updated(k, db[c]) = {}
<1>1. call[k].op \in {"add", "archive", "delete"}
  BY DEF TypeOK, PhaseOK
<1>2. \A v, w \in db[c] : v = w
  BY DEF RowOK
<1> DEFINE n == (CHOOSE v \in call[k].val : TRUE).count + 1
<1> HIDE DEF n
<1>3. CASE call[k].op = "add"
  <2>1. Updated(k, db[c]) = {[o EXCEPT !.count = n] : o \in db[c]}
    BY <1>3 DEF Updated, n
  <2>2. QED BY <1>2, <2>1
<1>4. CASE call[k].op = "archive"
  <2>1. Updated(k, db[c]) = {[o EXCEPT !.status = "archived"] : o \in db[c]}
    BY <1>4 DEF Updated
  <2>2. QED BY <1>2, <2>1
<1>5. CASE call[k].op = "delete"
  BY <1>5 DEF Updated
<1>6. QED BY <1>1, <1>3, <1>4, <1>5

\* Only a new call is about to create.
LEMMA StepPlace ==
    ASSUME TypeOK, NEW k \in Clients, NEW c \in Convs, Step(k, c)
    PROVE  \E r : call' = [call EXCEPT ![k] = r] /\ r.at # "create"
<1>0. call[k] \in Calls
  BY DEF TypeOK
<1>1. ASSUME NEW a, Goto(k, a), a # "create"
      PROVE  \E r : call' = [call EXCEPT ![k] = r] /\ r.at # "create"
  <2> DEFINE r == [call[k] EXCEPT !.at = a]
  <2>1. r.at = a /\ call' = [call EXCEPT ![k] = r]
    BY <1>0, <1>1 DEF Goto, Calls
  <2> HIDE DEF r
  <2>2. QED BY <1>1, <2>1
<1>2. ASSUME NEW a, NEW v, call' = [call EXCEPT ![k].at = a, ![k].val = {v}], a # "create"
      PROVE  \E r : call' = [call EXCEPT ![k] = r] /\ r.at # "create"
  <2> DEFINE r == [call[k] EXCEPT !.at = a, !.val = {v}]
  <2>1. r.at = a /\ call' = [call EXCEPT ![k] = r]
    BY <1>0, <1>2 DEF Calls
  <2> HIDE DEF r
  <2>2. QED BY <1>2, <2>1
<1>3. ASSUME Return(k)
      PROVE  \E r : call' = [call EXCEPT ![k] = r] /\ r.at # "create"
  <2>1. Idle.at # "create"
    BY DEF Idle
  <2>2. QED BY <1>3, <2>1 DEF Return
<1>4. ASSUME NEW v, GotConversation(k, v)
      PROVE  \E r : call' = [call EXCEPT ![k] = r] /\ r.at # "create"
  <2>1. CASE call[k].op = "add"
    <3> DEFINE r == [call[k] EXCEPT !.at = "insert", !.val = {v}]
    <3>1. r.at = "insert" /\ call' = [call EXCEPT ![k] = r]
      BY <1>0, <1>4, <2>1 DEF Calls, GotConversation
    <3> HIDE DEF r
    <3>2. QED BY <3>1
  <2>2. CASE call[k].op # "add"
    BY <1>3, <1>4, <2>2 DEF GotConversation, Return
  <2>3. QED BY <2>1, <2>2
<1>5. CASE CreateRow(k, c) \/ ReadRedis(k, c) \/ Select(k, c)
  BY <1>1, <1>2, <1>3, <1>5 DEF CreateRow, ReadRedis, Select
<1>6. CASE Lookup(k, c) \/ cacheConversation(k, c) \/ cacheToRedis(k, c)
  BY <1>1, <1>4, <1>6 DEF Lookup, cacheConversation, cacheToRedis
<1>7. CASE \/ InsertMessage(k, c) \/ UpdateRow(k, c) \/ invalidateCache(k, c)
           \/ invalidateRedis(k, c)
  BY <1>1, <1>3, <1>7 DEF InsertMessage, UpdateRow, invalidateCache, invalidateRedis
<1>8. QED BY <1>5, <1>6, <1>7 DEF Step

\* A step that makes no row keeps it single ...
LEMMA StepRow ==
    ASSUME TypeOK, NEW k \in Clients, NEW c \in Convs, RowOK(c), Step(k, c),
           ~ CreateRow(k, c)
    PROVE  \A v, w \in db'[c] : v = w
<1>1. CASE UpdateRow(k, c)
  <2>1. db'[c] = Updated(k, db[c]) /\ call[k].at = "write"
    BY <1>1 DEF UpdateRow, TypeOK
  <2>2. QED BY <2>1, UpdatedRow
<1>2. CASE ~ UpdateRow(k, c)
  <2>1. db' = db
    BY <1>2 DEF Step, Lookup, ReadRedis, Select, cacheConversation, cacheToRedis,
       InsertMessage, invalidateCache, invalidateRedis
  <2>2. QED BY <2>1 DEF RowOK
<1>3. QED BY <1>1, <1>2

\* ... and where there is none yet, finds nothing and stores nothing.
LEMMA StepUnmade ==
    ASSUME TypeOK, NEW k \in Clients, NEW c \in Convs, RowOK(c), Step(k, c),
           ~ CreateRow(k, c), c \notin created \/ \E j \in Clients : Creating(j, c)
    PROVE  /\ db'[c] = db[c] /\ redis'[c] \in {{}, redis[c]}
           /\ \A p \in Processes : cache'[p][c] \in {{}, cache[p][c]}
           /\ call'[k].at \notin Fills \cup {"create"}
<1>1. /\ db[c] = {} /\ redis[c] = {} /\ \A p \in Processes : cache[p][c] = {}
      /\ ~ (On(k, c) /\ call[k].at \in Fills)
      /\ call[k] \in Calls /\ ProcessOf[k] \in Processes
  BY ProcessOfType DEF RowOK, TypeOK
<1>2. ~ cacheConversation(k, c) /\ ~ cacheToRedis(k, c)
  BY <1>1 DEF cacheConversation, cacheToRedis, On, Fills
<1>3. ASSUME NEW a, Goto(k, a), a \notin Fills \cup {"create"}
      PROVE  call'[k].at \notin Fills \cup {"create"}
  <2>1. call'[k].at = a
    BY <1>1, <1>3 DEF Goto, TypeOK, Calls
  <2>2. QED BY <1>3, <2>1
<1>4. ASSUME Return(k) PROVE call'[k].at \notin Fills \cup {"create"}
  BY <1>4 DEF Return, Idle, Fills, TypeOK
<1>5. CASE Lookup(k, c)
  BY <1>1, <1>3, <1>5 DEF Lookup, Fills
<1>6. CASE ReadRedis(k, c)
  BY <1>1, <1>3, <1>6 DEF ReadRedis, Fills
<1>7. CASE Select(k, c)
  BY <1>1, <1>4, <1>7 DEF Select
<1>8. CASE InsertMessage(k, c)
  BY <1>1, <1>3, <1>4, <1>8 DEF InsertMessage, Fills
<1>9. CASE UpdateRow(k, c)
  <2>1. db'[c] = Updated(k, db[c]) /\ call[k].at = "write"
    BY <1>9 DEF UpdateRow, TypeOK
  <2>2. db'[c] = {}
    BY <1>1, <2>1, UpdatedRow
  <2>3. QED BY <1>1, <1>3, <1>9, <2>2 DEF UpdateRow, Fills
<1>10. CASE invalidateCache(k, c)
  <2>1. \A p \in Processes : cache'[p][c] \in {{}, cache[p][c]}
    BY <1>1, <1>10 DEF invalidateCache, TypeOK
  <2>2. QED BY <1>1, <1>3, <1>10, <2>1 DEF invalidateCache, Fills
<1>11. CASE invalidateRedis(k, c)
  <2>1. redis'[c] \in {{}, redis[c]}
    BY <1>11 DEF invalidateRedis, TypeOK
  <2>2. QED BY <1>1, <1>4, <1>11, <2>1 DEF invalidateRedis
<1>12. QED
  BY <1>2, <1>5, <1>6, <1>7, <1>8, <1>9, <1>10, <1>11 DEF Step

\* Every action keeps a row single, and made once.
LEMMA StepRowOK ==
    ASSUME TypeOK, [Next]_vars, NEW c \in Convs, RowOK(c)
    PROVE  RowOK(c)'
<1>0. Idle.at \notin Fills /\ Idle.at # "create"
  BY DEF Idle, Fills
\* A step that brings nothing new.
<1>1. ASSUME created' = created, db'[c] = db[c], redis'[c] \in {{}, redis[c]},
             \A p \in Processes : cache'[p][c] \in {{}, cache[p][c]},
             \A j \in Clients : \/ On(j, c)' => On(j, c) /\ call'[j].at = call[j].at
                                \/ call'[j].at \notin Fills \cup {"create"}
      PROVE  RowOK(c)'
  <2>1. \A j \in Clients : Creating(j, c)' => Creating(j, c)
    BY <1>1 DEF Creating
  <2>2. \A j \in Clients : On(j, c)' /\ call'[j].at \in Fills
                              => On(j, c) /\ call[j].at \in Fills
    BY <1>1
  <2>3. QED BY <1>1, <2>1, <2>2 DEF RowOK
\* A step after which the row has been made.
<1>2. ASSUME c \in created', \A j \in Clients : ~ Creating(j, c)',
             \A v, w \in db'[c] : v = w
      PROVE  RowOK(c)'
  BY <1>2 DEF RowOK
<1>3. ASSUME NEW k \in Clients, Return(k)
      PROVE  \A j \in Clients : \/ On(j, c)' => On(j, c) /\ call'[j].at = call[j].at
                                \/ call'[j].at \notin Fills \cup {"create"}
  BY <1>0, <1>3 DEF Return, TypeOK, On
<1>4. ASSUME NEW k \in Clients, Creating(k, c), created' = created,
             db'[c] = {NewConversation}, ~ Creating(k, c)',
             \A j \in Clients \ {k} : call'[j] = call[j]
      PROVE  RowOK(c)'
  <2>1. c \in created' /\ \A j \in Clients \ {k} : ~ Creating(j, c)
    BY <1>4 DEF RowOK
  <2>2. \A j \in Clients : ~ Creating(j, c)'
    BY <1>4, <2>1 DEF Creating, On
  <2>3. QED BY <1>2, <1>4, <2>1, <2>2
<1>5. ASSUME NEW k \in Clients, NEW d \in Convs, Step(k, d) PROVE RowOK(c)'
  <2>1. created' = created /\ call[k] \in Calls /\ On(k, d)
    BY <1>5 DEF TypeOK, On, Step, CreateRow, Lookup, ReadRedis, Select,
       cacheConversation, cacheToRedis, InsertMessage, UpdateRow, invalidateCache,
       invalidateRedis
  <2>2. CASE c # d
    <3>1. /\ db'[c] = db[c] /\ redis'[c] = redis[c]
          /\ \A p \in Processes : cache'[p][c] = cache[p][c]
          /\ \A j \in Clients : call'[j] = call[j] \/ call'[j].conv # {c}
      BY <1>5, <2>2, StepElsewhere
    <3>2. QED BY <1>1, <2>1, <3>1 DEF On
  <2>3. CASE c = d /\ CreateRow(k, d)
    <3>1. /\ Creating(k, c) /\ db'[c] = {NewConversation}
          /\ \A j \in Clients \ {k} : call'[j] = call[j]
      BY <2>1, <2>3 DEF CreateRow, TypeOK, Creating, On
    <3>2. call'[k].at = "fillBoth"
      BY <2>1, <2>3 DEF CreateRow, TypeOK, Calls
    <3>3. QED BY <1>4, <2>1, <3>1, <3>2 DEF Creating
  <2>4. CASE c = d /\ ~ CreateRow(k, d)
    <3>1. /\ call[k].at # "create" /\ \A j \in Clients \ {k} : call'[j] = call[j]
          /\ call'[k].at # "create"
      <4>1. call[k].at # "create"
        BY <1>5, <2>4 DEF Step, Lookup, ReadRedis, Select, cacheConversation,
           cacheToRedis, InsertMessage, UpdateRow, invalidateCache, invalidateRedis
      <4>2. \E r : call' = [call EXCEPT ![k] = r] /\ r.at # "create"
        BY <1>5, <2>4, StepPlace
      <4>3. QED BY <4>1, <4>2 DEF TypeOK
    <3>2. \A v, w \in db'[c] : v = w
      BY <1>5, <2>4, StepRow
    <3>3. CASE c \in created /\ \A j \in Clients : ~ Creating(j, c)
      <4>1. \A j \in Clients : ~ Creating(j, c)'
        BY <3>1, <3>3 DEF Creating, On
      <4>2. QED BY <1>2, <2>1, <3>2, <3>3, <4>1
    <3>4. CASE c \notin created \/ \E j \in Clients : Creating(j, c)
      BY <1>1, <1>5, <2>1, <2>4, <3>1, <3>4, StepUnmade DEF On
    <3>5. QED BY <3>3, <3>4
  <2>5. QED BY <2>2, <2>3, <2>4
<1>6. ASSUME NEW k \in Clients, DatabaseError(k) PROVE RowOK(c)'
  BY <1>1, <1>3, <1>6 DEF DatabaseError
<1>7. ASSUME NEW k \in Clients, NEW d \in Convs, ReplyLost(k, d) PROVE RowOK(c)'
  <2>1. Return(k) /\ created' = created /\ redis' = redis /\ cache' = cache /\ On(k, d)
    BY <1>7 DEF ReplyLost, On
  <2>2. CASE db'[c] = db[c]
    BY <1>1, <1>3, <2>1, <2>2
  <2>3. CASE db'[c] # db[c]
    <3>1. c = d
      BY <1>7, <2>3 DEF ReplyLost, TypeOK
    <3>2. CASE call[k].at = "create"
      <4>1. db'[c] = {NewConversation} /\ Creating(k, c)
        BY <1>7, <2>1, <3>1, <3>2 DEF ReplyLost, TypeOK, Creating
      <4>2. ~ Creating(k, c)' /\ \A j \in Clients \ {k} : call'[j] = call[j]
        BY <1>0, <2>1 DEF Return, TypeOK, Creating
      <4>3. QED BY <1>4, <2>1, <4>1, <4>2
    <3>3. CASE call[k].at = "write"
      <4>1. db'[c] = Updated(k, db[c])
        BY <1>7, <3>1, <3>3 DEF ReplyLost, TypeOK
      <4>2. /\ \A v, w \in db'[c] : v = w
            /\ db[c] = {} => db'[c] = {}
        BY <3>3, <4>1, UpdatedRow
      <4>3. c \in created /\ \A j \in Clients : ~ Creating(j, c)
        BY <2>3, <4>2 DEF RowOK
      <4>4. \A j \in Clients : ~ Creating(j, c)'
        BY <1>3, <2>1, <4>3 DEF Creating
      <4>5. QED BY <1>2, <2>1, <4>2, <4>3, <4>4
    <3>4. QED BY <1>7, <2>3, <3>2, <3>3 DEF ReplyLost
  <2>4. QED BY <2>2, <2>3
<1>8. ASSUME NEW k \in Clients, NEW op \in Ops, NEW d \in Convs, NEW m \in Msgs,
             Begin(k, op, d, m)
      PROVE  RowOK(c)'
  <2>1. PICK r : /\ call' = [call EXCEPT ![k] = r] /\ r.conv = {d}
                 /\ r.at \in {"create", "lookup", "write"}
                 /\ r.at = "create" <=> op = "create"
    BY <1>8, BeginCall
  <2>2. UNCHANGED stores /\ call'[k] = r /\ \A j \in Clients \ {k} : call'[j] = call[j]
    BY <1>8, <2>1 DEF Begin, TypeOK
  <2>3. CASE c # d \/ op # "create"
    <3>1. c \in created' <=> c \in created
      BY <1>8, <2>3 DEF Begin
    <3>2. \A j \in Clients : \/ On(j, c)' => On(j, c) /\ call'[j].at = call[j].at
                             \/ call'[j].at \notin Fills \cup {"create"}
      BY <2>1, <2>2, <2>3 DEF On, Fills
    <3>3. \A j \in Clients : Creating(j, c)' => Creating(j, c)
      BY <3>2 DEF Creating
    <3>4. \A j \in Clients : On(j, c)' /\ call'[j].at \in Fills
                                => On(j, c) /\ call[j].at \in Fills
      BY <3>2
    <3>5. QED BY <2>2, <3>1, <3>3, <3>4 DEF RowOK
  <2>4. CASE c = d /\ op = "create"
    <3>1. c \notin created /\ c \in created'
      BY <1>8, <2>4 DEF Begin
    <3>2. \A j \in Clients \ {k} : ~ Creating(j, c)'
      BY <2>2, <3>1 DEF RowOK, Creating, On
    <3>3. \A j \in Clients : ~ (On(j, c)' /\ call'[j].at \in Fills)
      BY <2>1, <2>2, <3>1 DEF RowOK, On, Fills
    <3>4. QED BY <2>2, <3>1, <3>2, <3>3 DEF RowOK
  <2>5. QED BY <2>3, <2>4
<1>9. ASSUME NEW p \in Processes, Restart(p) PROVE RowOK(c)'
  <2>1. \A j \in Clients : \/ On(j, c)' => On(j, c) /\ call'[j].at = call[j].at
                           \/ call'[j].at \notin Fills \cup {"create"}
    BY <1>0, <1>9 DEF Restart, On
  <2>2. \A q \in Processes : cache'[q][c] \in {{}, cache[q][c]}
    BY <1>9 DEF Restart, TypeOK
  <2>3. QED BY <1>1, <1>9, <2>1, <2>2 DEF Restart
<1>10. ASSUME NEW m \in Msgs, NEW d \in Convs, UpdateMessage(m, d) PROVE RowOK(c)'
  BY <1>1, <1>10 DEF UpdateMessage, On
<1>11. ASSUME NEW d \in Convs, RedisExpires(d) PROVE RowOK(c)'
  <2>1. redis'[c] \in {{}, redis[c]}
    BY <1>11 DEF RedisExpires, TypeOK
  <2>2. QED BY <1>1, <1>11, <2>1 DEF RedisExpires, On
<1>12. ASSUME UNCHANGED vars PROVE RowOK(c)'
  BY <1>1, <1>12 DEF vars, On
<1>13. QED
  BY <1>5, <1>6, <1>7, <1>8, <1>9, <1>10, <1>11, <1>12 DEF Next

\* At the start there is nothing to copy.
LEMMA InitAgree == Init => AgreeInv
<1> SUFFICES ASSUME Init, NEW c \in Convs PROVE RowOK(c) /\ AgreeBody(c)
  BY DEF AgreeInv
<1>1. \A k \in Clients : ~ On(k, c)
  BY IdleType DEF Init, On
<1>2. db[c] = {} /\ redis[c] = {} /\ \A p \in Processes : cache[p][c] = {}
  BY DEF Init
<1>3. QED BY <1>1, <1>2 DEF RowOK, AgreeBody, Creating

(* Copies go stale in five ways and in no other: where none of the five    *)
(* has happened to a conversation and no update is between its write and   *)
(* the end of its invalidations, every copy in Redis and in the memory of  *)
(* every process is the row, for any number of processes and requests,     *)
(* whichever reads, updates, database errors, expiries and restarts there  *)
(* were and are going on.                                                  *)
THEOREM CopiesStayFresh == Spec => []CopiesAgree
<1>1. TypeOK /\ AgreeInv /\ [Next]_vars => (TypeOK /\ AgreeInv)'
  BY StepTypeOK, StepRowOK, StepAgree, ReasonsGrow DEF AgreeInv
<1>2. Init => TypeOK /\ AgreeInv
  BY InitTypeOK, InitAgree
<1>3. QED BY <1>1, <1>2, AgreeInvMeaning, PTL DEF Spec

=============================================================================
