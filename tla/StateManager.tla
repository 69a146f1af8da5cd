---------------------------- MODULE StateManager ----------------------------
(***************************************************************************)
(* StateManager (internal/statemanager/manager.go): conversations in       *)
(* PostgreSQL, behind a copy in Redis that all processes share and a copy  *)
(* in the memory of each process that never expires.  Reads fill the       *)
(* copies, updates write the database and then drop them, first the own    *)
(* memory, then Redis.  Every access to one of the three is a step of its  *)
(* own; between them other requests run, in this and in other processes    *)
(* (cmd/api-gateway, of which several run side by side).                   *)
(*                                                                         *)
(* PostgreSQL and Redis are external: single statements are atomic, and    *)
(* any of them may fail, a cancelled request included, before or after it  *)
(* has had its effect; but none has its effect after its call has ended.   *)
(***************************************************************************)
EXTENDS Naturals, FiniteSets

CONSTANTS
    Convs,       \* conversation identifiers
    Msgs,        \* message identifiers
    Processes,   \* processes, each with a StateManager
    Clients,     \* requests that may be in progress at the same time
    ProcessOf,   \* the process that serves each client
    MaxCalls     \* bound: calls started altogether

ASSUME ProcessOfType == ProcessOf \in [Clients -> Processes]
ASSUME MsgsFinite == IsFiniteSet(Msgs)
ASSUME MaxCallsNat == MaxCalls \in Nat

VARIABLES
    db,          \* conversations table: a set of at most one row each
    rows,        \* messages table: the conversation of every message row
    redis,       \* conversation:<id> keys, a set of at most one copy each
    cache,       \* StateManager.cache of every process, likewise
    call,        \* the call each client is in
    calls,       \* calls started so far
    created,     \* identifiers that generateConversationID has handed out
    inserted,    \* history: messages whose row AddMessage put into each
                 \* conversation
    overtaken,   \* history: clients about to store a copy read before a write
                 \* that has been made since, or during an update
    reasons      \* history: what may have left an old copy behind

stores == <<db, rows, redis, cache>>
histories == <<inserted, overtaken, reasons>>
vars == <<stores, call, calls, created, histories>>

-----------------------------------------------------------------------------
(* A conversation is what the properties tell apart: its MessageCount and  *)
(* its status.                                                             *)
Conversation == [count : Nat, status : {"active", "archived"}]
NewConversation == [count |-> 0, status |-> "active"]

\* No call in progress.
Idle == [op |-> "none", at |-> "none", conv |-> {}, msg |-> {}, val |-> {}]

Ops == {"create", "get", "add", "archive", "delete"}

\* The message rows of a conversation.
RowsOf(c) == {m \in Msgs : rows[m] = {c}}

InProgress(c) == {k \in Clients : call[k].conv = {c}}

\* Calls that are going to store the copy they have in hand, and calls that
\* have made their write and not yet dropped the copies.
Fills == {"fill", "fillBoth", "fillRedis"}
Drops == {"dropCache", "dropRedis"}
Filling(c) == {k \in InProgress(c) : call[k].at \in Fills}
Dropping(c) == {k \in InProgress(c) : call[k].at \in Drops}

Init ==
    /\ db = [c \in Convs |-> {}]
    /\ rows = [m \in Msgs |-> {}]
    /\ redis = [c \in Convs |-> {}]
    /\ cache = [p \in Processes |-> [c \in Convs |-> {}]]
    /\ call = [k \in Clients |-> Idle]
    /\ calls = 0
    /\ created = {}
    /\ inserted = [c \in Convs |-> {}]
    /\ overtaken = {}
    /\ reasons = [c \in Convs |-> {}]

-----------------------------------------------------------------------------
(* Calls begin and end. *)

\* The first thing each operation does.
First(op) == CASE op = "create" -> "create"
               [] op \in {"get", "add"} -> "lookup"
               [] op \in {"archive", "delete"} -> "write"

\* A request for conversation c; an AddMessage brings a message.  No other
\* request knows the identifier of a conversation that is to be created.
Begin(k, op, c, m) ==
    /\ call[k] = Idle /\ calls < MaxCalls
    /\ op = "create" => c \notin created /\ InProgress(c) = {}
    /\ created' = IF op = "create" THEN created \cup {c} ELSE created
    /\ call' = [call EXCEPT ![k] =
          [op |-> op, at |-> First(op), conv |-> {c},
           msg |-> IF op = "add" THEN {m} ELSE {}, val |-> {}]]
    /\ calls' = calls + 1
    /\ UNCHANGED <<stores, histories>>

Goto(k, at) == call' = [call EXCEPT ![k].at = at]
Return(k) == call' = [call EXCEPT ![k] = Idle]

\* GetConversation returns v: to the client, or to AddMessage.
GotConversation(k, v) ==
    call' = [call EXCEPT ![k] =
        IF @.op = "add" THEN [@ EXCEPT !.at = "insert", !.val = {v}] ELSE Idle]

\* Something has happened that may leave an old copy of c behind.
Because(c, reason) == reasons' = [reasons EXCEPT ![c] = @ \cup {reason}]

\* A write to the row of c overtakes the calls that hold a copy of it.
Overtakes(k, c) == overtaken' = overtaken \cup (Filling(c) \ {k})

\* Any access to PostgreSQL may fail, and ends the call with an error ...
DatabaseError(k) ==
    /\ call[k].at \in {"create", "select", "insert", "write"}
    /\ Return(k)
    /\ UNCHANGED <<stores, calls, created, histories>>

-----------------------------------------------------------------------------
(* CreateConversation and GetConversation. *)

\* db.Create(conversation): the identifier is new.
CreateRow(k, c) ==
    /\ call[k].at = "create" /\ call[k].conv = {c}
    /\ db' = [db EXCEPT ![c] = {NewConversation}]
    /\ call' = [call EXCEPT ![k].at = "fillBoth", ![k].val = {NewConversation}]
    /\ UNCHANGED <<rows, redis, cache, calls, created, histories>>

\* The look-up in memory.
Lookup(k, c) ==
    /\ call[k].at = "lookup" /\ call[k].conv = {c}
    /\ \/ \E v \in cache[ProcessOf[k]][c] : GotConversation(k, v)
       \/ cache[ProcessOf[k]][c] = {} /\ Goto(k, "redis")
    /\ UNCHANGED <<stores, calls, created, histories>>

\* getFromRedis: a copy, or none, or an error taken for none.
ReadRedis(k, c) ==
    /\ call[k].at = "redis" /\ call[k].conv = {c}
    /\ \/ /\ \E v \in redis[c] :
                call' = [call EXCEPT ![k].at = "fill", ![k].val = {v}]
          /\ overtaken' = IF Dropping(c) = {} THEN overtaken ELSE overtaken \cup {k}
       \/ Goto(k, "select") /\ UNCHANGED overtaken
    /\ UNCHANGED <<stores, calls, created, inserted, reasons>>

\* db.First: a row, or "conversation not found".
Select(k, c) ==
    /\ call[k].at = "select" /\ call[k].conv = {c}
    /\ \/ \E v \in db[c] :
             call' = [call EXCEPT ![k].at = "fillBoth", ![k].val = {v}]
       \/ db[c] = {} /\ Return(k)
    /\ UNCHANGED <<stores, calls, created, histories>>

\* cacheConversation, of what Redis or of what the database had.  An overtaken
\* copy is late unless an update is still going to drop it again.
cacheConversation(k, c) ==
    /\ call[k].at \in {"fill", "fillBoth"} /\ call[k].conv = {c}
    /\ cache' = [cache EXCEPT ![ProcessOf[k]][c] = call[k].val]
    /\ IF /\ k \in overtaken
          /\ \A j \in Dropping(c) :
                call[j].at = "dropRedis" \/ ProcessOf[j] # ProcessOf[k]
       THEN Because(c, "late fill") ELSE UNCHANGED reasons
    /\ \E v \in call[k].val :
          IF call[k].at = "fill"
          THEN GotConversation(k, v) /\ overtaken' = overtaken \ {k}
          ELSE Goto(k, "fillRedis") /\ UNCHANGED overtaken
    /\ UNCHANGED <<db, rows, redis, calls, created, inserted>>

\* cacheToRedis; its error is ignored.
cacheToRedis(k, c) ==
    /\ call[k].at = "fillRedis" /\ call[k].conv = {c}
    /\ \/ UNCHANGED <<redis, reasons>>
       \/ /\ redis' = [redis EXCEPT ![c] = call[k].val]
          /\ IF k \in overtaken /\ Dropping(c) = {}
             THEN Because(c, "late fill") ELSE UNCHANGED reasons
    /\ \E v \in call[k].val : GotConversation(k, v)
    /\ overtaken' = overtaken \ {k}
    /\ UNCHANGED <<db, rows, cache, calls, created, inserted>>

-----------------------------------------------------------------------------
(* AddMessage and the updates. *)

\* The row of a message that has none.
Inserted(m, c) ==
    /\ rows' = [rows EXCEPT ![m] = {c}]
    /\ inserted' = [inserted EXCEPT ![c] = @ \cup {m}]

\* Variant of InsertMessage for mutation: the error is not looked at.
InsertMessageUnchecked(k, c) ==
    /\ call[k].at = "insert" /\ call[k].conv = {c}
    /\ \E m \in call[k].msg :
          IF rows[m] = {} THEN Inserted(m, c) ELSE UNCHANGED <<rows, inserted>>
    /\ Goto(k, "write")
    /\ UNCHANGED <<db, redis, cache, calls, created, overtaken, reasons>>

\* db.Create(message); an identifier that exists is an error.
InsertMessage(k, c) ==
    /\ call[k].at = "insert" /\ call[k].conv = {c}
    /\ \E m \in call[k].msg :
          IF rows[m] = {}
          THEN Inserted(m, c) /\ Goto(k, "write")
          ELSE UNCHANGED <<rows, inserted>> /\ Return(k)
    /\ UNCHANGED <<db, redis, cache, calls, created, overtaken, reasons>>

\* What the row becomes: AddMessage counts from the copy it was given.
Updated(k, old) ==
    CASE call[k].op = "add" ->
            {[o EXCEPT !.count = (CHOOSE v \in call[k].val : TRUE).count + 1] :
                o \in old}
      [] call[k].op = "archive" -> {[o EXCEPT !.status = "archived"] : o \in old}
      [] call[k].op = "delete" -> {}

\* Variant of UpdateRow for mutation: the copy in memory is not dropped.
UpdateRowKeepsCache(k, c) ==
    /\ call[k].at = "write" /\ call[k].conv = {c}
    /\ db' = [db EXCEPT ![c] = Updated(k, @)]
    /\ Goto(k, "dropRedis")
    /\ Overtakes(k, c)
    /\ UNCHANGED <<rows, redis, cache, calls, created, inserted, reasons>>

\* db.Updates or db.Delete; a row that is gone is no error.
UpdateRow(k, c) ==
    /\ call[k].at = "write" /\ call[k].conv = {c}
    /\ db' = [db EXCEPT ![c] = Updated(k, @)]
    /\ Goto(k, "dropCache")
    /\ Overtakes(k, c)
    /\ UNCHANGED <<rows, redis, cache, calls, created, inserted, reasons>>

\* ... even after the write has been made: an error ends the call all the same,
\* before its next write or, after the last one, before any copy is dropped.
ReplyLost(k, c) ==
    /\ call[k].conv = {c}
    /\ \/ /\ call[k].at = "create"
          /\ db' = [db EXCEPT ![c] = {NewConversation}]
          /\ UNCHANGED <<rows, histories>>
       \/ /\ call[k].at = "insert"
          /\ \E m \in call[k].msg : rows[m] = {} /\ Inserted(m, c)
          /\ UNCHANGED <<db, overtaken, reasons>>
       \/ /\ call[k].at = "write"
          /\ db' = [db EXCEPT ![c] = Updated(k, @)]
          /\ Overtakes(k, c)
          /\ Because(c, "reply lost")
          /\ UNCHANGED <<rows, inserted>>
    /\ Return(k)
    /\ UNCHANGED <<redis, cache, calls, created>>

\* The copies of other processes stay as they are.
invalidateCache(k, c) ==
    /\ call[k].at = "dropCache" /\ call[k].conv = {c}
    /\ cache' = [cache EXCEPT ![ProcessOf[k]][c] = {}]
    /\ IF \E p \in Processes \ {ProcessOf[k]} : cache[p][c] # {}
       THEN Because(c, "other process") ELSE UNCHANGED reasons
    /\ Goto(k, "dropRedis")
    /\ UNCHANGED <<db, rows, redis, calls, created, inserted, overtaken>>

\* invalidateRedis; its error is ignored.
invalidateRedis(k, c) ==
    /\ call[k].at = "dropRedis" /\ call[k].conv = {c}
    /\ \/ redis' = [redis EXCEPT ![c] = {}] /\ UNCHANGED reasons
       \/ UNCHANGED redis /\ Because(c, "redis error")
    /\ Return(k)
    /\ UNCHANGED <<db, rows, cache, calls, created, inserted, overtaken>>

\* UpdateMessage, called by cmd/queue-manager: db.Save writes every column of
\* the row, or inserts it.  The message brings its conversation, so the row may
\* move from one conversation to another; neither count is touched.
UpdateMessage(m, c) ==
    /\ rows' = [rows EXCEPT ![m] = {c}]
    /\ UNCHANGED <<db, redis, cache, call, calls, created, histories>>

-----------------------------------------------------------------------------
(* The world around. *)

\* A key expires after 24 hours, or Redis drops it.
RedisExpires(c) ==
    /\ redis[c] # {}
    /\ redis' = [redis EXCEPT ![c] = {}]
    /\ UNCHANGED <<db, rows, cache, call, calls, created, histories>>

\* A process ends, in the middle of its calls, and is started again.
Restart(p) ==
    /\ cache' = [cache EXCEPT ![p] = [c \in Convs |-> {}]]
    /\ call' = [k \in Clients |-> IF ProcessOf[k] = p THEN Idle ELSE call[k]]
    /\ reasons' = [c \in Convs |->
          IF \E k \in Dropping(c) : ProcessOf[k] = p
          THEN reasons[c] \cup {"restart"} ELSE reasons[c]]
    /\ overtaken' = {k \in overtaken : ProcessOf[k] # p}
    /\ cache' # cache \/ call' # call
    /\ UNCHANGED <<db, rows, redis, calls, created, inserted>>

-----------------------------------------------------------------------------
Step(k, c) ==
    \/ CreateRow(k, c) \/ Lookup(k, c) \/ ReadRedis(k, c) \/ Select(k, c)
    \/ cacheConversation(k, c) \/ cacheToRedis(k, c) \/ InsertMessage(k, c)
    \/ UpdateRow(k, c) \/ invalidateCache(k, c) \/ invalidateRedis(k, c)

Next ==
    \/ \E k \in Clients, op \in Ops, c \in Convs, m \in Msgs : Begin(k, op, c, m)
    \/ \E k \in Clients, c \in Convs : Step(k, c)
    \/ \E k \in Clients : DatabaseError(k)
    \/ \E k \in Clients, c \in Convs : ReplyLost(k, c)
    \/ \E m \in Msgs, c \in Convs : UpdateMessage(m, c)
    \/ \E c \in Convs : RedisExpires(c)
    \/ \E p \in Processes : Restart(p)

Spec == Init /\ [][Next]_vars

-----------------------------------------------------------------------------
(* Properties. *)

(* MessageCount is computed from a copy, so concurrent calls lose counts   *)
(* and a late one takes counts back.  It never claims a message that was   *)
(* not added: at every moment the count in the database, in every copy and *)
(* in every copy a call has in hand is at most the number of messages that *)
(* AddMessage has inserted into the conversation.  Not all of these need   *)
(* still be there: UpdateMessage may have moved them.                      *)
CountHasInserts ==
    \A c \in Convs :
        LET Copies == db[c] \cup redis[c]
                        \cup (UNION {cache[p][c] : p \in Processes})
                        \cup (UNION {call[k].val : k \in InProgress(c)})
        IN  \A v \in Copies : v.count <= Cardinality(inserted[c])

(* Copies left behind.  Whatever reads and updates of a conversation are   *)
(* in progress, unless an update is between its write and the end of its   *)
(* invalidations, the copies in Redis and in every process are what the    *)
(* database has - or one of five things has happened since the             *)
(* conversation was created: a read stored its copy after a write had      *)
(* overtaken it and its copies been dropped, a copy was in the memory of   *)
(* another process at an update, Redis failed to delete, a process ended   *)
(* in the middle of an update, or a write was made but its call told that  *)
(* it failed.                                                              *)
CopiesAgree ==
    \A c \in Convs : Dropping(c) = {} /\ reasons[c] = {} =>
        \A copies \in {redis[c]} \cup {cache[p][c] : p \in Processes} :
            copies = {} \/ copies = db[c]
=============================================================================
