---------------------------- MODULE Conversation ----------------------------
(***************************************************************************)
(* StateManager of internal/conversation: conversations in memory over a   *)
(* store (the Redis store of persistence.go).  The methods take sm.mutex   *)
(* for single steps: GetConversation and GetUserConversations look up,     *)
(* load and fill in three steps with other calls in between; AddMessage,   *)
(* UpdateConversationState and DeleteConversation are one step; the        *)
(* clean-up task lists what has expired and then deletes it one by one.    *)
(*                                                                         *)
(* The methods are called by clients, the handlers of Submission.  Redis   *)
(* is external; its commands may fail.  Time is abstract: any conversation *)
(* may have expired when the clean-up looks, so LastActiveTime, the state  *)
(* and the metadata of a conversation are left out; that they are saved    *)
(* with its messages is not.                                               *)
(***************************************************************************)
EXTENDS Integers, Sequences, FiniteSets, SequencesExt

CONSTANTS
    Convs,             \* conversation identifiers
    Users,             \* user identifiers, "" included
    Msgs,              \* messages, each submitted once
    Clients,           \* requests that may be in progress at the same time
    MaxContextLength,  \* messages kept of a conversation, 0 for all
    MaxConversations   \* conversations listed of a user, 0 for all

ASSUME LimitsType == MaxContextLength \in Int /\ MaxConversations \in Int

VARIABLES
    conversations,   \* sm.conversations: a set of at most one object each
    activeUsers,     \* sm.activeUsers
    store,           \* the saved conversations, likewise
    expiredIDs,      \* what the clean-up has listed and not yet deleted
    call,            \* the call each client is in
    log,             \* history: messages added since the last deletion
    spoiled          \* history: what has cost the conversation messages

convVars == <<conversations, activeUsers, store, log, spoiled>>

-----------------------------------------------------------------------------
\* An object: its owner and its messages.
NewConversation(u) == [user |-> u, msgs |-> <<>>]

\* The end of a sequence that fits into the context.
Context(s) ==
    IF MaxContextLength > 0 /\ Len(s) > MaxContextLength
    THEN SubSeq(s, Len(s) - MaxContextLength + 1, Len(s)) ELSE s

NoCall == [op |-> "none", at |-> "none", conv |-> {}, user |-> {}, msg |-> {},
           val |-> {}, todo |-> {}]

ConvInit ==
    /\ conversations = [c \in Convs |-> {}]
    /\ activeUsers = [u \in Users |-> <<>>]
    /\ store = [c \in Convs |-> {}]
    /\ expiredIDs = {}
    /\ call = [k \in Clients |-> NoCall]
    /\ log = [c \in Convs |-> <<>>]
    /\ spoiled = [c \in Convs |-> "no"]

-----------------------------------------------------------------------------
(* Saving. *)

\* SaveConversation of the conversations in S, as they are in memory M: each
\* may fail, which is logged.  H is what has spoiled them before: a save that
\* succeeds makes up for earlier ones that did not.
Save(S, M, H) ==
    \E done \in SUBSET S :
        /\ store' = [c \in Convs |-> IF c \in done THEN M[c] ELSE store[c]]
        /\ spoiled' = [c \in Convs |->
              CASE c \in done /\ H[c] = "unsaved" -> "no"
                [] c \in S \ done /\ H[c] = "no" -> "unsaved"
                [] OTHER -> H[c]]

\* A conversation leaves memory: what was not saved is gone for good.
Forgotten(h) == IF h = "unsaved" THEN "lost" ELSE h

-----------------------------------------------------------------------------
(* GetConversation. *)

\* A method has returned: submitMessage goes on to AddMessage, the other
\* handlers answer.
Returned(r) ==
    IF r.op = "submit" THEN [r EXCEPT !.at = "add", !.val = {}] ELSE NoCall

\* A conversation that is found is returned (and its LastActiveTime set, in a
\* second critical section).
GetLookup(k, c) ==
    /\ call[k].at = "lookup" /\ call[k].conv = {c}
    /\ call' = [call EXCEPT ![k] = IF conversations[c] # {} THEN Returned(@)
                                   ELSE [@ EXCEPT !.at = "load"]]
    /\ UNCHANGED <<convVars, expiredIDs>>

\* LoadConversation, without the lock.  An error is taken for a conversation
\* that does not exist, and a new one is made.
GetLoad(k, c) ==
    /\ call[k].at = "load" /\ call[k].conv = {c}
    /\ \/ /\ store[c] # {}
          /\ call' = [call EXCEPT ![k].at = "fill", ![k].val = store[c]]
          /\ UNCHANGED spoiled
       \/ /\ call' = [call EXCEPT ![k].at = "fill",
                                  ![k].val = {NewConversation(u) : u \in call[k].user}]
          /\ spoiled' = IF store[c] = {} THEN spoiled
                        ELSE [spoiled EXCEPT ![c] = "lost"]
    /\ UNCHANGED <<conversations, activeUsers, store, log, expiredIDs>>

\* What a fill puts into memory is not what is there or in the store now.
StaleFill(c, val) ==
    \E v \in val : \/ \E o \in conversations[c] \cup store[c] : o.msgs # v.msgs
                   \/ store[c] = {} /\ v.msgs # <<>>

FillSpoils(c, val) ==
    IF StaleFill(c, val) THEN [spoiled EXCEPT ![c] = "lost"] ELSE spoiled

\* addToActiveUsers: the list of the user, and who drops out of it.
Listed(u, c) ==
    IF c \in ToSet(activeUsers[u]) THEN activeUsers[u] ELSE Append(activeUsers[u], c)
Excess(u, c) ==
    IF MaxConversations > 0 /\ Len(Listed(u, c)) > MaxConversations
    THEN Len(Listed(u, c)) - MaxConversations ELSE 0
Evicted(u, c) == ToSet(SubSeq(Listed(u, c), 1, Excess(u, c)))

\* The object is put into memory, whatever is there by now, and the user's
\* list grows; the oldest on it are archived and saved.
GetFill(k, c) ==
    /\ call[k].at = "fill" /\ call[k].conv = {c}
    /\ \E u \in call[k].user :
          LET Filled == [conversations EXCEPT ![c] = call[k].val]
          IN  /\ conversations' = Filled
              /\ activeUsers' = [activeUsers EXCEPT ![u] =
                    SubSeq(Listed(u, c), Excess(u, c) + 1, Len(Listed(u, c)))]
              /\ Save({d \in Evicted(u, c) : Filled[d] # {}}, Filled,
                      FillSpoils(c, call[k].val))
    /\ call' = [call EXCEPT ![k] = Returned(@)]
    /\ UNCHANGED <<log, expiredIDs>>

-----------------------------------------------------------------------------
(* GetUserConversations. *)

\* ListUserConversations of the store: errors in keeping the user's set are
\* ignored, so it may have any entries.
SavedIDs == SUBSET Convs

\* The user's list; if it is empty the store is asked, which may fail.
ListIDs(k) ==
    /\ call[k].at = "list"
    /\ \E u \in call[k].user :
          \/ /\ activeUsers[u] # <<>>
             /\ call' = [call EXCEPT ![k].at = "each", ![k].todo = ToSet(activeUsers[u])]
          \/ /\ activeUsers[u] = <<>>
             /\ \/ \E ids \in SavedIDs :
                     call' = [call EXCEPT ![k].at = "each", ![k].todo = ids]
                \/ call' = [call EXCEPT ![k] = Returned(@)]
    /\ UNCHANGED <<convVars, expiredIDs>>

\* The next of them, if it is not in memory, is loaded; one that cannot be
\* loaded is left out.
ListNext(k) ==
    /\ call[k].at = "each"
    /\ \/ \E c \in call[k].todo :
            call' = [call EXCEPT ![k].todo = @ \ {c}, ![k].conv = {c},
                       ![k].at = IF conversations[c] = {} THEN "eachLoad" ELSE "each"]
       \/ call[k].todo = {} /\ call' = [call EXCEPT ![k] = Returned(@)]
    /\ UNCHANGED <<convVars, expiredIDs>>

ListLoad(k, c) ==
    /\ call[k].at = "eachLoad" /\ call[k].conv = {c}
    /\ \/ /\ store[c] # {}
          /\ call' = [call EXCEPT ![k].at = "eachFill", ![k].val = store[c]]
       \/ call' = [call EXCEPT ![k].at = "each"]
    /\ UNCHANGED <<convVars, expiredIDs>>

ListFill(k, c) ==
    /\ call[k].at = "eachFill" /\ call[k].conv = {c}
    /\ conversations' = [conversations EXCEPT ![c] = call[k].val]
    /\ spoiled' = FillSpoils(c, call[k].val)
    /\ call' = [call EXCEPT ![k].at = "each", ![k].val = {}]
    /\ UNCHANGED <<activeUsers, store, log, expiredIDs>>

-----------------------------------------------------------------------------
(* The methods that are one critical section. *)

\* Variant of AddMessage: save before trimming the context.
AddMessageSavedUntrimmed(c, m) ==
    /\ conversations[c] # {}
    /\ conversations' = [conversations EXCEPT ![c] =
          {[o EXCEPT !.msgs = Context(Append(@, m))] : o \in conversations[c]}]
    /\ log' = [log EXCEPT ![c] = Append(@, m)]
    /\ Save({c}, [conversations EXCEPT ![c] =
          {[o EXCEPT !.msgs = Append(@, m)] : o \in conversations[c]}], spoiled)
    /\ UNCHANGED <<activeUsers, expiredIDs>>

\* AddMessage to a conversation in memory: append, trim, save.
AddMessage(c, m) ==
    /\ conversations[c] # {}
    /\ conversations' = [conversations EXCEPT ![c] =
          {[o EXCEPT !.msgs = Context(Append(@, m))] : o \in conversations[c]}]
    /\ log' = [log EXCEPT ![c] = Append(@, m)]
    /\ Save({c}, conversations', spoiled)
    /\ UNCHANGED <<activeUsers, expiredIDs>>

\* UpdateConversationState and UpdateConversationMetadata save what they have
\* changed.
UpdateConversation(c) ==
    /\ conversations[c] # {}
    /\ Save({c}, conversations, spoiled)
    /\ UNCHANGED <<conversations, activeUsers, log, expiredIDs, call>>

\* DeleteConversation of the store; the history of c ends, unless it fails.
DeleteSaved(c) ==
    \/ /\ store' = [store EXCEPT ![c] = {}]
       /\ log' = [log EXCEPT ![c] = <<>>]
       /\ spoiled' = [spoiled EXCEPT ![c] = "no"]
    \/ /\ spoiled' = [spoiled EXCEPT ![c] = Forgotten(@)]
       /\ UNCHANGED <<store, log>>

\* DeleteConversation of one in memory: first there, then in the store.
Without(s, c) == SelectSeq(s, LAMBDA d : d # c)

DeleteConversation(c) ==
    /\ \E o \in conversations[c] :
          activeUsers' = [activeUsers EXCEPT ![o.user] = Without(@, c)]
    /\ conversations' = [conversations EXCEPT ![c] = {}]
    /\ DeleteSaved(c)
    /\ UNCHANGED call

-----------------------------------------------------------------------------
(* Clean-up. *)

\* The ticker: list what has expired, by its age, its idle time or the time
\* since its completion.
CleanupList ==
    /\ expiredIDs = {}
    /\ expiredIDs' \in (SUBSET {c \in Convs : conversations[c] # {}}) \ {{}}
    /\ UNCHANGED <<convVars, call>>

\* Delete the next on the list, without looking again.
CleanupDelete(c) ==
    /\ c \in expiredIDs
    /\ expiredIDs' = expiredIDs \ {c}
    /\ \/ DeleteConversation(c)
       \/ conversations[c] = {} /\ UNCHANGED <<convVars, call>>

\* The saved conversation expires in Redis.  Without a copy in memory that
\* is its end, like a deletion; otherwise the next save brings it back.
StoreExpires(c) ==
    /\ store[c] # {}
    /\ store' = [store EXCEPT ![c] = {}]
    /\ IF conversations[c] = {}
       THEN /\ log' = [log EXCEPT ![c] = <<>>]
            /\ spoiled' = [spoiled EXCEPT ![c] = "no"]
       ELSE /\ spoiled' = [spoiled EXCEPT ![c] = IF @ = "no" THEN "unsaved" ELSE @]
            /\ UNCHANGED log
    /\ UNCHANGED <<conversations, activeUsers, expiredIDs, call>>

\* The process ends and is started again: memory is gone.
ConvRestart ==
    /\ conversations' = [c \in Convs |-> {}]
    /\ activeUsers' = [u \in Users |-> <<>>]
    /\ expiredIDs' = {}
    /\ call' = [k \in Clients |-> NoCall]
    /\ spoiled' = [c \in Convs |-> Forgotten(spoiled[c])]
    /\ UNCHANGED <<store, log>>

-----------------------------------------------------------------------------
ConvStep(k) ==
    \/ ListIDs(k) \/ ListNext(k)
    \/ \E c \in Convs : \/ GetLookup(k, c) \/ GetLoad(k, c) \/ GetFill(k, c)
                        \/ ListLoad(k, c) \/ ListFill(k, c)

CleanupStep == CleanupList \/ \E c \in Convs : CleanupDelete(c)

-----------------------------------------------------------------------------
(* Properties. *)

(* State recovery: a conversation has the messages that were added to it,  *)
(* the last MaxContextLength of them, in memory and in the store, and it   *)
(* can be recovered after a restart, unless one of these has happened      *)
(* since it was created: a call filled memory with what it had read before *)
(* another call changed it, a load failed and was taken for "not found",   *)
(* or a save failed, or expired, and no later one made up for it.          *)
HistoryKept ==
    \A c \in Convs : spoiled[c] = "no" =>
        /\ \A o \in conversations[c] \cup store[c] : o.msgs = Context(log[c])
        /\ log[c] # <<>> => store[c] # {}
=============================================================================
