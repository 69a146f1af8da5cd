----------------------------- MODULE Submission -----------------------------
(***************************************************************************)
(* The handlers of api/handlers.go that move messages and conversations,   *)
(* run by cmd/server: they compose the preprocessor, the queue factory and *)
(* its "standard" queue manager, and the conversation manager.             *)
(*                                                                         *)
(* submitMessage pushes the message and then adds it to its conversation;  *)
(* addMessageToConversation adds it first and then pushes.  A request is a *)
(* client that goes through the steps of its handler.  A message without a *)
(* conversation is done after its push; every message here has one.  The   *)
(* queues are the ones created in the manager, reduced to what they hold   *)
(* and their limit; cmd/server creates none and has no workers.            *)
(***************************************************************************)
EXTENDS Conversation, Preprocessor

CONSTANTS
    RequestOf,    \* what the preprocessor sees of each message
    UserOf,       \* the message's user
    ConvOf,       \* the message's conversation
    Anonymous,    \* the user "" of getConversation
    AskedPriorities,  \* what setUserPriority is asked for
    QueueNames,   \* priorities whose queue has been created
    MaxSize,      \* the limit of a queue, 0 for none
    MaxCalls,     \* bound: requests started altogether
    MaxRestarts   \* bound: restarts of the process

ASSUME AnonymousType == Anonymous \in Users
ASSUME AskedType == AskedPriorities \subseteq UserPriorities
ASSUME RequestType ==
    /\ RequestOf \in [Msgs -> Request]
    /\ UserOf \in [Msgs -> Users] /\ ConvOf \in [Msgs -> Convs]

VARIABLES
    userPriorities,  \* Preprocessor.userPriorities
    priority,        \* the priority ProcessMessage gave each message
    queued,          \* the messages in the queues
    managed,         \* QueueFactory still has the manager "standard"
    answer,          \* history: the status each message was answered with
    handler,         \* history: the handler that took it
    added,           \* history: messages that AddMessage took
    calls, restarts

messageVars == <<userPriorities, priority, queued, managed, answer, handler,
                 added, restarts>>
apiVars == <<messageVars, calls>>
vars == <<convVars, expiredIDs, call, apiVars>>

-----------------------------------------------------------------------------
Init ==
    /\ ConvInit
    /\ userPriorities = [u \in Users |-> Unset]
    /\ priority = [m \in Msgs |-> 0]
    /\ queued = {}
    /\ managed = TRUE
    /\ answer = [m \in Msgs |-> "none"]
    /\ handler = [m \in Msgs |-> "none"]
    /\ added = {}
    /\ calls = 0 /\ restarts = 0

-----------------------------------------------------------------------------
(* Requests begin. *)

Begin(k, r) ==
    /\ call[k] = NoCall /\ calls < MaxCalls
    /\ calls' = calls + 1
    /\ call' = [call EXCEPT ![k] = r]
    /\ UNCHANGED <<convVars, expiredIDs>>

\* A new identifier, which no other request knows.
createConversation(k, c, u) ==
    /\ u # Anonymous /\ conversations[c] = {} /\ store[c] = {}
    /\ \A j \in Clients : call[j].conv # {c}
    /\ Begin(k, [NoCall EXCEPT !.op = "create", !.at = "lookup", !.conv = {c},
                                !.user = {u}])
    /\ UNCHANGED messageVars

\* Any identifier, with user "".
getConversation(k, c) ==
    /\ Begin(k, [NoCall EXCEPT !.op = "get", !.at = "lookup", !.conv = {c},
                                !.user = {Anonymous}])
    /\ UNCHANGED messageVars

listUserConversations(k, u) ==
    /\ u # Anonymous
    /\ Begin(k, [NoCall EXCEPT !.op = "list", !.at = "list", !.user = {u}])
    /\ UNCHANGED messageVars

\* A message comes in and the preprocessor sets its priority.
BeginMessage(k, op, at, m) ==
    /\ handler[m] = "none"
    /\ handler' = [handler EXCEPT ![m] = op]
    /\ \E p \in ProcessMessage(RequestOf[m], userPriorities[UserOf[m]]) :
          priority' = [priority EXCEPT ![m] = p]
    /\ Begin(k, [NoCall EXCEPT !.op = op, !.at = at, !.conv = {ConvOf[m]},
                                !.user = {UserOf[m]}, !.msg = {m}])
    /\ UNCHANGED <<userPriorities, queued, managed, answer, added, restarts>>

submitMessage(k, m) == BeginMessage(k, "submit", "manager", m)
addMessageToConversation(k, m) == BeginMessage(k, "add", "add", m)

\* setUserPriority.
SetUserPriority(u, p) ==
    /\ calls < MaxCalls /\ calls' = calls + 1
    /\ userPriorities' = [userPriorities EXCEPT ![u] = p]
    /\ UNCHANGED <<convVars, expiredIDs, call, priority, queued, managed, answer,
                   handler, added, restarts>>

-----------------------------------------------------------------------------
(* The steps of a request. *)

\* The handler answers and the request is over.
Answer(k, m, status) ==
    /\ answer' = [answer EXCEPT ![m] = status]
    /\ call' = [call EXCEPT ![k] = NoCall]

\* QueueFactory.GetQueueManager("standard").
GetQueueManager(k, m) ==
    /\ call[k].at = "manager" /\ call[k].msg = {m}
    /\ IF managed
       THEN call' = [call EXCEPT ![k].at = "push"] /\ UNCHANGED answer
       ELSE Answer(k, m, "500")
    /\ UNCHANGED <<convVars, expiredIDs, userPriorities, priority, queued,
                   managed, handler, added, calls, restarts>>

Accepts(m) ==
    /\ priority[m] \in QueueNames
    /\ ~ FullAt(Cardinality({n \in queued : priority[n] = priority[m]}), MaxSize)

\* Variant of Push: submitMessage only logs an error.
PushErrorLogged(k, m) ==
    /\ call[k].at = "push" /\ call[k].msg = {m}
    /\ queued' = IF Accepts(m) THEN queued \cup {m} ELSE queued
    /\ IF call[k].op = "submit"
       THEN call' = [call EXCEPT ![k].at = "lookup"] /\ UNCHANGED answer
       ELSE Answer(k, m, IF Accepts(m) THEN "202" ELSE "500")
    /\ UNCHANGED <<convVars, expiredIDs, userPriorities, priority, managed,
                   handler, added, calls, restarts>>

\* PushMessage to the queue named after the priority: ErrQueueNotFound and
\* ErrQueueFull are answered with 500.  submitMessage goes on with the
\* conversation, addMessageToConversation is done.
Push(k, m) ==
    /\ call[k].at = "push" /\ call[k].msg = {m}
    /\ IF Accepts(m)
       THEN /\ queued' = queued \cup {m}
            /\ IF call[k].op = "submit"
               THEN call' = [call EXCEPT ![k].at = "lookup"] /\ UNCHANGED answer
               ELSE Answer(k, m, "202")
       ELSE Answer(k, m, "500") /\ UNCHANGED queued
    /\ UNCHANGED <<convVars, expiredIDs, userPriorities, priority, managed,
                   handler, added, calls, restarts>>

AddsTo(k, op, c, m) ==
    /\ call[k].op = op /\ call[k].at = "add"
    /\ call[k].conv = {c} /\ call[k].msg = {m}

\* The end of submitMessage: AddMessage to what GetConversation has returned.
\* It may be gone, which is only logged: the answer is 202 anyway.
updateConversationWithMessage(k, c, m) ==
    /\ AddsTo(k, "submit", c, m)
    /\ \/ AddMessage(c, m) /\ added' = added \cup {m}
       \/ conversations[c] = {} /\ UNCHANGED <<convVars, expiredIDs, added>>
    /\ Answer(k, m, "202")
    /\ UNCHANGED <<userPriorities, priority, queued, managed, handler, calls,
                   restarts>>

\* addMessageToConversation: AddMessage answers 500 for a conversation that
\* is not in memory, saved or not; else the message goes on to the queue.
AddFirst(k, c, m) ==
    /\ AddsTo(k, "add", c, m)
    /\ \/ /\ AddMessage(c, m)
          /\ added' = added \cup {m}
          /\ call' = [call EXCEPT ![k].at = "manager"] /\ UNCHANGED answer
       \/ /\ conversations[c] = {}
          /\ Answer(k, m, "500")
          /\ UNCHANGED <<convVars, expiredIDs, added>>
    /\ UNCHANGED <<userPriorities, priority, queued, managed, handler, calls,
                   restarts>>

\* UpdateConversationState for any state; one that is not in memory is an
\* error.
updateConversationState(c) ==
    /\ calls < MaxCalls /\ calls' = calls + 1
    /\ UpdateConversation(c)
    /\ UNCHANGED messageVars

-----------------------------------------------------------------------------
(* The process. *)

\* main calls StopAll while the API still serves: the factory forgets its
\* managers, a handler that has one goes on with it.
StopAll ==
    /\ managed
    /\ managed' = FALSE
    /\ UNCHANGED <<convVars, expiredIDs, call, userPriorities, priority, queued,
                   answer, handler, added, calls, restarts>>

\* The process ends, at any point, and is started again.
Restart ==
    /\ restarts < MaxRestarts
    /\ restarts' = restarts + 1
    /\ ConvRestart
    /\ userPriorities' = [u \in Users |-> Unset]
    /\ queued' = {} /\ priority' = [m \in Msgs |-> 0]
    /\ managed' = TRUE
    /\ UNCHANGED <<answer, handler, added, calls>>

-----------------------------------------------------------------------------
RequestStep(k) ==
    \/ ConvStep(k) /\ UNCHANGED apiVars
    \/ \E m \in Msgs : GetQueueManager(k, m) \/ Push(k, m)
    \/ \E c \in Convs, m \in Msgs :
          updateConversationWithMessage(k, c, m) \/ AddFirst(k, c, m)

Next ==
    \/ \E k \in Clients :
          \/ \E c \in Convs, u \in Users : createConversation(k, c, u)
          \/ \E c \in Convs : getConversation(k, c)
          \/ \E u \in Users : listUserConversations(k, u)
          \/ \E m \in Msgs : submitMessage(k, m) \/ addMessageToConversation(k, m)
    \/ \E u \in Users \ {Anonymous}, p \in AskedPriorities : SetUserPriority(u, p)
    \/ \E k \in Clients : RequestStep(k)
    \/ CleanupStep /\ UNCHANGED apiVars
    \/ \E c \in Convs : \/ updateConversationState(c)
                        \/ StoreExpires(c) /\ UNCHANGED apiVars
    \/ StopAll \/ Restart

Spec == Init /\ [][Next]_vars

-----------------------------------------------------------------------------
(* Properties. *)

(* The two halves of a request.  A message that has been answered is       *)
(* queued if and only if the answer was 202 (as long as the process        *)
(* lives).  One that is in its conversation and was never queued comes     *)
(* from addMessageToConversation, whose push came second and failed; one   *)
(* that was accepted and is in no conversation comes from submitMessage,   *)
(* whose conversation was cleaned up between the two steps.                *)
AnswersAgree ==
    \A m \in Msgs : answer[m] # "none" =>
        /\ restarts = 0 => (m \in queued <=> answer[m] = "202")
        /\ answer[m] = "500" /\ m \in added => handler[m] = "add"
        /\ answer[m] = "202" /\ m \notin added => handler[m] = "submit"
=============================================================================
