\* Two requests at a time and three altogether, two conversations, one message
\* of context, one listed conversation per user, queues of one entry, one
\* restart.  Behaviours end when all requests have been made.
CONSTANTS
    x = x
    y = y
    u = u
    nobody = nobody
    a = a
    b = b
    k1 = k1
    k2 = k2
    Unset = Unset
    Convs <- MCConvs
    Users <- MCUsers
    Anonymous = nobody
    Msgs <- MCMsgs
    Clients <- MCClients
    MaxContextLength = 1
    MaxConversations = 1
    RequestOf <- MCRequestOf
    UserOf <- MCUserOf
    ConvOf <- MCConvOf
    AskedPriorities = {2}
    QueueNames <- MCQueueNames
    MaxSize = 1
    MaxCalls = 3
    MaxRestarts = 1
SPECIFICATION Spec
CHECK_DEADLOCK FALSE
SYMMETRY Symmetry
INVARIANTS
    HistoryKept
    AnswersAgree
