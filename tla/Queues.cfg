\* The manager: one name, up to two incarnations, two clients, three messages;
\* its behaviours end when every message has been pushed and the name is gone
\* for good.  The heap: up to five entries (three levels of the tree), six
\* pushes.  The dead letter queue: three messages, a limit of two, batches of
\* different indices; its behaviours end when every message is done, removed
\* or refused.
CONSTANTS
    n1 = n1
    c1 = c1
    c2 = c2
    a = a
    b = b
    c = c
    x = x
    y = y
    z = z
    Names <- MCNames
    Clients <- MCClients
    Msgs <- MCMsgs
    Submitted <- MCSubmitted
    VIP <- MCVIP
    Long <- MCLong
    DefaultMaxSize = 2
    Sizes <- MCSizes
    BatchSize = 2
    MaxIncarnations = 2
    HeapMsgs <- MCHeapMsgs
    Levels <- MCLevels
    MaxSize = 5
    MaxPushes = 6
    DLMsgs <- MCDLMsgs
    DLMaxSize = 2
    QueueMax = 2
    MaxRetries = 1
    DLBatches <- MCDLBatches
    ChanCap = 1
    DLMaxPushes = 3
SPECIFICATION MCSpec
VIEW MCView
SYMMETRY MCSymmetry
CHECK_DEADLOCK FALSE
INVARIANTS
    OneIncarnation
    LimitsHold
    InstanceAccounting
    IndexAgrees
    ParkedOnce
    RequeueAsAsked
    BudgetRenewed
PROPERTY SetSpec
