\* Four clients, three of the four levels configured, queues of one entry, two
\* workers.  When everybody has left, clients may still submit until the
\* queues are full: behaviours end.
CONSTANTS
    m1 = m1
    m3 = m3
    m4 = m4
    n4 = n4
    w1 = w1
    w2 = w2
    Msgs <- MCMsgs
    Level <- MCLevel
    InConversation <- MCInConversation
    Levels <- MCLevels
    MaxSize = 1
    Workers <- MCWorkers
SPECIFICATION FairSpec
CHECK_DEADLOCK FALSE
INVARIANT OvertakenOnceEach
PROPERTIES
    StarvedOnlyByUrgent
    ShutdownEnds
