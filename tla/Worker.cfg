\* Two messages that fight for a queue of one, two workers, fair scheduling.
CONSTANTS
    a = a
    c = c
    w1 = w1
    w2 = w2
    Msgs <- MCMsgs
    Workers <- MCWorkers
    Priority <- MCPriority
    MaxSize = 1
    MaxBatchSize = 2
    MaxConcurrent = 1
    MaxRetries = 1
SPECIFICATION FairSpec
INVARIANTS
    TypeOK
    NoDoubleDelivery
    Conservation
    ConcurrencyBound
    StopIsQuiescent
    StatsAgree
    ProcessingAgree
    RetryBudget
PROPERTIES
    DeliverySpec
    EventuallySettled
    StopTerminates
