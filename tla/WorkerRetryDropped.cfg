\* The smallest instance in which a retry meets the claim.
CONSTANTS
    a = a
    c = c
    w1 = w1
    w2 = w2
    Msgs <- MCMsgs
    Workers <- MCWorkers
    Priority <- MCPriority
    MaxSize = 1
    MaxBatchSize = 2
    MaxConcurrent = 1
    MaxRetries = 1
SPECIFICATION Spec
INVARIANT RetryIsRequeued
