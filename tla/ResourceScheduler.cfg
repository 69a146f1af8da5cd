\* Two resources, any two of three requests (without a timeout, with one, and
\* with one but no queuedAt), the ticker and one goroutine at a time.
CONSTANTS
    big = big
    small = small
    q1 = q1
    q2 = q2
    q3 = q3
    g = g
    NoResource = NoResource
    Resources <- MCResources
    Requests <- MCRequests
    Goroutines <- MCGoroutines
    Types <- MCTypes
    Type <- MCType
    ModelType <- MCModelType
    Capabilities <- MCCapabilities
    Required <- MCRequired
    Capacity <- MCCapacity
    Requirements <- MCRequirements
    Priority <- MCPriority
    Timed <- MCTimed
    Stamped <- MCStamped
    Loads <- MCLoads
    Reports <- MCReports
    Usages <- MCUsages
    MaxRequests = 2
SPECIFICATION FairSpec
CHECK_DEADLOCK FALSE
INVARIANTS
    RequestOnce
    NoOvercommit
PROPERTY Served
