\* Two conversations, two messages whose rows may move from one to the other,
\* two requests in one process and one in another.  Behaviours end when all
\* calls have been made.
CONSTANTS
    x = x
    y = y
    a = a
    b = b
    p = p
    q = q
    k1 = k1
    k2 = k2
    k3 = k3
    Convs <- MCConvs
    Msgs <- MCMsgs
    Processes <- MCProcesses
    Clients <- MCClients
    ProcessOf <- MCProcessOf
    MaxCalls = 3
SPECIFICATION Spec
SYMMETRY MCSymmetry
CHECK_DEADLOCK FALSE
INVARIANTS
    CopiesAgree
    CountHasInserts
