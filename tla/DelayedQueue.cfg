\* Two messages due at 0, 1 or 1.5 ms under fair scheduling; Clear and Stop at
\* any time, one message that processFn schedules again.  The clock stops at
\* MaxTime and an idle queue waits, so behaviours end.
CONSTANTS
    a = a
    b = b
    Msgs <- MCMsgs
    ReadyTimes <- MCTimes
    MaxTime = 4
    Slack = 2
    MayClear = TRUE
    MayStop = TRUE
    Reschedules <- MCAgain
SPECIFICATION FairSpec
CHECK_DEADLOCK FALSE
INVARIANTS
    OnePlace
    TimerCoversHeap
PROPERTIES
    NeverEarly
    EventuallyProcessed
    StopEndsOrStrands
