CONSTANTS
    Tasks = {t1, t2, t3}
    NoTask = NoTask
    Messages = {m1, m2}
    NoMessage = NoMessage
    MaxQueue = 2
    Count = 2
SPECIFICATION FairSpec
INVARIANTS
    SingleAwaiter
    NoDanglingWaiter
    WaiterIsPaired
    WaiterIsKnown
PROPERTIES
    TimeoutIsDue
    IsChannel
    WaitEnds
