CONSTANT Tasks = {t1, t2, t3, t4}
SPECIFICATION FairSpec
INVARIANTS
    LockedWhileGranted
    QueueOfWaiters
PROPERTIES
    IsFifoLock
    WaiterIsServed
