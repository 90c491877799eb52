CONSTANTS
    Coroutines = {c1, c2}
    Senders = {s1}
    WaitLoop = waitloop
    WatchdogTask = watchdog
    None = none
    Watchdog = TRUE
    Calls = TRUE
    MaxInbox = 2
SPECIFICATION Spec
INVARIANTS
    TypeOK
    WaitOpInOnePlace
    WaitExcludesProcess
    StagingWakesCaller
    NoWaitAfterCollected
    WatcherCoversTasks
    FinalStopAfterTasks
    NothingLeftAtFinish
SYMMETRY Symmetry
CHECK_DEADLOCK FALSE
