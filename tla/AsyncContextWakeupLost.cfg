CONSTANTS
    Coroutines = {c1}
    Senders = {}
    WaitLoop = waitloop
    WatchdogTask = watchdog
    None = none
    Watchdog = FALSE
    Calls = FALSE
    MaxInbox = 1
SPECIFICATION FairSpec
PROPERTIES
    TaskStopEndsRun
CHECK_DEADLOCK FALSE
