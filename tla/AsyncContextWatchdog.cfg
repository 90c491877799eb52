CONSTANTS
    Coroutines = {c1}
    Senders = {}
    WaitLoop = waitloop
    WatchdogTask = watchdog
    None = none
    Watchdog = TRUE
    Calls = FALSE
    MaxInbox = 1
SPECIFICATION FairSpec
PROPERTIES
    TaskStopEndsRunOrWakeupLost
CHECK_DEADLOCK FALSE
