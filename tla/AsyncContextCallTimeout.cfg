CONSTANTS
    Coroutines = {c1}
    Senders = {}
    WaitLoop = waitloop
    WatchdogTask = watchdog
    None = none
    Watchdog = FALSE
    Calls = TRUE
    MaxInbox = 1
SPECIFICATION FairSpec
PROPERTIES
    CallTimeoutIsDelivered
CHECK_DEADLOCK FALSE
