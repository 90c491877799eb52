CONSTANTS
    Coroutines = {c1, c2}
    Senders = {s1}
    WaitLoop = waitloop
    WatchdogTask = watchdog
    None = none
    Watchdog = FALSE
    Calls = FALSE
    MaxInbox = 2
SPECIFICATION FairSpec
PROPERTIES
    MessageIsProcessed
    TimersFire
    TaskStopEndsRunOrWakeupLost
