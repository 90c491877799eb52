CONSTANTS
    Users = {u1, u2}
    Runner = runner
    None = none
SPECIFICATION FairSpec
INVARIANTS
    TypeOK
    SdEventExclusive
    DispatchedSourceAlive
PROPERTIES
    StageHasPriority
    ContenderGetsLock
    BreakRunEndsRunOne
CHECK_DEADLOCK FALSE
