CONSTANTS
    Users = {u1, u2}
    Runner = runner
    None = none
SPECIFICATION Spec
INVARIANTS
    CallbackMayObtainLock
CHECK_DEADLOCK FALSE
