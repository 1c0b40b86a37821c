\* Blocks within the timeout and blocks that outlive it.
CONSTANTS
    Ops = {o1, o2, o3, o4}
    Timeout = 1
    MaxHold = 4
    MaxClock = 7
SPECIFICATION Spec
INVARIANTS Exclusion NeverOrphaned
CHECK_DEADLOCK FALSE
