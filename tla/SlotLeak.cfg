CONSTANTS
    r1 = r1
    r2 = r2
    r3 = r3
    NULL = NULL
    Reqs = {r1}
    Request <- TwoTwins
    Limits <- SlotLimits
    Policy <- BasePolicy
    Usages <- NoUsage
    Second = 1
    MaxTime = 1
    LastArrival = 0
    MaxLag = 0
    LossyCompletion = TRUE
SPECIFICATION Spec
INVARIANT NoSlotLeaks
CHECK_DEADLOCK FALSE
