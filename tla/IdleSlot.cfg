CONSTANTS
    r1 = r1
    r2 = r2
    r3 = r3
    NULL = NULL
    Reqs = {r1, r2, r3}
    Request <- ThreeAlike
    Limits <- IdleLimits
    Policy <- IdlePolicy
    Usages <- NoUsage
    Second = 1
    MaxTime = 3
    LastArrival = 0
    MaxLag = 0
    LossyCompletion = FALSE
SPECIFICATION Spec
PROPERTY DispatchedWhenPermitted
CHECK_DEADLOCK FALSE
