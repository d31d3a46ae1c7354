CONSTANTS
    r1 = r1
    r2 = r2
    r3 = r3
    NULL = NULL
    Reqs = {r1, r2}
    Request <- WaitRequests
    Limits <- TokenLimits
    Policy <- BasePolicy
    Usages <- NoUsage
    Second = 1
    MaxTime = 4
    LastArrival = 1
    MaxLag = 0
    LossyCompletion = FALSE
SPECIFICATION FairSpec
PROPERTIES
    AcquireReturns
    LostPermitIsReleased
CHECK_DEADLOCK FALSE
