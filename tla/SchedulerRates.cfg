CONSTANTS
    r1 = r1
    r2 = r2
    r3 = r3
    NULL = NULL
    Reqs = {r1, r2, r3}
    Request <- RateRequests
    Limits <- RateLimits
    Policy <- RatePolicy
    Usages <- NoUsage
    Second = 2
    MaxTime = 4
    LastArrival = 0
    MaxLag = 1
    LossyCompletion = TRUE
SPECIFICATION Spec
INVARIANTS
    RollingCount
    DispatchesArePaced
SYMMETRY TwinSymmetry
CHECK_DEADLOCK FALSE
