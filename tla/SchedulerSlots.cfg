CONSTANTS
    r1 = r1
    r2 = r2
    r3 = r3
    NULL = NULL
    Reqs = {r1, r2, r3}
    Request <- SlotRequests
    Limits <- TokenLimits
    Policy <- SlotPolicy
    Usages <- AnyUsage
    Second = 1
    MaxTime = 4
    LastArrival = 2
    MaxLag = 0
    LossyCompletion = FALSE
SPECIFICATION Spec
INVARIANTS
    TypeOK
    ConcurrencyCap
    QueueIsBounded
    NoWaiterForgotten
    NoSlotLeaks
PROPERTIES
    FifoAmongEquals
    ImplementsPermits
SYMMETRY TwinSymmetry
CHECK_DEADLOCK FALSE
