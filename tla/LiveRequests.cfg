CONSTANTS
    NULL = NULL
    Provider = "p"
    c1 = c1
    c2 = c2
    Clients = {c1, c2}
    Workloads <- MCWorkloads
    Legacy <- MCLegacy
    MaxRetries = 1
    MaxWait = 1
    MaxAge = 2
    RetryAfters = {1, 2}
    Legal <- AnySlots
SPECIFICATION FairSpec
INVARIANTS
    TypeOK
    OneSlotPerClient
    NoSilentDuplicate
    ChargesAreCounted
    AcceptedIsResumable
    KeyIsOneRequest
    StoredStaysBatch
PROPERTIES
    WaitIsBounded
    NobodyIsStuck
CHECK_DEADLOCK FALSE
