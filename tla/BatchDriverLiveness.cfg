CONSTANTS
    Jobs = {j1}
    FileIds = {f1}
    BatchIds = {b1}
    Clients = {c1}
    Workers = {w1}
    NULL = NULL
    Kaiion = Kaiion
    ResumeFromEnv = {TRUE}
SPECIFICATION FairSpec
PROPERTIES
    AcceptedJobFinishes
    WaiterIsAnswered
