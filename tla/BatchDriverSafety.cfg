CONSTANTS
    Jobs = {j1}
    FileIds = {f1}
    BatchIds = {b1, b2}
    Clients = {c1, c2}
    Workers = {w1, w2}
    NULL = NULL
    Kaiion = Kaiion
    ResumeFromEnv = {TRUE, FALSE}
SYMMETRY Symmetry
SPECIFICATION Spec
INVARIANTS
    TypeOK
    AtMostOneCreate
    CreateIsOnRecord
    OneWorkerPerJob
    NoWaiterOrphaned
    ToldIsDurable
    OutcomeIsOfOwnBatch
    RowsDecode
PROPERTIES
    RowsOnlyAdvance
    ImplementsDurableJobs
