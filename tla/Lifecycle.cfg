SPECIFICATION FairSpec
CONSTANTS
    Shells = {shell}
    Pids = {p1, p2}
    Addresses = {a1, a2}
    NULL = NULL
    TORN = TORN
INVARIANTS
    TypeOK
    MarkerIsOwn
    ServersAreManaged
    SavedIsRunning
    SavedIsWhole
    StoppedIsGone
    OthersAreSafe
PROPERTY CommandsReturn
