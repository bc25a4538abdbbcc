SPECIFICATION FairSpec
CONSTANTS
    Sync = s
    LogWriters = {l}
    VdevOps = {v}
    StateOps = {o}
    NoThread = none
    Root = TRUE
    TXG_DEFER_SIZE = 2
    MaxFails = 1
INVARIANTS
    ConfigStable
    ChangesSynced
PROPERTY ConfigOpsEnd
