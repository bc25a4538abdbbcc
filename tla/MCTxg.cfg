SPECIFICATION Spec
CONSTANTS
    Txs = {t1, t2}
    Waiters = {w1}
    NCPU = 2
    TXG0 = 4
    MaxTxg = 8
    WaitArgs = {0, 6}
SYMMETRY Symmetry
INVARIANTS
    PipelineOrder
    HoldsKeepGroup
    StopLosesNothing
    NoLostWakeup
    DispatchNeedsNoLock
    CallbacksFollowSync
PROPERTY ImplementsGroups
