SPECIFICATION Spec
CONSTANTS
    Txs = {"a", "b", "c"}
    Op <- Operation
    Dnodes = {"d", "e", "f"}
    Holds <- TxHolds
    Space <- TxSpace
    zfs_dirty_data_max = 2
    delay_min_bytes = 1
    Quota = 3
    FailContinue = TRUE
    SuspendTxg = 5
    MaxTxg = 5
INVARIANTS
    DnodeOneGroup
    QuotaOverrunByOne
    DirtyAccounted
    SignalChain
PROPERTY AssignEnds
CHECK_DEADLOCK FALSE
