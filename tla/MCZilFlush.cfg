SPECIFICATION Spec
CONSTANTS
    Threads = {"a", "b"}
    FirstBlocks = {1}
    Vdevs = {v, w}
    LwbRecords = 1
    AsyncThreads = {}
    MaxRecords <- OneEach
    MaxCommits = 1
    MaxFailures = 0
    MaxTxg = 5
INVARIANT StableWhenDone
CHECK_DEADLOCK FALSE
