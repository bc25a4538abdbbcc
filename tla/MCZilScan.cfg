SPECIFICATION Spec
CONSTANTS
    Threads = {"a", "b"}
    FirstBlocks = {1}
    Vdevs = {v}
    LwbRecords = 1
    AsyncThreads = {}
    MaxRecords <- OneEach
    MaxCommits = 1
    MaxFailures = 0
    MaxTxg = 5
INVARIANT CommitDurable
CHECK_DEADLOCK FALSE
