SPECIFICATION ReplaySpec
CONSTANTS
    Threads = {"a", "b"}
    FirstBlocks = {0}
    Vdevs = {v}
    LwbRecords = 1
    AsyncThreads = {"b"}
    MaxRecords <- OneEach
    MaxCommits = 1
    MaxFailures = 1
    MaxTxg = 5
    MaxCrashes = 2
    MaxFaults = 1
PROPERTIES
    CommitReturns
    Recovers
CHECK_DEADLOCK FALSE
