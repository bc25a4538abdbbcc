SPECIFICATION ReplaySpec
CONSTANTS
    Threads = {a, b}
    FirstBlocks = {0, 1}
    Vdevs = {v, w}
    LwbRecords = 1
    AsyncThreads = {}
    MaxRecords <- OneEach
    MaxCommits = 1
    MaxFailures = 1
    MaxTxg = 5
    MaxCrashes = 2
    MaxFaults = 1
INVARIANTS
    GroupsLive
    CommitDurableLinked
    GroupInOrder
    LwbListAsserted
    WaiterLwbLive
    CommitsRestored
    ReplayedOnce
    HeaderMatches
SYMMETRY Symmetry
CHECK_DEADLOCK FALSE
