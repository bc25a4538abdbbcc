SPECIFICATION RlFairSpec
CONSTANTS
    Threads = {a, b, c}
    Writers = {a, b}
    UINT64_MAX = 4
    Reqs <- FileReqs
    BLKSZ0 = 1
    z_max_blksz = 2
    MAXOFFSET_T = 2
INVARIANTS
    RangesExclusive
    NodesExact
PROPERTIES
    FileUnderLock
    SleepersWake
