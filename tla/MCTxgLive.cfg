SPECIFICATION FairSpec
CONSTANTS
    Txs = {t1, t2}
    Waiters = {w1, w2}
    NCPU = 1
    TXG0 = 4
    MaxTxg = 5
    WaitArgs = {0}
PROPERTIES
    WaitersReturn
    CommitsReachDisk
