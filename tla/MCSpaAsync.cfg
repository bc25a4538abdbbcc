SPECIFICATION SpaFairSpec
CONSTANTS
    Callers = {e1, e2}
    Zthrs = {1, 2}
    MaxWork = 1
INVARIANTS
    AsyncQuiet
PROPERTIES
    WorkDone
CHECK_DEADLOCK FALSE
