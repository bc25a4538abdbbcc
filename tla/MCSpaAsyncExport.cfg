SPECIFICATION SpaFairSpec
CONSTANTS
    Callers = {e1, e2}
    Zthrs = {1}
    MaxWork = 1
PROPERTY ExportReturns
CHECK_DEADLOCK FALSE
