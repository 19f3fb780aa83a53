SPECIFICATION BusySpec
CONSTANTS
    Runs = {1, 2}
    Workers = {w1, w2}
    MaxBudget = 1
    NoWorker = NoWorker
    NoRun = NoRun
PROPERTIES
    OrphanIsReapedUnderLoad
\* Every process may have ended.
CHECK_DEADLOCK FALSE
