SPECIFICATION WorkerSafeSpec
CONSTANTS
    Runs = {1}
    Workers = {w1, w2}
    MaxBudget = 1
    NoWorker = NoWorker
    NoRun = NoRun
INVARIANT LostRaceSurvived
CHECK_DEADLOCK FALSE
