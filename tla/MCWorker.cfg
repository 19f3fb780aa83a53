SPECIFICATION WorkerSafeSpec
CONSTANTS
    Runs = {1, 2}
    Workers = {w1, w2}
    MaxBudget = 2
    NoWorker = NoWorker
    NoRun = NoRun
INVARIANTS
    StartsPaidFor
    OneExecutor
    RejectedKeepsAttempt
    GateHonoured
    TagsMatchResult
    PendingIffParked
PROPERTIES
    OnlyDecisionsUnpark
    ConsentSpec
\* Every process may have ended.
CHECK_DEADLOCK FALSE
