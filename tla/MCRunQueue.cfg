SPECIFICATION QueueSpec
CONSTANTS
    Runs = {1, 2, 3}
    Workers = {w1, w2, w3}
    MaxBudget = 2
    NoWorker = NoWorker
    NoRun = NoRun
SYMMETRY WorkerSymmetry
INVARIANTS
    QueueInv
    ClaimsExclusive
    AttemptsAccounted
PROPERTIES
    TrailChains
    EveryLifeLegal
\* Every run may have ended.
CHECK_DEADLOCK FALSE
