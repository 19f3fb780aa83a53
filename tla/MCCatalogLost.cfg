SPECIFICATION CatalogSpec
CONSTANTS
    Callers = {c1, c2}
    HasDefault = TRUE
    TTL = 2
    MaxTime = 8
PROPERTY ListedUntilExpiry
\* The clock stops at its bound.
CHECK_DEADLOCK FALSE
