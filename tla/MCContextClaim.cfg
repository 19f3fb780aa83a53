SPECIFICATION WindowSpec
CONSTANTS
    Budget = 8
    System = 12
    Lengths = {0, 12, 40}
    Extra = {0}
    MaxRows = 4
INVARIANT MostRecentThatFit
CHECK_DEADLOCK FALSE
