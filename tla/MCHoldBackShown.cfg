SPECIFICATION HoldSpec
CONSTANT MaxLength = 4
INVARIANT
    MarkedNeverShown
CHECK_DEADLOCK FALSE
