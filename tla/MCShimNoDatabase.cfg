SPECIFICATION ShimSpec
CONSTANT MaxEvents = 2
INVARIANT AnswersWithoutDatabase
CHECK_DEADLOCK FALSE
