SPECIFICATION SchedSpec
CONSTANTS
    l1 = l1
    l2 = l2
    api = api
    every2 = every2
    every3 = every3
    Schedules = {every2, every3}
    Loops = {l1, l2}
    Api = api
    Skew <- Ahead
    NextAfter <- EveryPeriod
    Horizon = 5
PROPERTIES
    NeverDoubleFires
    OffMeansOff
    DueFires
\* The clock has reached its bound and every loop may have ended.
CHECK_DEADLOCK FALSE
