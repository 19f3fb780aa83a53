SPECIFICATION SchedSafeSpec
CONSTANTS
    l1 = l1
    l2 = l2
    api = api
    every2 = every2
    every3 = every3
    Schedules = {every2, every3}
    Loops = {l1, l2}
    Api = api
    Skew <- Behind
    NextAfter <- EveryPeriod
    Horizon = 5
PROPERTY NeverDoubleFires
CHECK_DEADLOCK FALSE
