\* Every request in every state of one card's history, while rows expire.
CONSTANTS
    g1 = g1
    g2 = g2
    u1 = u1
    u2 = u2
    GPU = {g1}
    User = {u1}
    NoUser = NoUser
    NoUtil = NoUtil
    Interval = 1
    Minute = 2
    Hour = 4
    MaxBoot = 1
    MaxSamples = 3
    Start = 19
    MaxTime = 25
    Ahead = 0
    Future = 0
    Accept = 1
    Retain = 3
    EventRetain = 5
    MinuteRetain = 6
    HourRetain = 8
    Online = 2
    Day = 2
    Week = 4
    Quarter = 4
    Readings <- QueryReadings
    GPUStatuses <- OkOnly
SPECIFICATION Spec
INVARIANTS
    StatsAreComplete
    CoverageIsAShare
    UnassignedIsUncovered
    TrendIsComplete
