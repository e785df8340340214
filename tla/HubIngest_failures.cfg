\* Newest-first replay against one failure event per outage.
CONSTANTS
    g1 = g1
    g2 = g2
    u1 = u1
    u2 = u2
    GPU = {g1}
    User = {u1, u2}
    NoUser = NoUser
    NoUtil = NoUtil
    Interval = 1
    Minute = 2
    Hour = 4
    MaxBoot = 1
    MaxSamples = 4
    Start = 19
    MaxTime = 23
    Ahead = 0
    Future = 0
    Accept = 4
    Retain = 6
    EventRetain = 5
    MinuteRetain = 8
    HourRetain = 10
    Online = 2
    Readings <- StatusReadings
    GPUStatuses <- OkOnly
SPECIFICATION Spec
INVARIANTS
    OneFailurePerOutage
