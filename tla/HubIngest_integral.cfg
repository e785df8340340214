\* One card, every kind of reading, late and repeated delivery, retention.
CONSTANTS
    g1 = g1
    g2 = g2
    u1 = u1
    u2 = u2
    GPU = {g1}
    User = {u1, u2}
    NoUser = NoUser
    NoUtil = NoUtil
    Interval = 1
    Minute = 2
    Hour = 4
    MaxBoot = 2
    MaxSamples = 3
    Start = 19
    MaxTime = 25
    Ahead = 0
    Future = 0
    Accept = 2
    Retain = 4
    EventRetain = 5
    MinuteRetain = 6
    HourRetain = 8
    Online = 2
    Readings <- ChargeReadings
    GPUStatuses <- OkOnly
SPECIFICATION Spec
INVARIANTS
    RollupsMatchObservations
    NoDoubleCount
    ChargedAreNeighbours
    StartIsEarliest
    LoopIsContribution
