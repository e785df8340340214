\* Two cards, inventories that fail or miss a card, late delivery.
CONSTANTS
    g1 = g1
    g2 = g2
    u1 = u1
    u2 = u2
    GPU = {g1, g2}
    User = {u1, u2}
    NoUser = NoUser
    NoUtil = NoUtil
    Interval = 1
    Minute = 2
    Hour = 4
    MaxBoot = 2
    MaxSamples = 3
    Start = 19
    MaxTime = 23
    Ahead = 1
    Future = 1
    Accept = 3
    Retain = 5
    EventRetain = 5
    MinuteRetain = 7
    HourRetain = 9
    Online = 1
    Readings <- IdleReadings
    GPUStatuses <- OkOrNot
SPECIFICATION Spec
INVARIANTS
    OnlineMeansFresh
    
PROPERTIES
    CardsNeverForgotten
SYMMETRY CardSymmetry
