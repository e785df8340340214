SPECIFICATION Spec
CONSTANTS
    Card = {c1, c2}
    Pid = {p1}
    Workers = 1
    CacheTime = 1
    ListTime = 1
    QueryTime = 2
    RoundTime = 2
    MaxTime = 3
    MaxTraffic = 1
    Never = Never
    NoRate = NoRate
INVARIANTS  RecordIsItsOwn
PROPERTIES ListIsRecent RateSpansOneRound
SYMMETRY CardSymmetry
CHECK_DEADLOCK FALSE
