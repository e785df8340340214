CONSTANTS
    Slot = {s1, s2}
    MaxVersion = 2
    None = None
    Custom = Custom
    Periods = {1}
    Times <- MCTimes
    Filters <- MCFilters
    Hours = {h1, h2}
    Texts = {x, y}
SPECIFICATION FairSpec
INVARIANTS
    OneChain
    StatsAreAsked
    
    SavedIsTaken
PROPERTIES
    CurveNeverOlder
    TrendCatchesUp
