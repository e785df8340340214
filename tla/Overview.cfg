CONSTANTS
    NodeId = {"n1", "n2"}
    Tag = {"t1"}
    UUID = {"g1", "g2"}
    Model = {"A", "B"}
    User = {"u1"}
    Null = Null
    Any = Any
    Frees = {24}
    MaxFilters = 2
    Lists <- MCLists
SPECIFICATION Spec
INVARIANTS
    PromisesKept
    FreeCardsAgree
    AllGoodEverywhere
