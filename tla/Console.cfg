SPECIFICATION FairSpec
CONSTANTS
    Slot = {s1, s2}
    MaxSession = 2
    MaxVersion = 1
    NoSlot = NoSlot
PROPERTIES NeverOlder OwnWritesAppear ListCatchesUp
