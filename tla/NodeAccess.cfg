SPECIFICATION FairSpec
CONSTANTS
    Node = {n1, n2}
    Name = {x, y}
    Worker = {w1, w2}
    Agent = {a1}
    Life = 1
    MaxSecret = 3
    MaxTime = 1
    NoNode = NoNode
    NoName = NoName
    NoWorker = NoWorker
INVARIANTS NamesUnique CodesAreSingleUse
PROPERTIES RevokedWritesNothing EveryRequestEnds
