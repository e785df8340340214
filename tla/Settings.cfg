CONSTANTS
    Node = {n1}
    Null = Null
    Tag = {a, b}
    TooLong = {b}
    MaxTags = 1
    MaxCode = 2
SPECIFICATION FairSpec
INVARIANTS
    CodeShownIsValid
PROPERTIES
    SavedAsShown
    ButtonsComeBack
\* The session ends the behaviour.
CHECK_DEADLOCK FALSE
