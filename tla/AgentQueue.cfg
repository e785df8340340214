\* A queue over its limits, restarts, failed writes, lost and late answers.
CONSTANTS
    MaxTime = 3
    MaxFaults = 2
    Batch = 3
    Capacity = 2
    MaxAge = 2
    Accept = 2
SPECIFICATION Spec
INVARIANTS
    
    DroppedIsClose
    QueueBounded
PROPERTIES
    IsDelivery
\* Time is bounded: with no instant left to sample at, the run is over.
CHECK_DEADLOCK FALSE
