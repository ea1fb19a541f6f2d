\* One receiver, no loss, a source that falls silent.
\* It stops when every value and every number is used.
CONSTANTS
    Peer = {p1}
    MaxValue = 2
    MaxSeq = 2
    MaxPending = 2
    MaxTries = 1
    MaxAge = 1
    Faults = {}
SPECIFICATION FairSpec
PROPERTY NewestArrives
CHECK_DEADLOCK FALSE
