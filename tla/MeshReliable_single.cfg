\* One receiver, the table of samples at its limit; loss, new nodes.
\* It stops when every value and every number is used.
CONSTANTS
    Peer = {p1}
    MaxValue = 3
    MaxSeq = 3
    MaxPending = 2
    MaxTries = 1
    MaxAge = 2
    Faults = {"failure", "answer", "receipt", "reattach"}
SPECIFICATION FairSpec
INVARIANTS TypeOK TransfersOwned
PROPERTY Drains
CHECK_DEADLOCK FALSE
