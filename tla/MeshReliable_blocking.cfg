\* One receiver, loss.
\* It stops when every value and every number is used.
CONSTANTS
    Peer = {p1}
    MaxValue = 3
    MaxSeq = 3
    MaxPending = 2
    MaxTries = 1
    MaxAge = 2
    Faults = {"failure", "answer", "receipt"}
SPECIFICATION Spec
INVARIANT OneBlocking
CHECK_DEADLOCK FALSE
