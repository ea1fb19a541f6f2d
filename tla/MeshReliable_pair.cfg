\* Two receivers; loss, restarted receivers, new nodes.
\* It stops when every value and every number is used.
CONSTANTS
    Peer = {p1, p2}
    MaxValue = 2
    MaxSeq = 2
    MaxPending = 2
    MaxTries = 1
    MaxAge = 1
    Faults = {"failure", "answer", "restart", "reattach"}
SPECIFICATION Spec
SYMMETRY Symmetry
PROPERTY KeepsPromise
CHECK_DEADLOCK FALSE
