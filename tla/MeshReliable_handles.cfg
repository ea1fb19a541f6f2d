\* Two receivers whose receipts overtake the replies to the send calls.
\* It stops when every value and every number is used.
CONSTANTS
    Peer = {p1, p2}
    MaxValue = 2
    MaxSeq = 2
    MaxPending = 2
    MaxTries = 1
    MaxAge = 1
    Faults = {}
SPECIFICATION Spec
INVARIANT TransfersOwned
CHECK_DEADLOCK FALSE
