\* Samples that repeat.
\* The peer stops when the bounds are used up.
CONSTANTS
    Addresses = 1
    Payload = {1, 2}
    Distinct = FALSE
    History = 3
    MaxChanges = 3
    MaxRestarts = 0
    MaxDaemons = 0
    MaxApplies = 0
SPECIFICATION FairSpec
PROPERTY NewestShown
CHECK_DEADLOCK FALSE
