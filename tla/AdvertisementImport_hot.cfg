\* A hot change of the overlay.
\* The peer stops when the bounds are used up.
CONSTANTS
    Addresses = 2
    Payload = {1, 2}
    Distinct = TRUE
    History = 3
    MaxChanges = 3
    MaxRestarts = 0
    MaxDaemons = 0
    MaxApplies = 1
SPECIFICATION Spec
INVARIANT NewsOnly
CHECK_DEADLOCK FALSE
