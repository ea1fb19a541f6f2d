\* Samples that differ, rotating addresses; a restart and a hot change of the overlay.
\* The peer stops when the bounds are used up.
CONSTANTS
    Addresses = 2
    Payload = {1, 2, 3}
    Distinct = TRUE
    History = 3
    MaxChanges = 3
    MaxRestarts = 1
    MaxDaemons = 1
    MaxApplies = 1
SPECIFICATION FairSpec
INVARIANTS TypeOK InOrder NeverBack
PROPERTIES SettledNeverBack NewestShown
CHECK_DEADLOCK FALSE
