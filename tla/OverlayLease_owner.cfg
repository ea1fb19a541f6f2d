\* Two user nodes, one replaces the other's overlay.
\* The system stops when the bounds are used up and no user node runs.
CONSTANTS
    Thread = {t1, t2}
    User = {A, B}
    Default = Default
    MaxMisses = 2
    MaxStarts = 2
    MaxFaults = 0
    MaxCrashes = 0
SPECIFICATION Spec
SYMMETRY Symmetry
INVARIANT LiveUserKeeps
CHECK_DEADLOCK FALSE
