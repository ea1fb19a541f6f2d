\* One user node that gives up while its activation is in progress.
\* The system stops when the bounds are used up and no user node runs.
CONSTANTS
    Thread = {t1, t2}
    User = {A}
    Default = Default
    MaxMisses = 2
    MaxStarts = 1
    MaxFaults = 0
    MaxCrashes = 0
SPECIFICATION FairSpec
PROPERTY ReturnsToDefault
CHECK_DEADLOCK FALSE
