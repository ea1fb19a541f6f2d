\* One user node, started twice; failures; a restart of the service.
\* The system stops when the bounds are used up and no user node runs.
CONSTANTS
    Thread = {t1, t2}
    User = {A}
    Default = Default
    MaxMisses = 2
    MaxStarts = 2
    MaxFaults = 1
    MaxCrashes = 1
SPECIFICATION FairSpec
INVARIANTS TypeOK LeaseTracksRuntime LiveUserKeeps
PROPERTY OverlayEnds
CHECK_DEADLOCK FALSE
