\* A bridge with a rate.
\* The system stops when no bridge is configured and the bounds are used up.
CONSTANTS
    Spacing = 3
    MaxValue = 3
    MaxTransactions = 3
    MaxBusy = 2
    MaxFaults = 1
    Precision = 1000
    NonFinite = NonFinite
    Limit = 5000
SPECIFICATION ExportFairSpec
INVARIANT ExportTypeOK
PROPERTIES CurrentOnly OncePerPeriod NewestIsSent ApplyEnds
CHECK_DEADLOCK FALSE
