\* A member leaves while its sample is being repaired.
CONSTANTS
    Node = {1, 2}
    Swarm = {1}
    Configured <- Home
    Whitelist <- Listed
    Preferred = 0
    Period = 1
    Lease = 3
    Residue = 1
    MaxChoices = 1
    MaxLosses = 0
    MaxCrashes = 0
    MaxAir = 4
SPECIFICATION Spec
PROPERTY DepartureHolds
