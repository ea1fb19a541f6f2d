\* Two candidates, the last of them preferred, and an absent first one; liveness.
CONSTANTS
    Node = {1, 2}
    Swarm = {1}
    Configured <- Home
    Whitelist <- Absent
    Preferred = 1
    Period = 1
    Lease = 3
    Residue = 0
    MaxChoices = 1
    MaxLosses = 1
    MaxCrashes = 1
    MaxAir = 4
SPECIFICATION FairSpec
PROPERTY Converges
