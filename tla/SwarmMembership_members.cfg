\* Two members: the first leaves with a sample unfinished, the other watches; heartbeats are lost, members restart.
CONSTANTS
    Node = {1, 2}
    Swarm = {1}
    Configured <- Home
    Whitelist <- Listed
    Preferred = 0
    Period = 1
    Lease = 3
    Residue = 1
    MaxChoices = 1
    MaxLosses = 1
    MaxCrashes = 1
    MaxAir = 2
SPECIFICATION Spec
CONSTRAINT OneLeaver
INVARIANTS TypeOK ChoiceSurvives FreshPeerKept LeaverGone
