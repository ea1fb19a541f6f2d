\* Two UAVs, any stored keys, one fault at any moment; the dialer's pass may be overtaken.
CONSTANTS
    Dialer = 1
    PairOwner = 1
    MaxFaults = 1
    Slow = {1}
    Odd = {}
SPECIFICATION FairSpec
INVARIANT TypeOK
PROPERTIES SharedKeyKept BothReady
