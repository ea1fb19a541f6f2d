CONSTANTS
    Node = {1, 2, 3}
    Casts <- LostCasts
SPECIFICATION FairSpec
PROPERTY AllReady
