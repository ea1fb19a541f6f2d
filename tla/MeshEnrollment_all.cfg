CONSTANTS
    Node = {1, 2, 3}
    Casts <- AllCasts
SPECIFICATION FairSpec
INVARIANTS TypeOK AddressIsNumber KeyOfNetwork
PROPERTY AllReady
