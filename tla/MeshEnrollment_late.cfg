CONSTANTS
    Node = {1, 2, 3}
    Casts <- DelayedCasts
SPECIFICATION Spec
INVARIANTS OwnAddress
