\* Two members that lose frames, restart, reset and change their views.
CONSTANTS
    Node = {1, 2}
    Exporter = {1, 2}
    Importer = {1, 2}
    SeqNo = {q1}
    NoSeq = NoSeq
    Token = {t1, t2}
    NoToken = NoToken
    Lossy = TRUE
    Disruptive = TRUE
    MaxPending = 2
    MaxNet = 2
SPECIFICATION Spec
CONSTRAINT Small
SYMMETRY Symmetry
INVARIANTS TypeOK TokenUnique
