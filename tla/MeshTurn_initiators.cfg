\* Members that start with partial views.
CONSTANTS
    Node = {1, 2, 3}
    Exporter = {1, 2, 3}
    Importer = {1, 2, 3}
    SeqNo = {q1}
    NoSeq = NoSeq
    Token = {t1, t2}
    NoToken = NoToken
    Lossy = FALSE
    Disruptive = TRUE
    MaxPending = 2
    MaxNet = 2
SPECIFICATION Spec
CONSTRAINTS Small Healthy
SYMMETRY Symmetry
INVARIANT OneInitiator
