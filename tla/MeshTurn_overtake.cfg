\* A stable group of three without loss, where a copy overtakes another.
CONSTANTS
    Node = {1, 2, 3}
    Exporter = {1, 2, 3}
    Importer = {1, 2, 3}
    SeqNo = {q1}
    NoSeq = NoSeq
    Token = {t1}
    NoToken = NoToken
    Lossy = FALSE
    Disruptive = FALSE
    MaxPending = 2
    MaxNet = 2
SPECIFICATION FairSpec
CONSTRAINTS Small Healthy
PROPERTY EveryoneTakesTurns
