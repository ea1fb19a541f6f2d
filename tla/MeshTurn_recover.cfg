\* A stable pair with loss and premature deadlines.  The bounds are never reached.
CONSTANTS
    Node = {1, 2}
    Exporter = {1, 2}
    Importer = {1, 2}
    SeqNo = {q1}
    NoSeq = NoSeq
    Token = {t1, t2}
    NoToken = NoToken
    Lossy = TRUE
    Disruptive = FALSE
    MaxPending = 9
    MaxNet = 99
SPECIFICATION FairSpec
CONSTRAINT Small
INVARIANT OneOwner
PROPERTY LowestRecovers
