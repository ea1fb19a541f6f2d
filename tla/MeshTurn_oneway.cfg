\* A one-way channel: the lowest address only imports.
\* The system stops: the exporter is never permitted.
CONSTANTS
    Node = {1, 2}
    Exporter = {2}
    Importer = {1}
    SeqNo = {q1}
    NoSeq = NoSeq
    Token = {t1}
    NoToken = NoToken
    Lossy = FALSE
    Disruptive = FALSE
    MaxPending = 9
    MaxNet = 99
CONSTRAINT Healthy
SPECIFICATION FairSpec
PROPERTY ExportersSend
CHECK_DEADLOCK FALSE
