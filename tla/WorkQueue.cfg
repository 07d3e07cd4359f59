SPECIFICATION FairSpec
CONSTANTS
    Requests = {n1, v1, i1}
    Important = {i1}
    Recovery = {v1}
    Watched = {n1}
    NormalMax = 1
    ImportantMax = 2
    Counted = TRUE
    Evicting = TRUE
    Garbage <- HeapBytes
    NoRequest = NoRequest
INVARIANTS
    TypeOK
    CellAccessSafe
    TruthfulVerdict
    BufferFreedExactlyOnce
    ReserveIsImportant
PROPERTIES
    AcceptedIsSettled
CHECK_DEADLOCK FALSE
