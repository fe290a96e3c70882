CONSTANTS
    Workers = {w1, w2}
    READ_BUFFER_SIZE = 6
    Requests <- MCRequests
    Files = {"missing", "empty", "file", "unmappable"}
    HeaderLen = 3
    FileLen = 1
    MaxConns = 2
SPECIFICATION Spec
INVARIANTS
    TypeOK
    OneHolder
    FileMappedWhileSent
PROPERTY
    GoneReleased
CHECK_DEADLOCK FALSE
