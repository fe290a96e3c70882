CONSTANTS
    Workers = {w1}
    READ_BUFFER_SIZE = 8
    Requests <- MCWholeRequests
    Files = {"missing", "file"}
    HeaderLen = 3
    FileLen = 1
    MaxConns = 1
SPECIFICATION Spec
PROPERTY
    RequestAnswered
CHECK_DEADLOCK FALSE
