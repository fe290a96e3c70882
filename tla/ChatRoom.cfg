CONSTANTS
    USER_LIMIT = 2
    BUFFER_SIZE = 2
    Fds = {5, 6, 7}
    Clients = {1, 2, 3}
    MaxSends = 3
SPECIFICATION Spec
INVARIANTS
    TableExact
    TurnComplete
    TextsInOrder
CHECK_DEADLOCK FALSE
PROPERTY
    GoneDropped
