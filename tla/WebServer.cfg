CONSTANTS
    Fds = {5, 6}
    MAX_FD = 2
    MaxBacklog = 2
    listenfd = 3
SPECIFICATION Spec
INVARIANT
    ConnectionRegistered
CHECK_DEADLOCK FALSE
