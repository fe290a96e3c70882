CONSTANTS
    Fds = {s1, s2}
    Threads = {t1, t2}
    Listen = listen
    Garbage = garbage
    MaxWaiting = 2
SPECIFICATION Spec
INVARIANTS
    TypeOK
    OneReader
    NobodyForgotten
PROPERTIES
    ClientsServed
CHECK_DEADLOCK FALSE
