CONSTANTS
    Timers = {t1, t2}
    Conns = {1, 2}
    Null = Null
    ListenFd = ListenFd
    PipeFd = PipeFd
    TIMESLOT = 1
    MaxBacklog = 1
    MaxData = 1
SPECIFICATION Spec
INVARIANTS
    TimersMatchConnections
    AlarmChain
PROPERTIES
    TickExact
    GoneClientReleased
    TermStops
