CONSTANTS
    m_process_number = 2
    Clients = {1, 2}
    Talkers = {1}
    Garbage = {{}, {1}}
    PipeCap = 1
    MaxCrashes = 1
SPECIFICATION Spec
INVARIANTS
    TypeOK
    EveryMessageHasConnection
    NoOrphans
CHECK_DEADLOCK FALSE
PROPERTY
    ShutdownCompletes
