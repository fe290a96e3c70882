CONSTANTS
    m_process_number = 2
    Clients = {1, 2}
    Talkers = {1}
    Garbage = {{}}
    PipeCap = 3
    MaxCrashes = 0
SPECIFICATION Spec
PROPERTY
    ReportFreesChild
CHECK_DEADLOCK FALSE
