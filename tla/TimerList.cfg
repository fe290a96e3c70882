CONSTANTS
    Timers = {t1, t2, t3}
    Null = Null
    MaxTime = 2
SPECIFICATION ListSpec
INVARIANTS
    ListIntact
PROPERTY
    ListImplementsQueue
