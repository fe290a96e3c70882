CONSTANTS
    Workers = {w1, w2}
    Callers = {c1, c2}
    Garbage = {0, 1, 2}
    MaxCalls = 3
    None = None
SPECIFICATION FairSpec
INVARIANTS
    TypeOK
    TokensMatchQueue
    ExactlyOnce
    QueueBound
PROPERTY
    EveryRequestServed
