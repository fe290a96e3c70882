CONSTANTS
    N = 3
    SI = 2
    Timers = {t1, t2, t3}
    Timeouts = {0, 1, 4, 6, 9, 13}
    Null = Null
SPECIFICATION Spec
INVARIANTS
    TypeOK
    SlotListsIntact
    WheelExact
PROPERTIES
    ListsImplementSets
    FiresOnTime
