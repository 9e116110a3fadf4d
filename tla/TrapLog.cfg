SPECIFICATION Spec
CONSTANTS
    RingSize = 3
    NotableSize = 2
    Interval = 2
    MaxLate = 3
    MaxTraps = 6
    Budgets = {0, 1, 2, 5}
INVARIANTS
    TypeOK
    RingIsTail
    DigestTellsTruth
PROPERTY
    CadenceKept
CHECK_DEADLOCK FALSE
