SPECIFICATION FairSpec
CONSTANTS
    Conns = {c1, c2}
    Users = {u1, u2}
    MinTraffic = 1
    MaxBytes = 3
    MaxDeletes = 1
    MaxPushFaults = 1
    MaxLostReplies = 1
    None = None
CHECK_DEADLOCK FALSE
INVARIANTS
    TypeOK
    NeverOverCharged
PROPERTY CounterCollected
