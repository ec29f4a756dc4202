SPECIFICATION Spec
CONSTANTS
    Conns = {c1}
    Users = {u1}
    MinTraffic = 1
    MaxBytes = 3
    MaxDeletes = 0
    MaxPushFaults = 1
    MaxLostReplies = 0
    None = None
CHECK_DEADLOCK FALSE
INVARIANT NothingLost
