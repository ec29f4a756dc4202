SPECIFICATION Spec
CONSTANTS
    Conns = {c1, c2, c3}
    Users = {u1}
    IPs = {i1, i2}
    Speeds = {0, 1}
    Devices = {0, 1}
    NodeSpeed = 0
    MaxAlive = 1
    MaxUpdates = 1
    MaxReports = 1
    None = None
CHECK_DEADLOCK FALSE
SYMMETRY LimiterSymmetry
INVARIANTS
    TypeOK
    NoGhostDevice
    AdmittedIsCounted
    FullUserStaysFull
    SharedBucket
