SPECIFICATION FairSpec
CONSTANTS
    Conns = {c1, c2, c3}
    Users = {u1}
    MaxDeletes = 1
    None = None
CHECK_DEADLOCK FALSE
INVARIANTS
    TypeOK
    IndexIsOpenLinks
    PanicNeedsBoth
PROPERTY IdleUserFreed
