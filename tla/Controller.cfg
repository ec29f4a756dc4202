SPECIFICATION FairSpec
CONSTANTS
    Users = {1, 2}
    Limits = {l1, l2}
    Cfgs = {g1, g2}
    Supported = {g1}
    MaxSync = 1
    MaxEdits = 2
    MaxApiFaults = 1
    MaxCoreFaults = 1
    Nil = Nil
CHECK_DEADLOCK FALSE
INVARIANTS
    TypeOK
    InSync
    ServedHaveUid
    ListeningHasLimiter
    ClosedStaysDown
PROPERTIES
    OnlyChangesReload
    UsersConverge
    ChangesArrive
