SPECIFICATION FairSpec
CONSTANTS
    Users = {1, 2}
    Limits = {l1}
    Cfgs = {g1, g2}
    Supported = {g1, g2}
    MaxSync = 2
    MaxEdits = 1
    MaxApiFaults = 1
    MaxCoreFaults = 0
    Nil = Nil
CHECK_DEADLOCK FALSE
PROPERTY ConfigConverges
