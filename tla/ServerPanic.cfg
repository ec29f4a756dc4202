SPECIFICATION Spec
CONSTANTS
    Nodes = {n1}
    Cores = {x1}
    OwnDns = {n1}
    Broken = Broken
    MaxEdits = 2
    MaxCoreFaults = 0
    MaxNodeFaults = 0
    MaxLate = 0
CHECK_DEADLOCK FALSE
INVARIANT NoPanic
