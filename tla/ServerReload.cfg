SPECIFICATION FairSpec
CONSTANTS
    Nodes = {n1, n2}
    Cores = {x1, x2}
    OwnDns = {n1}
    Broken = Broken
    MaxEdits = 3
    MaxCoreFaults = 1
    MaxNodeFaults = 2
    MaxLate = 1
CHECK_DEADLOCK FALSE
INVARIANTS
    TypeOK
    NodesOnLiveCore
    NoStrayInbound
PROPERTIES
    LastEditApplied
    ReloadsEnd
