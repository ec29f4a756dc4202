SPECIFICATION FairSpec
CONSTANTS
    Sniffers = {"http", "bittorrent"}
    Override = {"http", "fakedns"}
    RuleSets <- MCRuleSets
    MaxChunks = 2
    Depth = 2
    MaxUpdates = 1
CHECK_DEADLOCK FALSE
INVARIANTS
    TypeOK
    BlockedIsStopped
    PanicsOnlyIfReplaced
PROPERTIES
    SniffingIsInvisible
    SniffingEnds
