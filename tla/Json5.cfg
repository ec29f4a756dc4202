SPECIFICATION FairSpec
CONSTANTS
    MaxLen = 6
CHECK_DEADLOCK FALSE
INVARIANTS
    TypeOK
    Cleaned
PROPERTIES
    PrepEnds
