SPECIFICATION FairSpec
CONSTANTS
    Chains = {c1, c2}
    Closers = {k1, k2}
    None = None
INVARIANTS
    TypeOK
    MutualExclusion
    RunningHasDriver
    LoneTimerIsStoppable
PROPERTIES
    Quiesces
    PeriodicallyExecutes
    CloseReturns
