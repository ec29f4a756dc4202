SPECIFICATION MonitorTaskSpec
CONSTANTS
    Chains = {c1}
    Closers = {k1}
    None = None
PROPERTY PeriodicallyExecutes
CHECK_DEADLOCK FALSE
