SPECIFICATION Spec
CONSTANTS
    Burns = {"b1", "b2"}
    Planets = {"l1", "l2"}
    Target <- MCTarget
    Fallback = {"b2"}
    Passes = {p1, p2}
    Stored = 1
    StartBlock = 3
    Lookback = 0
    RangeBlocks = 0
    MaxHeight = 4
    MaxFaults = 1
INVARIANT TypeOK NoneSkipped
PROPERTY EveryBurnGranted
CHECK_DEADLOCK FALSE
