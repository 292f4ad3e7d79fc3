SPECIFICATION Spec
CONSTANTS
    Players = {p1, p2, p3}
    LastAlliance = 2
    WarMinimum = 1
    MaxWars = 2
    MaxPaid = 1
    Together = FALSE
    MaxPending = 2
SYMMETRY Anybody
INVARIANTS TypeOK RostersAgree WarExceptionsAreFrozen BonusFollowsMembership
