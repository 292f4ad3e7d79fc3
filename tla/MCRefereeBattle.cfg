SPECIFICATION Spec
CONSTANTS
    Lanes = 2
    Garrison = 1
    FleetSize = 1
    Flight = 2
    HoldTime = 1
    RecallCutoff = 1
    JoinCutoff = 1
    LinkedScan = 1
    MaxTime = 3
    MaxMissions = 3
    MaxOwnerSteps = 1
CHECK_DEADLOCK FALSE
INVARIANTS TypeOK RosterIsComplete LossesFollowRows AllOrNothing ImpactsInOrder
PROPERTIES RosterFixedOnceSealed BattlesEnd
