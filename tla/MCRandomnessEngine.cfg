SPECIFICATION Spec
CONSTANTS
    Words = {w1, w2, w3}
    Fulfillers = {f1}
    Requesters = {q1}
    Snapshots = {s1, s2}
    NoOne = NoOne
    NoWord = NoWord
    NoCommitment = NoCommitment
    NoSnapshot = NoSnapshot
    MaxInventory = 3
    StaleDelay = 1
    BlockGaps = {1}
    MaxRequests = 2
    MaxBlock = 4
    MaxBatch = 2
SYMMETRY MCSymmetry
CHECK_DEADLOCK FALSE
INVARIANTS TypeOK CommitmentServesOneRequest FifoWellFormed BattleWordFixedInAdvance
PROPERTIES SettledRequestsAreFinal ImplementsOracle
