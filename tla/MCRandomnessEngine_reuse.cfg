SPECIFICATION Spec
CONSTANTS
    Words = {w1, w2, w3}
    Fulfillers = {f1}
    Requesters = {q1}
    Snapshots = {s1}
    NoOne = NoOne
    NoWord = NoWord
    NoCommitment = NoCommitment
    NoSnapshot = NoSnapshot
    MaxInventory = 2
    StaleDelay = 1
    BlockGaps = {1}
    MaxRequests = 2
    MaxBlock = 4
    MaxBatch = 2
SYMMETRY MCSymmetry
CHECK_DEADLOCK FALSE
PROPERTIES RevealedWordNeverBoundLater
