SPECIFICATION Spec
CONSTANTS
    Replicas = {a, b}
    Target = 2
    MaxInventory = 2
    MaxWords = 4
    MaxRequests = 1
    MaxFaults = 1
SYMMETRY MCSymmetry
CHECK_DEADLOCK FALSE
INVARIANTS SecretsNeverOverwritten
