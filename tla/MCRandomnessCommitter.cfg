SPECIFICATION SealingSpec
CONSTANTS
    Replicas = {a, b}
    Target = 2
    MaxInventory = 2
    MaxWords = 6
    MaxRequests = 1
    MaxFaults = 1
CHECK_DEADLOCK FALSE
INVARIANTS TypeOK SecretsDurable BroadcastsStayJournaled
PROPERTIES RevealablesRevealed InventoryRefilled
