SPECIFICATION Spec
CONSTANTS
    GameLogs <- MCGameLogs
    OtherLogs <- MCOtherLogs
    Completions <- MCCompletions
    Restored <- MCRestored
    Together <- MCTogether
    Overlap = 2
    MaxBlocks = 4
    Budget = 4
    MaxFaults = 2
INVARIANTS TypeOK SafeIsExact
PROPERTY Settles
