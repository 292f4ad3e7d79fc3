SPECIFICATION Spec
SYMMETRY Interchangeable
CONSTANTS
    Processes = {p1, p2}
    BatchOps = {b1, b2}
    PlainOps = {}
    SupersedeAfter = 1
    Faults = {"power", "crash", "stall", "reorg", "drop", "reject", "fail"}
    MaxEnvelopes = 3
    MaxFaults = 1
INVARIANTS TypeOK OneOperationPerNonce OneSendOutstanding DurableBeforeBroadcast PreventedNeverSent ClearedFenceStaysCleared

CHECK_DEADLOCK FALSE
