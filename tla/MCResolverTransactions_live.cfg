SPECIFICATION LiveSpec
CONSTANTS
    Processes = {p1}
    BatchOps = {b1}
    PlainOps = {q1, q2}
    SupersedeAfter = 1
    Faults = {"crash", "drop", "fail"}
    MaxEnvelopes = 3
    MaxFaults = 1
PROPERTIES PlainAboveHistory SentIsProven
CHECK_DEADLOCK FALSE
