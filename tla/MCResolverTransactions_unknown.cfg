SPECIFICATION Spec
SYMMETRY Interchangeable
CONSTANTS
    Processes = {p1}
    BatchOps = {b1}
    PlainOps = {q1}
    SupersedeAfter = 1
    Faults = {"fail"}
    MaxEnvelopes = 3
    MaxFaults = 1
INVARIANTS NonceNotLost
CHECK_DEADLOCK FALSE
