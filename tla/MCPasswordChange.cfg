SPECIFICATION Spec
CONSTANTS
    Sessions = {s1, s2, s3}
    Requests = {q1, q2}
    MaxAttempts = 2
SYMMETRY MCSymmetry
INVARIANTS
    NoLateWrite
    CompleteLeavesNoOther
PROPERTIES
    ImplementsHold
    FlowWritesOnce
CHECK_DEADLOCK FALSE
