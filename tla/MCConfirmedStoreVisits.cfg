\* Two Organizations: visits, late responses and late deliveries.
SPECIFICATION Spec
CONSTANTS
    A = A
    B = B
    a1 = a1
    a2 = a2
    b1 = b1
    i1 = i1
    i2 = i2
    OrgOf <- MCOrgOf
    None = None
    Rows = {a1, b1}
    Orgs = {A, B}
    Writes = {w1}
    Reads = {i1, i2}
    MaxVersion = 2
    MaxSequence = 2
INVARIANTS
    NeverBehind
    OwnRowsOnly
    LogIsLive
CHECK_DEADLOCK FALSE
SYMMETRY ReadSymmetry
