\* Two rows of one Organization, two writes and a read: batches and reads of
\* some rows, rereads and pruning.
SPECIFICATION Spec
CONSTANTS
    A = A
    B = B
    a1 = a1
    a2 = a2
    b1 = b1
    i1 = i1
    i2 = i2
    OrgOf <- MCOrgOf
    None = None
    Rows = {a1, a2}
    Orgs = {A}
    Writes = {w1, w2}
    Reads = {i1}
    MaxVersion = 2
    MaxSequence = 2
PROPERTIES
    OpenReadsStayUsable
CHECK_DEADLOCK FALSE
SYMMETRY RowSymmetry
