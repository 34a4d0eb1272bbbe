\* The whole life of two requests with one link each, over two emails.
SPECIFICATION Spec
CONSTANTS
    r1 = r1
    r2 = r2
    a1 = a1
    a2 = a2
    b1 = b1
    Requests = {r1, r2}
    Links = {a1, b1}
    Emails = {e1, e2}
    Checkers = {c1}
    RequestOf <- MCRequestOf
    NoLink = NoLink
INVARIANTS
    OneHeldClaimPerEmail
    CompletedIsWitnessed
    HeldClaimIsRecoverable
    WitnessedPasswordStands
PROPERTIES
    ImplementsHold
CHECK_DEADLOCK FALSE
SYMMETRY EmailSymmetry
