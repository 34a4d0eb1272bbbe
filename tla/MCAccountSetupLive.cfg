\* Two links of one request, with the fairness of FairSpec.
SPECIFICATION FairSpec
CONSTANTS
    r1 = r1
    r2 = r2
    a1 = a1
    a2 = a2
    b1 = b1
    Requests = {r1}
    Links = {a1, a2}
    Emails = {e1}
    Checkers = {c1}
    RequestOf <- MCRequestOf
    NoLink = NoLink
INVARIANTS
    NegativeAnswerMeansNoPassword
PROPERTIES
    HeldClaimReconciles
CHECK_DEADLOCK FALSE
