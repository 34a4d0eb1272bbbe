SPECIFICATION Spec
CONSTANTS
    u1 = u1
    u2 = u2
    u3 = u3
    f1 = f1
    f2 = f2
    i1 = i1
    i2 = i2
    Users = {u1, u2, u3}
    Founding = {f1, f2}
    Invitations = {i1, i2}
    Offer <- MCOffer
    Requests = {q1, q2}
    UserOf <- MCUserOf
    FirstRole <- MCFirstRole
SYMMETRY MCSymmetry
CONSTRAINT MCInOrder
INVARIANTS
    OneOwner
PROPERTIES
    ImplementsAccess
    EndedInvitationStaysEnded
    NoTransferWhileSuspended
CHECK_DEADLOCK FALSE
