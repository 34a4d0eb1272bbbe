SPECIFICATION Spec
CONSTANTS
    p1 = p1
    d1 = d1
    f1 = f1
    u1 = u1
    a1 = a1
    a2 = a2
    a3 = a3
    People = {p1}
    Files = {d1}
    FollowUps = {f1}
    Notes = {}
    PersonOf <- MCPersonOf
    Actors = {u1}
    Configurers = {u1}
    Reviewers = {u1}
    Asks = {a1, a2, a3}
    AskedBy <- MCAskedBy
    TargetOf <- MCTargetOf
    Direct = Direct
    Requests = {q1, q2}
    Retention = 0
    MaxClock = 2
SYMMETRY MCSymmetry
CONSTRAINT MCKindsApart
PROPERTIES
    RestoreReturnsTheEvent
    PeopleGoArchived
    FilesGoArchived
    LifecycleByAuthority
    DecisionsStand
    DecidedByAuthority
    ImplementsArchive
CHECK_DEADLOCK FALSE
