SPECIFICATION LifecycleSpec
CONSTANTS
    p1 = p1
    d1 = d1
    f1 = f1
    People = {p1}
    Files = {d1}
    FollowUps = {f1}
    Notes = {}
    PersonOf <- MCPersonOf
    Actors = {u1}
    Configurers = {u1}
    Asks = {}
    Direct = Direct
    Requests = {q1, q2}
    Retention = 1
    MaxClock = 3
SYMMETRY MCSymmetry
PROPERTIES
    ArtifactsGoArchived
CHECK_DEADLOCK FALSE
