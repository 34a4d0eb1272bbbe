\* Two templates with a definition each, two rows, two requests.
SPECIFICATION Spec
CONSTANTS
    A = A
    B = B
    d1 = d1
    d2 = d2
    Definitions = {d1, d2}
    Templates = {A, B}
    Home <- MCHome
    Forms <- StepForms
    FirstForm <- MCFirstForm
    Stages = {"s1", "s2"}
    Rows = {r1, r2}
    Requests = {q1, q2}
    MaxChanges = 2
    None = None
INVARIANTS
    OneRowPerDefinition
    OnlySelectedActive
PROPERTIES
    ProgressIsKept
    WorkGoesOnlyWhenDone
    ImplementsRecord
SYMMETRY PacketSymmetry
CHECK_DEADLOCK FALSE
