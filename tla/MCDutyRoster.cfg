\* Two planners, two days of a duty that two People hold in turn, three forms.
SPECIFICATION Spec
CONSTANTS
    NoOne = NoOne
    Planners = {p1, p2}
    People = {k, l}
    MaxDay = 2
    HandDays = 1
    MaxForms = 3
    MaxCalls = 3
SYMMETRY MCSymmetry
INVARIANTS
    SwapsStand
    RosterMarkIsEarned
PROPERTIES
    RecordStays
    ImplementsBook
CHECK_DEADLOCK FALSE
