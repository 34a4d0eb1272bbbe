\* Two saves of starting numbers on one form.
SPECIFICATION Spec
CONSTANTS
    NoOne = NoOne
    Planners = {p1, p2}
    People = {k, l}
    MaxDay = 2
    HandDays = 1
    MaxForms = 1
    MaxCalls = 2
PROPERTIES
    OtherBoxesStay
CHECK_DEADLOCK FALSE
