SPECIFICATION PresentationSpec
CONSTANTS
    Node = {a, b}
    a = a
    b = b
    Adder = {a}
    Tries = 2
    MaxFaults = 1
PROPERTIES
    OnlyRepliesLeaveMarks
    Reunited
CHECK_DEADLOCK FALSE
