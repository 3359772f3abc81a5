CONSTANTS
    Pairs = {p1, p2}
    NoPair = none
SPECIFICATION Spec
PROPERTIES
    StaleCloseKeepsCurrent
CHECK_DEADLOCK FALSE
