CONSTANTS
    Pairs = {p1, p2}
    NoPair = none
    MaxRecords = 3
    MaxPending = 1
    AlertDelay = 1
    RetryDelay = 2
    RetryWindow = 4
    QuietTime = 1
    MaxTime = 7
    MaxFlights = 2
    MaxCloses = 3
SPECIFICATION MCSpec
INVARIANTS
    OrderKept
    NeverStalls
    OneAlertPath
    AlertedOnce
PROPERTIES
    AlertNotForgotten
    LostSessionsEnd
CHECK_DEADLOCK FALSE
