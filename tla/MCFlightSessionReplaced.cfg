CONSTANTS
    Pairs = {p1, p2}
    NoPair = none
    AlertDelay = 1
    RetryDelay = 1
    RetryWindow = 2
    QuietTime = 1
    MaxTime = 3
    MaxFlights = 2
    MaxCloses = 3
SPECIFICATION FlightSpec
INVARIANTS
    DisarmedWhenAllClosed
CHECK_DEADLOCK FALSE
