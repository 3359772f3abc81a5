CONSTANTS
    Pairs = {p1, p2, p3}
    NoPair = none
    AlertDelay = 1
    RetryDelay = 1
    RetryWindow = 2
    QuietTime = 1
    MaxTime = 2
    MaxFlights = 2
    MaxCloses = 2
SYMMETRY Symmetry
SPECIFICATION FlightSpec
PROPERTIES
    AlertsImplemented
CHECK_DEADLOCK FALSE
