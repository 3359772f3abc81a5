CONSTANTS
    Newest = 3
    MaxWrites = 2
    MaxCommands = 3
SPECIFICATION ServerSpec
INVARIANTS
    UpdatedMeansRunning
CHECK_DEADLOCK FALSE
