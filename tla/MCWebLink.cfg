CONSTANTS
    MaxPresses = 2
    NoTx = notx
    Agents = {a1, a2}
    NoAgent = noagent
    MaxSockets = 2
    MaxComings = 1
    MaxMessages = 2
SPECIFICATION PageSpec
INVARIANTS
    ReadyMeansSelected
CHECK_DEADLOCK FALSE
