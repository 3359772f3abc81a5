CONSTANTS
    DeviceKeys = {d1}
    Sessions = {s1, s2}
    BatchIds = {b1, b2}
    Subscribers = {u1}
    NoSession = none
    \* The first expires within the grace period and the last beyond the window: both are
    \* refused; the second is taken.
    Lifetimes = {1, 2, 3}
    OfflineDelay = 1
    MaxTicketLifetime = 2
    FiredReceiptTtl = 2
    MaxTickets = 1
    MaxBatchesPerDevice = 1
    MaxTime = 4
    MaxGeneration = 3
SPECIFICATION FairSpec
INVARIANTS
    TimersBelongToEntry
    ArmedWithOwnTickets
PROPERTIES
    OfflineIsNoticed
    ReceiptsSettle
    PromiseKept
