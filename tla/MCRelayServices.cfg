CONSTANTS
    AgentSockets = {a1, a2}
    BrowserSockets = {b1}
    SessionSockets = {b1}
    Users = {u1}
    Devices = {d1, d2}
    BrowserIds = {i1}
    Codes = {c1}
    UserOf <- OneUser
    BrowserIdOf <- OneBrowser
    MaxClients = 3
    None = none
    OwnerSessions = {o1, o2}
    Passkeys = {k1, k2}
    Flows = {f1}
    Nil = nil
    MaxCodes = 1
    MaxAwaiting = 2
    Topics = {status}
    LocalTopics = {}
    Readings = {none, r1, r2, big}
    Unknown = none
    Refused = {big}
    Uplinks = {w1, w2}
    Pages = {p1}
    Absent = absent
    MaxWire = 2
    MaxCommits = 3
    MaxRestores = 2
    Missing = missing
    Damaged = damaged
    Subscribers = {n1, n2}
    MaxBatches = 1
    MaxChannel = 1
    MaxFlights = 2
    MaxLosses = 1
    NoEntry = none
    MaxItems = 2
    Newest = 3
    MaxWrites = 2
    MaxCommands = 3
    MaxPresses = 2
    NoTx = notx
    Agents = {g1, g2}
    NoAgent = noagent
    MaxSockets = 2
    MaxComings = 1
    MaxMessages = 1
    Tabs = {t1, t2}
    Tunings = {k1, k2}
    Untuned = untuned
    MaxOrders = 2
    MaxUpdates = 1
    Names = {u1, default}
    DefaultName = default
    Secrets = {x1, x2}
    NoSecret = nosecret
    CanBootstrap = TRUE
    Pilots = {u1}
    Sessions = {s1, s2}
    Tokens = {t1, t2}
    FileTokens = {t1}
    NoToken = none
    PairableBrowsers = {i1}
    MaxOpen = 1
SPECIFICATION ServicesSpec
INVARIANTS
    AccessFollowsAccounts
    SessionsFollowPassword
    NoGhostDevices
    PasskeysHaveCodes
    PresenceHolds
    DatabaseHolds
    RelayMatchesAgent
    RemoteWorksAsLocal
    ServerKeepsData
    OnAirWhileHeld
    PageKeepsUp
    PanelsSettle
PROPERTIES
    DeviceSurvivesOldSocket
    TxEndReachesAgent
CHECK_DEADLOCK FALSE
