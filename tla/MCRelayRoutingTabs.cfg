CONSTANTS
    AgentSockets = {a1}
    BrowserSockets = {b1, b2}
    SessionSockets = {}
    Users = {u1}
    Devices = {d1}
    BrowserIds = {i1}
    Codes = {c1}
    UserOf <- OneUser
    BrowserIdOf <- OneBrowser
    MaxClients = 3
    None = none
SPECIFICATION Spec
INVARIANTS
    WatchersArePaired
CHECK_DEADLOCK FALSE
