CONSTANTS
    AgentSockets = {a1, a2}
    BrowserSockets = {b1}
    SessionSockets = {}
    Users = {u1}
    Devices = {d1, d2}
    BrowserIds = {i1}
    Codes = {c1, c2}
    UserOf <- OneUser
    BrowserIdOf <- OneBrowser
    MaxClients = 3
    None = none
SPECIFICATION Spec
PROPERTIES
    SwitchStopsTx
CHECK_DEADLOCK FALSE
