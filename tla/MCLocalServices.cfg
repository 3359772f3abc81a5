CONSTANTS
    Duration = 3
    MaxTime = 8
    MaxGeneration = 5
    None = None
    RemoteTx = RemoteTx
    Sockets = {b1, RemoteTx}
    Coms = {1}
    MaxQueue = 1
    MaxStarts = 2
    Hosts = {h1, h2}
    Sources = {q1}
    Headers = {s1}
    ZeroHeader = zero
    MaxServers = 2
    MaxFlows = 2
    MaxLogins = 2
    Installations = {i1, i2, i3}
    MaxSubscriptions = 2
    MaxChanges = 3
    Nobody = nobody
    Airports = {a1, a2}
    NoAirport = none
    NoReport = none
    MaxWaiting = 2
    MaxReplies = 2
    MaxBusy = 1
    Pairs = {p1, p2}
    Channels = {f1, f2}
    NoPair = nopair
    Unheard = unheard
    Updates = {d1, d2}
    Senders = {none, g1, g2}
    NoSender = none
    Frequencies = {f1}
    Peers = {c1}
    Blank = blank
    Remotes = {r1, r2}
    Callers = {c1}
    MaxMail = 3
    MaxVisits = 2
    Preferences = {0, 1}
    Nothing = nothing
    MaxLinks = 2
    MaxWishes = 4
    MaxFrames = 3
    MaxMutings = 3
    MaxFrameBytes = 1000
    StreamLength = 2
    FullSegment = 3
    PageSegments = 2
    PacketSizes = {0, 4, 6}
    PacketCount = 4
    PlanAirports = {a1, a2}
    NoPlanned = noplan
    MaxReports = 2
    MaxPending = 3
    Retained = 3
    ViewRows = 1
    ChatRadios = {f1, f2}
    MaxChat = 4
    Filters = {"all", "system"}
    Partners = {"one"}
    Aircraft = {"h1", "h2"}
    MaxGestures = 2
    MaxLayoutChanges = 3
    Controllers = {"c1", "c2"}
    Waves = {w1, w2}
    Places = {"near", "away"}
    InReach <- Reach
    Nowhere = nowhere
    MaxNews = 3
    MaxTunings = 2
SYMMETRY Symmetry
SPECIFICATION MCSpec
INVARIANTS
    OneAlertPerReminder
    VoicePathHolds
    StoreKeepsSubscriptions
    WeatherForPlanAndPilot
    NothingHalfStaged
    NoTextStrays
    PreferencesReachAgent
    NothingReplayed
    StreamsReassembled
    AnswersAreShown
    ReadingPlaceKept
    TabsAsArranged
    PanelTellsTruth
PROPERTIES
    TalkerNotCutOff
CHECK_DEADLOCK FALSE
