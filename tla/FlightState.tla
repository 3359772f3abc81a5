---------------------------- MODULE FlightState ----------------------------
(***************************************************************************)
(* What the local agent knows of the flight (proxy/app-state.js) and the   *)
(* records of the FSD connection that change it (handleFsdLine() and the   *)
(* commands of proxy/fsd-proxy.js).  Weather is asked for by chat commands *)
(* and by the route panel; IVAO's replies name the kind and the airport    *)
(* but not the request, and may come late, after the flight plan changed   *)
(* or after the connection was replaced.                                   *)
(***************************************************************************)
EXTENDS Naturals, FiniteSets, Sequences, SequencesExt

CONSTANTS
    Airports,       \* ICAO codes
    NoAirport,      \* no code
    NoReport,       \* nothing received yet
    MaxWaiting,     \* requests remembered for one kind and airport
    MaxReplies,     \* bound: replies of one kind and airport on their way
    MaxBusy         \* bound: kinds and airports that are waited for at a time

ASSUME FlightStateAssumption ==
    /\ NoAirport \notin Airports
    /\ MaxWaiting \in Nat \ {0} /\ MaxReplies \in Nat /\ MaxBusy \in Nat

Roles == {"departure", "destination"}
Kinds == {"metar", "taf"}
WeatherKeys  == Kinds \X Airports
Plan  == [Roles -> Airports \cup {NoAirport}]
NoPlan == [r \in Roles |-> NoAirport]
NoRole == ""    \* a request of the chat, an airport that is not planned

VARIABLES
    callsignKnown,  \* callsign # null
    ivaoOpen,       \* isSocketOpen(ivaoSocket)
    planStatus,     \* flightPlanStatus
    flightPlan,     \* flightPlan
    weather,        \* weatherState: airport and reports of either role
    waiting,        \* pendingWeatherRequests
    replies,        \* replies that IVAO still sends
    owed            \* chat requests whose report has not been shown

flightStateVars == <<callsignKnown, ivaoOpen, planStatus, flightPlan, weather, waiting, replies, owed>>

\* createEmptyWeatherState()
EmptyWeather(plan) ==
    [r \in Roles |-> [icao |-> plan[r], reports |-> [k \in Kinds |-> NoReport]]]

FlightInit ==
    /\ callsignKnown = FALSE /\ ivaoOpen = FALSE
    /\ planStatus = "missing" /\ flightPlan = NoPlan /\ weather = EmptyWeather(NoPlan)
    /\ waiting = [k \in WeatherKeys |-> <<>>] /\ replies = [k \in WeatherKeys |-> 0]
    /\ owed = [k \in WeatherKeys |-> 0]

-----------------------------------------------------------------------------
(***************************************************************************)
(* The connection                                                          *)
(***************************************************************************)
\* A new pair reaches IVAO.  The requests
\* of the previous connection stay remembered, their replies are lost.
SessionOpens ==
    /\ ivaoOpen' = TRUE
    /\ replies' = [k \in WeatherKeys |-> 0] /\ owed' = [k \in WeatherKeys |-> 0]
    /\ UNCHANGED <<callsignKnown, planStatus, flightPlan, weather, waiting>>

SessionEnds ==
    /\ ivaoOpen
    /\ ivaoOpen' = FALSE
    /\ replies' = [k \in WeatherKeys |-> 0] /\ owed' = [k \in WeatherKeys |-> 0]
    /\ UNCHANGED <<callsignKnown, planStatus, flightPlan, weather, waiting>>

\* setCallsign(), of PilotUI or of a login record
LoginSeen ==
    /\ callsignKnown' = TRUE
    /\ UNCHANGED <<ivaoOpen, planStatus, flightPlan, weather, waiting, replies, owed>>

-----------------------------------------------------------------------------
(***************************************************************************)
(* The flight plan                                                         *)
(***************************************************************************)
\* normalizeFlightPlan(): fields the record lacks are kept.
Filled(next) == [r \in Roles |-> IF next[r] # NoAirport THEN next[r] ELSE flightPlan[r]]

\* Fault: the plan is replaced and the weather kept.
PlanRecordKeepsWeather(status, next) ==
    LET plan == IF status = "filed" THEN Filled(next) ELSE NoPlan IN
    /\ planStatus' = status
    /\ flightPlan' = plan
    /\ UNCHANGED <<callsignKnown, ivaoOpen, weather, waiting, replies, owed>>

\* A flight_plan_status record; updateFlightPlanStatus() forgets the weather when
\* an airport changes.
PlanRecord(status, next) ==
    LET plan == IF status = "filed" THEN Filled(next) ELSE NoPlan IN
    /\ planStatus # status \/ plan # flightPlan
    /\ planStatus' = status
    /\ flightPlan' = plan
    /\ weather' = IF plan = flightPlan THEN weather ELSE EmptyWeather(plan)
    /\ UNCHANGED <<callsignKnown, ivaoOpen, waiting, replies, owed>>

-----------------------------------------------------------------------------
(***************************************************************************)
(* Weather requests and replies                                            *)
(***************************************************************************)
Count(list, source) == Cardinality({i \in DOMAIN list : list[i].source = source})
AtMost(n, m) == IF n <= m THEN n ELSE m
Forget(k, list) == [owed EXCEPT ![k] = AtMost(@, Count(list, "manual"))]

\* rememberPendingWeatherRequest(): the last MaxWaiting are kept.
Remembered(k, source, role) ==
    LET list == Append(waiting[k], [source |-> source, role |-> role])
    IN  IF Len(list) > MaxWaiting THEN Tail(list) ELSE list

\* sendWeatherRequest(): "manual" of the chat, "panel" of the route panel, which
\* names the role it is for; it needs a callsign and the connection.
RequestWeather(k, source, role) ==
    /\ callsignKnown /\ ivaoOpen
    /\ source = "manual" => role = NoRole
    /\ replies[k] < MaxReplies  \* bound
    /\ Cardinality({x \in WeatherKeys : waiting[x] # <<>> \/ replies[x] > 0} \cup {k}) <= MaxBusy  \* bound
    /\ replies' = [replies EXCEPT ![k] = @ + 1]
    /\ waiting' = [waiting EXCEPT ![k] = Remembered(k, source, role)]
    /\ owed' = [owed EXCEPT ![k] = AtMost(@ + (IF source = "manual" THEN 1 ELSE 0),
                                          Count(Remembered(k, source, role), "manual"))]
    /\ UNCHANGED <<callsignKnown, ivaoOpen, planStatus, flightPlan, weather>>

\* cleanupPendingWeatherRequests(): the oldest leave after WEATHER_PENDING_TTL_MS.
RequestAges(k) ==
    /\ waiting[k] # <<>>
    /\ waiting' = [waiting EXCEPT ![k] = Tail(@)]
    /\ owed' = Forget(k, Tail(waiting[k]))
    /\ UNCHANGED <<callsignKnown, ivaoOpen, planStatus, flightPlan, weather, replies>>

\* roleForWeatherIcao()
RoleFor(icao) ==
    IF flightPlan["departure"] = icao THEN "departure"
    ELSE IF flightPlan["destination"] = icao THEN "destination" ELSE NoRole

\* updateWeatherPanel() and updateWeather(): a report is named by its kind and
\* airport.
PanelReport(k, request) ==
    LET role == IF request.role # NoRole THEN request.role ELSE RoleFor(k[2]) IN
    IF role = NoRole \/ weather[role].icao # k[2] THEN weather
    ELSE [weather EXCEPT ![role].reports[k[1]] = k]

IsManual(x) == x.source = "manual"
IsPanel(x)  == ~IsManual(x)
First(list, Test(_)) ==
    LET hits == {i \in DOMAIN list : Test(list[i])}
    IN  IF hits = {} THEN 0 ELSE CHOOSE i \in hits : \A j \in hits : i <= j
Dropped(list, i) == IF i = 0 THEN list ELSE RemoveAt(list, i)

Shown(k) == [owed EXCEPT ![k] = IF @ > 0 THEN @ - 1 ELSE 0]

\* handleWeatherReply(): the first chat request takes the reply, which is then
\* shown and also serves the first of the panel's requests; without one, the
\* panel takes it silently; a reply nobody waits for is shown.
ServeReply(k) ==
    LET list == waiting[k]
        m == First(list, IsManual)
        rest == Dropped(list, m)
        p == First(rest, IsPanel) IN
    /\ waiting' = [waiting EXCEPT ![k] = Dropped(rest, p)]
    /\ weather' = IF p # 0 THEN PanelReport(k, rest[p]) ELSE weather
    /\ owed' = IF m # 0 \/ p = 0 THEN Shown(k) ELSE owed
    /\ UNCHANGED <<callsignKnown, ivaoOpen, planStatus, flightPlan>>

WeatherReply(k) ==
    /\ replies[k] > 0
    /\ replies' = [replies EXCEPT ![k] = @ - 1]
    /\ ServeReply(k)

FlightNext ==
    \/ SessionOpens
    \/ SessionEnds
    \/ LoginSeen
    \/ \E status \in {"filed", "missing"}, next \in Plan : PlanRecord(status, next)
    \/ \E k \in WeatherKeys, source \in {"manual", "panel"}, role \in Roles \cup {NoRole} :
           RequestWeather(k, source, role)
    \/ \E k \in WeatherKeys : RequestAges(k)
    \/ \E k \in WeatherKeys : WeatherReply(k)

FlightSpec == FlightInit /\ [][FlightNext]_flightStateVars

-----------------------------------------------------------------------------
\* A report on the panel belongs to the airport that is planned now, however
\* late it came and whatever it was asked for.
WeatherMatchesPlan ==
    \A r \in Roles :
        /\ weather[r].icao = flightPlan[r]
        /\ \A kind \in Kinds : weather[r].reports[kind] \in {NoReport, <<kind, flightPlan[r]>>}

\* The report a chat command asked for is shown: no reply that is still due goes
\* to the panel instead, whatever requests of the panel or of an earlier
\* connection wait for the same report.
CommandAnswered == \A k \in WeatherKeys : replies[k] = 0 => owed[k] = 0
=============================================================================
