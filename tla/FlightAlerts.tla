---------------------------- MODULE FlightAlerts ----------------------------
(***************************************************************************)
(* The local proxy's alerts about a flight (proxy.js): the IVAO disconnect *)
(* alert with its retries, the IVAO online alert, and the flight session   *)
(* for which the relay's watchdog is armed.  The FSD proxy calls in with   *)
(* onConnected and onClose; here it is any environment that may do so.     *)
(*                                                                         *)
(* Time is an integer clock; timers may run late, never early.  A push is  *)
(* an await: everything else may happen before it ends.                    *)
(***************************************************************************)
EXTENDS Integers, FiniteSets

CONSTANTS
    AlertDelay,    \* IVAO_DISCONNECT_ALERT_DELAY_MS
    RetryDelay,    \* IVAO_DISCONNECT_ALERT_RETRY_MS
    RetryWindow,   \* IVAO_DISCONNECT_ALERT_WINDOW_MS
    QuietTime,     \* IVAO_STARTUP_NOTIFICATION_QUIET_MS
    MaxTime,       \* bound of the clock
    MaxFlights,    \* bound of the confirmed IVAO connections
    MaxCloses      \* bound of the FSD closes and of the watchdog's reports

ASSUME AlertDelaysAssumption ==
    /\ AlertDelay \in Nat \ {0}
    /\ RetryDelay \in Nat \ {0}
    /\ QuietTime \in Nat \ {0}
    /\ RetryWindow \in Nat /\ RetryWindow >= AlertDelay
    /\ MaxTime \in Nat /\ MaxFlights \in Nat /\ MaxCloses \in Nat

VARIABLES
    alertTimer,           \* ivaoDisconnectAlertTimer
    alertDeadline,        \* ivaoDisconnectAlertDeadline
    alertGeneration,      \* ivaoDisconnectAlertGeneration
    alertTimers,          \* disconnect timers set and not yet run or cleared
    pushing,              \* notifyIvaoDisconnected calls that are awaited
    onlineTimer,          \* ivaoConnectedAlertTimer
    onlineTimers,         \* online timers set and not yet run or cleared
    connectionGeneration, \* ivaoConnectionGeneration
    quietUntil,           \* ivaoStartupNotificationQuietUntil
    watchdog,             \* agentWatchdogState; session ids count from 1
    subscribed,           \* subscriptionCount >= 1
    fsdConnected,         \* fsdProxy.isConnected()
    confirmed,            \* the FSD proxy still owes a close with wasConnected
    now,                  \* Date.now()
    closes,               \* history: FSD closes and watchdog reports so far
    lostAt,               \* history: the last close with wasConnected
    connectedAt,          \* history: the last onConnected
    alerted,              \* history: accepted disconnect alerts of each flight
    announced,            \* history: online alerts of each flight
    unsure                \* history: flights whose push was accepted and then threw

disconnectVars == <<alertTimer, alertDeadline, alertGeneration, alertTimers>>
onlineVars == <<onlineTimer, onlineTimers, connectionGeneration, quietUntil>>
fsdState == <<fsdConnected, confirmed>>
alertHistory == <<closes, lostAt, connectedAt, alerted, announced, unsure>>
alertVars == <<disconnectVars, pushing, onlineVars, watchdog, subscribed, now, alertHistory>>
flightVars == <<alertVars, fsdState>>

Timer   == [generation : Nat, due : Nat]
NoTimer == [generation |-> 0, due |-> 0]
Push    == [generation : Nat, flight : Nat, targets : BOOLEAN]

AlertTypeOK ==
    /\ alertTimer \in Timer
    /\ alertDeadline \in Nat
    /\ alertGeneration \in Nat
    /\ alertTimers \subseteq Timer
    /\ pushing \subseteq Push
    /\ onlineTimer \in Timer
    /\ onlineTimers \subseteq Timer
    /\ connectionGeneration \in Nat
    /\ quietUntil \in Nat
    /\ watchdog \in [armed : BOOLEAN, sessionId : Nat]
    /\ subscribed \in BOOLEAN /\ fsdConnected \in BOOLEAN /\ confirmed \in BOOLEAN
    /\ now \in Nat /\ closes \in Nat /\ lostAt \in Nat /\ connectedAt \in Nat
    /\ alerted \in [1..MaxFlights -> Nat]
    /\ announced \in [1..MaxFlights -> Nat]
    /\ unsure \subseteq Nat

AlertsInit ==
    /\ alertTimer = NoTimer /\ alertDeadline = 0 /\ alertGeneration = 0
    /\ alertTimers = {} /\ pushing = {}
    /\ onlineTimer = NoTimer /\ onlineTimers = {}
    /\ connectionGeneration = 0 /\ quietUntil = 0
    /\ watchdog = [armed |-> FALSE, sessionId |-> 0]
    /\ subscribed \in BOOLEAN
    /\ now = 0 /\ closes = 0 /\ lostAt = 0 /\ connectedAt = 0
    /\ alerted = [f \in 1..MaxFlights |-> 0]
    /\ announced = [f \in 1..MaxFlights |-> 0]
    /\ unsure = {}

AnyProxyInit == AlertsInit /\ fsdConnected = FALSE /\ confirmed = FALSE

\* A disconnect alert is scheduled, due or being retried.
Pending == alertDeadline # 0

-----------------------------------------------------------------------------
(***************************************************************************)
(* The functions of proxy.js that the handlers share.                      *)
(***************************************************************************)

\* clearTimeout of the two handles.
AlertTimersCleared  == alertTimers \ {alertTimer}
OnlineTimersCleared == onlineTimers \ {onlineTimer}

\* cancelIvaoDisconnectAlert; timers are those that stay.
CancelDisconnectAlert(timers) ==
    /\ alertGeneration' = alertGeneration + 1
    /\ alertTimers' = timers
    /\ alertTimer' = NoTimer
    /\ alertDeadline' = 0

\* scheduleIvaoDisconnectAlert; suppressed is what the telemetry says.
ScheduleDisconnectAlert(suppressed) ==
    LET timer == [generation |-> alertGeneration + 1, due |-> now + AlertDelay]
    IN  IF subscribed /\ ~suppressed
        THEN /\ alertGeneration' = alertGeneration + 1
             /\ alertTimers' = AlertTimersCleared \cup {timer}
             /\ alertTimer' = timer
             /\ alertDeadline' = now + RetryWindow
        ELSE CancelDisconnectAlert(AlertTimersCleared)

\* cancelIvaoConnectedAlert
CancelOnlineAlert ==
    /\ connectionGeneration' = connectionGeneration + 1
    /\ onlineTimers' = OnlineTimersCleared
    /\ onlineTimer' = NoTimer
    /\ quietUntil' = 0

\* disarmAgentOfflineWatchdog
Disarmed == [watchdog EXCEPT !.armed = FALSE]

-----------------------------------------------------------------------------
(***************************************************************************)
(* The callbacks of the FSD proxy and of the relay.                        *)
(***************************************************************************)

\* Fault: a reconnect does not end the pending disconnect alert.
ConnectedKeepsAlert ==
    /\ watchdog.sessionId < MaxFlights
    /\ UNCHANGED disconnectVars
    /\ watchdog' = [armed |-> TRUE, sessionId |-> watchdog.sessionId + 1]
    /\ LET timer == [generation |-> connectionGeneration + 1, due |-> now + QuietTime]
       IN  /\ connectionGeneration' = connectionGeneration + 1
           /\ onlineTimers' = OnlineTimersCleared \cup {timer}
           /\ onlineTimer' = timer
    /\ quietUntil' = now + QuietTime
    /\ connectedAt' = now
    /\ UNCHANGED <<pushing, subscribed, now, closes, lostAt, alerted, announced, unsure>>

\* handleIvaoConnected
HandleIvaoConnected ==
    /\ watchdog.sessionId < MaxFlights  \* bound
    /\ CancelDisconnectAlert(AlertTimersCleared)
    /\ watchdog' = [armed |-> TRUE, sessionId |-> watchdog.sessionId + 1]
    /\ LET timer == [generation |-> connectionGeneration + 1, due |-> now + QuietTime]
       IN  /\ connectionGeneration' = connectionGeneration + 1
           /\ onlineTimers' = OnlineTimersCleared \cup {timer}
           /\ onlineTimer' = timer
    /\ quietUntil' = now + QuietTime
    /\ connectedAt' = now
    /\ UNCHANGED <<pushing, subscribed, now, closes, lostAt, alerted, announced, unsure>>

\* Fault: a failed attempt to connect cancels the alert, too.
CloseCancels ==
    /\ closes < MaxCloses
    /\ closes' = closes + 1
    /\ CancelOnlineAlert
    /\ CancelDisconnectAlert(AlertTimersCleared)
    /\ UNCHANGED <<pushing, watchdog, subscribed, now, lostAt, connectedAt, alerted,
                   announced, unsure>>

\* onClose of a session that never reached IVAO: a pending alert goes on.
OnUnconfirmedClose ==
    /\ closes < MaxCloses  \* bound
    /\ closes' = closes + 1
    /\ CancelOnlineAlert
    /\ UNCHANGED <<disconnectVars, pushing, watchdog, subscribed, now, lostAt, connectedAt,
                   alerted, announced, unsure>>

\* onClose with wasConnected
OnConfirmedClose(suppressed) ==
    /\ closes < MaxCloses  \* bound
    /\ closes' = closes + 1
    /\ CancelOnlineAlert
    /\ watchdog' = Disarmed
    /\ ScheduleDisconnectAlert(suppressed)
    /\ lostAt' = now
    /\ UNCHANGED <<pushing, subscribed, now, connectedAt, alerted, announced, unsure>>

\* handleAgentWatchdogFired: the relay has alerted for session s.
HandleAgentWatchdogFired(s) ==
    /\ closes < MaxCloses  \* bound
    /\ closes' = closes + 1
    /\ IF s # 0 /\ s = watchdog.sessionId
       THEN CancelDisconnectAlert(AlertTimersCleared)
       ELSE UNCHANGED disconnectVars
    /\ UNCHANGED <<pushing, onlineVars, watchdog, subscribed, now, lostAt, connectedAt,
                   alerted, announced, unsure>>

\* A browser subscribes, or the last one unsubscribes.
SubscriptionsChange ==
    /\ subscribed' = ~subscribed
    /\ UNCHANGED <<disconnectVars, pushing, onlineVars, watchdog, now, alertHistory>>

-----------------------------------------------------------------------------
(***************************************************************************)
(* The timers and the pushes.                                              *)
(***************************************************************************)

\* The second and third early return of deliverIvaoDisconnectAlert.
GivesUp == fsdConnected \/ now > alertDeadline

\* deliverIvaoDisconnectAlert up to its await.
DeliverAlert(t) ==
    /\ t \in alertTimers
    /\ t.due <= now
    /\ IF t.generation # alertGeneration
       THEN /\ alertTimers' = alertTimers \ {t}
            /\ UNCHANGED <<alertTimer, alertDeadline, alertGeneration, pushing>>
       ELSE IF GivesUp
       THEN CancelDisconnectAlert(alertTimers \ {t}) /\ UNCHANGED pushing
       ELSE /\ alertTimers' = alertTimers \ {t}
            /\ alertTimer' = NoTimer
            /\ pushing' = pushing \cup {[generation |-> t.generation,
                                         flight |-> watchdog.sessionId,
                                         targets |-> subscribed]}
            /\ UNCHANGED <<alertDeadline, alertGeneration>>
    /\ UNCHANGED <<onlineVars, watchdog, subscribed, now, alertHistory>>

\* The end of deliverIvaoDisconnectAlert.  It is also reached by a push that
\* threw after its alert was cancelled.
RetryAlert(f) ==
    LET timer == [generation |-> f.generation, due |-> now + RetryDelay]
    IN  IF now + RetryDelay > alertDeadline
        THEN CancelDisconnectAlert(AlertTimersCleared)
        ELSE /\ alertTimers' = alertTimers \cup {timer}
             /\ alertTimer' = timer
             /\ UNCHANGED <<alertDeadline, alertGeneration>>

\* Fault: one accepted push of several subscribers is not enough.
AcceptedRetries(f) ==
    /\ f.targets
    /\ pushing' = pushing \ {f}
    /\ alerted' = [alerted EXCEPT ![f.flight] = @ + 1]
    /\ IF f.generation = alertGeneration THEN RetryAlert(f) ELSE UNCHANGED disconnectVars
    /\ UNCHANGED <<onlineVars, watchdog, subscribed, now, closes, lostAt, connectedAt,
                   announced, unsure>>

\* The awaited push ends: at least one Push service accepted it.
PushAccepted(f) ==
    /\ f.targets
    /\ pushing' = pushing \ {f}
    /\ alerted' = [alerted EXCEPT ![f.flight] = @ + 1]
    /\ IF f.generation = alertGeneration
       THEN CancelDisconnectAlert(AlertTimersCleared)
       ELSE UNCHANGED disconnectVars
    /\ UNCHANGED <<onlineVars, watchdog, subscribed, now, closes, lostAt, connectedAt,
                   announced, unsure>>

\* Nobody accepted it; expired subscriptions were dropped from the store.
PushRefused(f) ==
    /\ pushing' = pushing \ {f}
    /\ IF f.targets THEN subscribed' \in {subscribed, FALSE} ELSE UNCHANGED subscribed
    /\ IF f.generation # alertGeneration THEN UNCHANGED disconnectVars
       ELSE IF ~f.targets \/ ~subscribed' \/ fsdConnected
       THEN CancelDisconnectAlert(AlertTimersCleared)
       ELSE RetryAlert(f)
    /\ UNCHANGED <<onlineVars, watchdog, now, alertHistory>>

\* persistStore throws while expired subscriptions are dropped; some other
\* subscription may have taken the alert.
PushThrows(f, accepted) ==
    /\ f.targets
    /\ pushing' = pushing \ {f}
    /\ subscribed' \in {subscribed, FALSE}
    /\ alerted' = IF accepted THEN [alerted EXCEPT ![f.flight] = @ + 1] ELSE alerted
    /\ unsure' = IF accepted THEN unsure \cup {f.flight} ELSE unsure
    /\ RetryAlert(f)
    /\ UNCHANGED <<onlineVars, watchdog, now, closes, lostAt, connectedAt, announced>>

\* The callback of the online timer.
AnnounceOnline(t) ==
    /\ t \in onlineTimers
    /\ t.due <= now
    /\ onlineTimers' = onlineTimers \ {t}
    /\ onlineTimer' = NoTimer
    /\ announced' = IF t.generation = connectionGeneration /\ fsdConnected
                    THEN [announced EXCEPT ![watchdog.sessionId] = @ + 1]
                    ELSE announced
    /\ UNCHANGED <<disconnectVars, pushing, connectionGeneration, quietUntil, watchdog,
                   subscribed, now, closes, lostAt, connectedAt, alerted, unsure>>

Tick ==
    /\ now < MaxTime  \* bound
    /\ now' = now + 1
    /\ UNCHANGED <<disconnectVars, pushing, onlineVars, watchdog, subscribed, alertHistory>>

TimerStep == (\E t \in alertTimers : DeliverAlert(t)) \/ (\E t \in onlineTimers : AnnounceOnline(t))
PushStep  == \E f \in pushing :
                PushAccepted(f) \/ PushRefused(f) \/ \E a \in BOOLEAN : PushThrows(f, a)

\* Everything that happens without the FSD proxy.
AlertsStep ==
    \/ TimerStep
    \/ PushStep
    \/ \E s \in 0..watchdog.sessionId : HandleAgentWatchdogFired(s)
    \/ SubscriptionsChange
    \/ Tick

-----------------------------------------------------------------------------
(***************************************************************************)
(* The FSD proxy, as these handlers may see it.                            *)
(***************************************************************************)
IvaoConnects ==
    HandleIvaoConnected /\ fsdConnected' = TRUE /\ confirmed' = TRUE

ConfirmedClose ==
    /\ confirmed
    /\ \E suppressed \in BOOLEAN : OnConfirmedClose(suppressed)
    /\ fsdConnected' = FALSE /\ confirmed' = FALSE

UnconfirmedClose ==
    OnUnconfirmedClose /\ fsdConnected' = FALSE /\ confirmed' = FALSE

\* The socket is destroyed before its close event is delivered.
SocketLost ==
    fsdConnected /\ fsdConnected' = FALSE /\ UNCHANGED <<confirmed, alertVars>>

AnyProxyNext ==
    \/ AlertsStep /\ UNCHANGED fsdState
    \/ IvaoConnects
    \/ ConfirmedClose
    \/ UnconfirmedClose
    \/ SocketLost

AnyProxySpec == AnyProxyInit /\ [][AnyProxyNext]_flightVars

-----------------------------------------------------------------------------
(***************************************************************************)
(* Properties.                                                             *)
(***************************************************************************)

\* A pending alert is carried by exactly one timer or one push of its own
\* generation, and nothing carries one that is not pending: no interleaving of
\* closes, reconnects, late answers and late failures loses or doubles it.
OneCarrier ==
    Cardinality({t \in alertTimers : t.generation = alertGeneration})
      + Cardinality({f \in pushing : f.generation = alertGeneration})
        = IF Pending THEN 1 ELSE 0

\* The relay's watchdog and the local alert never wait for the same flight:
\* a disconnect is announced by the path that can see it.
OneAlertPath == watchdog.armed => ~Pending

\* A lost flight is announced to the subscribers once, however its pushes and
\* retries interleave with reconnects, unless the store failed to be written
\* after a push had been accepted.
AlertedOnce == \A f \in 1..MaxFlights : alerted[f] > 1 => f \in unsure

\* A disconnect alert leaves only while IVAO is away, not before the grace
\* delay and not after the retry window of the close that scheduled it.
PushesInWindow ==
    [][\A f \in pushing' \ pushing :
         /\ ~fsdConnected
         /\ now - lostAt >= AlertDelay
         /\ now - lostAt <= RetryWindow]_flightVars

\* Each connection is announced once at most, while it is up, and only after
\* it lasted the whole quiet time; a connection that came and went is not.
OnlineEarned ==
    [][announced' # announced =>
         /\ fsdConnected
         /\ now - connectedAt >= QuietTime
         /\ announced[watchdog.sessionId] = 0]_flightVars

\* A pending alert ends because it was accepted, because IVAO came back, the
\* relay announced the flight, nobody is left to tell, or no retry fits in the
\* window any more: a failed attempt to reconnect does not end it.
AlertNotForgotten ==
    [][Pending /\ ~Pending' =>
         \/ alerted' # alerted
         \/ fsdConnected'
         \/ HandleAgentWatchdogFired(watchdog.sessionId)
         \/ ~subscribed' \/ \E f \in pushing \ pushing' : ~f.targets
         \/ now + RetryDelay > alertDeadline]_flightVars
=============================================================================
