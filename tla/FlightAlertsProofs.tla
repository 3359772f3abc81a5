------------------------- MODULE FlightAlertsProofs -------------------------
(***************************************************************************)
(* The safety of the flight alerts for every choice of the delays, with    *)
(* any FSD proxy and any behaviour of the relay and the Push services.     *)
(***************************************************************************)
EXTENDS FlightAlerts, FiniteSetTheorems, TLAPS

(***************************************************************************)
(* The inductive invariant.  What runs for the current generation carries  *)
(* the pending alert; what runs for an older one can change nothing.       *)
(***************************************************************************)
Current(c) == c.generation = alertGeneration

NoCurrent(S)  == \A c \in S : ~Current(c)
OneCurrent(S) == \E c \in S : Current(c) /\ \A e \in S : Current(e) => e = c

CarrierInv ==
    /\ \A c \in alertTimers \cup pushing : c.generation <= alertGeneration
    /\ \/ ~Pending /\ NoCurrent(alertTimers) /\ NoCurrent(pushing)
       \/ Pending /\ OneCurrent(alertTimers) /\ NoCurrent(pushing)
       \/ Pending /\ NoCurrent(alertTimers) /\ OneCurrent(pushing)

\* Nothing is pending while a confirmed session lasts, or is watched by the relay.
PathInv ==
    /\ OneAlertPath
    /\ confirmed => ~Pending

\* The window opens with the loss, and a carrier is late enough.
WindowInv ==
    Pending => /\ alertDeadline = lostAt + RetryWindow
               /\ \A t \in alertTimers : Current(t) => t.due >= lostAt + AlertDelay
               /\ \A f \in pushing : Current(f) => now >= lostAt + AlertDelay

\* A flight may still be announced.
Unannounced(f) == f \in 1..MaxFlights /\ (alerted[f] = 0 \/ f \in unsure)

\* Whoever may still announce a flight is the only one, and the flight was not
\* announced before.
OnceInv ==
    /\ watchdog.sessionId <= MaxFlights
    /\ AlertedOnce
    /\ Pending \/ confirmed => Unannounced(watchdog.sessionId)
    /\ \A f \in 1..MaxFlights : f > watchdog.sessionId => alerted[f] = 0
    /\ confirmed => \A p \in pushing : p.flight # watchdog.sessionId
    /\ Pending => \A p \in pushing : p.flight = watchdog.sessionId => Current(p)
    /\ \A p \in pushing : Unannounced(p.flight) /\ p.flight <= watchdog.sessionId
    /\ \A p, q \in pushing : p.flight = q.flight => p = q

IInv == AlertTypeOK /\ CarrierInv /\ PathInv /\ WindowInv /\ OnceInv

-----------------------------------------------------------------------------
(***************************************************************************)
(* What the shared functions do to the invariant.                          *)
(***************************************************************************)

\* The null handle is a timer, of no generation.
LEMMA NoTimerType == NoTimer \in Timer
  BY DEF NoTimer, Timer

\* A new generation leaves nothing current.
LEMMA CancelFacts ==
    ASSUME AlertTypeOK, CarrierInv, NEW T, T \subseteq alertTimers, CancelDisconnectAlert(T),
           pushing' \subseteq pushing
    PROVE  /\ alertTimer' \in Timer /\ alertDeadline' \in Nat /\ alertGeneration' \in Nat
           /\ alertTimers' \subseteq Timer
           /\ ~Pending' /\ CarrierInv'
<1> USE DEF CancelDisconnectAlert
<1>1. ~Pending' /\ alertGeneration' = alertGeneration + 1 /\ alertTimers' \subseteq alertTimers
  BY DEF Pending
<1>2. \A c \in alertTimers' \cup pushing' : c.generation <= alertGeneration /\ c.generation \in Nat
  BY <1>1 DEF CarrierInv, AlertTypeOK, Timer, Push
<1>3. CarrierInv'
  BY <1>1, <1>2 DEF CarrierInv, NoCurrent, Current, AlertTypeOK
<1>. QED
  BY <1>1, <1>3, NoTimerType DEF AlertTypeOK

\* A retry of the current push takes over from it; a retry of an older one
\* starts a timer that nobody listens to, or cancels.
LEMMA RetryFacts ==
    ASSUME AlertTypeOK, CarrierInv, NEW f \in pushing, RetryAlert(f), pushing' = pushing \ {f}
    PROVE  /\ alertTimer' \in Timer /\ alertDeadline' \in Nat /\ alertGeneration' \in Nat
           /\ alertTimers' \subseteq Timer
           /\ CarrierInv'
           /\ Pending' => /\ Pending
                          /\ UNCHANGED <<alertDeadline, alertGeneration>>
                          /\ \A t \in alertTimers' \ alertTimers :
                               t.generation = f.generation /\ t.due = now + RetryDelay
<1> DEFINE timer == [generation |-> f.generation, due |-> now + RetryDelay]
<1>1. CASE now + RetryDelay > alertDeadline
  <2>1. CancelDisconnectAlert(AlertTimersCleared)
    BY <1>1 DEF RetryAlert
  <2>. QED
    BY <2>1, CancelFacts DEF AlertTimersCleared
<1>2. CASE ~(now + RetryDelay > alertDeadline)
  <2>1. /\ alertTimers' = alertTimers \cup {timer}
        /\ alertTimer' = timer
        /\ UNCHANGED <<alertDeadline, alertGeneration>>
    BY <1>2 DEF RetryAlert
  <2>2. timer \in Timer /\ f.generation \in Nat
    BY AlertDelaysAssumption DEF Timer, AlertTypeOK, Push
  <2>3. timer.generation = f.generation /\ timer.due = now + RetryDelay
    OBVIOUS
  <2> HIDE DEF timer
  <2>4. CarrierInv'
    <3>1. CASE Current(f)
      BY <2>1, <2>3, <3>1 DEF CarrierInv, NoCurrent, OneCurrent, Current, Pending
    <3>2. CASE ~Current(f)
      <4>1. ~Current(timer)
        BY <2>3, <3>2 DEF Current
      <4>. QED
        BY <2>1, <2>3, <3>2, <4>1 DEF CarrierInv, NoCurrent, OneCurrent, Current, Pending
    <3>. QED
      BY <3>1, <3>2
  <2>. QED
    BY <2>1, <2>2, <2>3, <2>4 DEF AlertTypeOK, Pending
<1>. QED
  BY <1>1, <1>2

\* A step that leaves the alert, the pushes and the history alone, and touches
\* the rest only so that nothing new is confirmed or armed.
LEMMA QuietStep ==
    ASSUME IInv, UNCHANGED <<disconnectVars, pushing, alerted, unsure, lostAt>>,
           now' \in Nat, now' >= now, watchdog' = watchdog, confirmed' => confirmed
    PROVE  CarrierInv' /\ PathInv' /\ WindowInv' /\ OnceInv'
<1> USE DEF IInv, disconnectVars
<1>1. CarrierInv' /\ PathInv'
  BY DEF CarrierInv, PathInv, OneAlertPath, NoCurrent, OneCurrent, Current, Pending
<1>2. WindowInv'
  BY AlertDelaysAssumption DEF WindowInv, Current, Pending, AlertTypeOK
<1>3. OnceInv'
  BY DEF OnceInv, AlertedOnce, Unannounced, Current, Pending
<1>. QED
  BY <1>1, <1>2, <1>3

\* A step that ends the pending alert, if there is one, and starts nothing.
LEMMA CancelStep ==
    ASSUME IInv, NEW T, T \subseteq alertTimers, CancelDisconnectAlert(T),
           pushing' = pushing, UNCHANGED <<watchdog, alerted, unsure>>, confirmed' => confirmed
    PROVE  CarrierInv' /\ PathInv' /\ WindowInv' /\ OnceInv'
<1> USE DEF IInv
<1>1. ~Pending' /\ CarrierInv'
  BY CancelFacts
<1>2. PathInv' /\ WindowInv'
  BY <1>1 DEF PathInv, OneAlertPath, WindowInv
<1>3. OnceInv'
  BY <1>1 DEF OnceInv, AlertedOnce, Unannounced
<1>. QED
  BY <1>1, <1>2, <1>3

-----------------------------------------------------------------------------
(***************************************************************************)
(* Each action preserves the invariant.                                    *)
(***************************************************************************)

\* Initially no flight is known.
LEMMA InitIInv == AnyProxyInit => IInv
<1> SUFFICES ASSUME AnyProxyInit
             PROVE  IInv
  OBVIOUS
<1> USE DEF AnyProxyInit, AlertsInit
<1>1. AlertTypeOK
  BY NoTimerType DEF AlertTypeOK
<1>2. CarrierInv /\ PathInv /\ WindowInv /\ OnceInv
  BY AlertDelaysAssumption
     DEF CarrierInv, PathInv, WindowInv, OnceInv, OneAlertPath, AlertedOnce, Unannounced,
         NoCurrent, OneCurrent, Current, Pending
<1>. QED
  BY <1>1, <1>2 DEF IInv

\* handleIvaoConnected ends the alert and begins a flight nobody announced.
LEMMA IvaoConnectsIInv == IInv /\ IvaoConnects => IInv'
<1> SUFFICES ASSUME IInv, IvaoConnects
             PROVE  IInv'
  OBVIOUS
<1> USE DEF IInv, IvaoConnects, HandleIvaoConnected
<1>1. AlertTimersCleared \subseteq alertTimers
  BY DEF AlertTimersCleared
<1>2. /\ alertTimer' \in Timer /\ alertDeadline' \in Nat /\ alertGeneration' \in Nat
      /\ alertTimers' \subseteq Timer /\ ~Pending' /\ CarrierInv'
  BY <1>1, CancelFacts
<1>3. AlertTypeOK'
  <2> DEFINE timer == [generation |-> connectionGeneration + 1, due |-> now + QuietTime]
  <2>1. timer \in Timer
    BY AlertDelaysAssumption DEF AlertTypeOK, Timer
  <2>2. onlineTimer' \in Timer /\ onlineTimers' \subseteq Timer /\ connectionGeneration' \in Nat
    BY <2>1 DEF AlertTypeOK, OnlineTimersCleared
  <2>3. watchdog' \in [armed : BOOLEAN, sessionId : Nat] /\ quietUntil' \in Nat
    BY AlertDelaysAssumption DEF AlertTypeOK
  <2>. QED
    BY <1>2, <2>2, <2>3 DEF AlertTypeOK
<1>4. PathInv' /\ WindowInv'
  BY <1>2 DEF PathInv, OneAlertPath, WindowInv
<1>5. OnceInv'
  <2>1. watchdog'.sessionId = watchdog.sessionId + 1 /\ watchdog'.sessionId \in 1..MaxFlights
    BY AlertDelaysAssumption DEF AlertTypeOK
  <2>. QED
    BY <1>2, <2>1 DEF OnceInv, AlertedOnce, Unannounced, AlertTypeOK, Push
<1>. QED
  BY <1>2, <1>3, <1>4, <1>5

\* onClose with wasConnected disarms first, then opens the window.
LEMMA ConfirmedCloseIInv == IInv /\ ConfirmedClose => IInv'
<1> SUFFICES ASSUME IInv, ConfirmedClose
             PROVE  IInv'
  OBVIOUS
<1>1. PICK suppressed \in BOOLEAN : OnConfirmedClose(suppressed)
  BY DEF ConfirmedClose
<1> USE DEF IInv
<1>2. /\ CancelOnlineAlert /\ ScheduleDisconnectAlert(suppressed)
      /\ closes' = closes + 1 /\ watchdog' = Disarmed /\ lostAt' = now
      /\ UNCHANGED <<pushing, subscribed, now, connectedAt, alerted, announced, unsure>>
      /\ confirmed /\ fsdConnected' = FALSE /\ confirmed' = FALSE
  BY <1>1 DEF OnConfirmedClose, ConfirmedClose
<1>3. /\ watchdog' \in [armed : BOOLEAN, sessionId : Nat]
      /\ ~watchdog'.armed /\ watchdog'.sessionId = watchdog.sessionId
  BY <1>2 DEF Disarmed, AlertTypeOK
<1>4. /\ onlineTimer' \in Timer /\ onlineTimers' \subseteq Timer
      /\ connectionGeneration' \in Nat /\ quietUntil' \in Nat
  BY <1>2, NoTimerType DEF CancelOnlineAlert, OnlineTimersCleared, AlertTypeOK
<1>5. ASSUME alertTimer' \in Timer, alertDeadline' \in Nat, alertGeneration' \in Nat,
             alertTimers' \subseteq Timer
      PROVE  AlertTypeOK'
  <2>1. closes' \in Nat /\ lostAt' \in Nat /\ now' \in Nat /\ connectedAt' \in Nat
    BY <1>2 DEF AlertTypeOK
  <2>2. subscribed' \in BOOLEAN /\ fsdConnected' \in BOOLEAN /\ confirmed' \in BOOLEAN
    BY <1>2 DEF AlertTypeOK
  <2>3. /\ pushing' \subseteq Push /\ unsure' \subseteq Nat
        /\ alerted' \in [1..MaxFlights -> Nat] /\ announced' \in [1..MaxFlights -> Nat]
    BY <1>2 DEF AlertTypeOK
  <2>. QED
    BY <1>5, <1>3, <1>4, <2>1, <2>2, <2>3 DEF AlertTypeOK
<1>6. CASE ~(subscribed /\ ~suppressed)
  <2>1. CancelDisconnectAlert(AlertTimersCleared) /\ AlertTimersCleared \subseteq alertTimers
    BY <1>2, <1>6 DEF ScheduleDisconnectAlert, AlertTimersCleared
  <2>2. /\ alertTimer' \in Timer /\ alertDeadline' \in Nat /\ alertGeneration' \in Nat
        /\ alertTimers' \subseteq Timer /\ ~Pending' /\ CarrierInv'
    BY <1>2, <2>1, CancelFacts
  <2>3. PathInv' /\ WindowInv' /\ OnceInv'
    BY <1>2, <1>3, <2>2 DEF PathInv, OneAlertPath, WindowInv, OnceInv, AlertedOnce, Unannounced
  <2>. QED
    BY <1>5, <2>2, <2>3
<1>7. CASE subscribed /\ ~suppressed
  <2> DEFINE timer == [generation |-> alertGeneration + 1, due |-> now + AlertDelay]
  <2>1. /\ alertGeneration' = alertGeneration + 1
        /\ alertTimers' = AlertTimersCleared \cup {timer}
        /\ alertTimer' = timer
        /\ alertDeadline' = now + RetryWindow
    BY <1>2, <1>7 DEF ScheduleDisconnectAlert
  <2>2. timer \in Timer /\ timer.generation = alertGeneration + 1 /\ timer.due = now + AlertDelay
    BY AlertDelaysAssumption DEF Timer, AlertTypeOK
  <2> HIDE DEF timer
  <2>3. /\ alertTimers' \subseteq alertTimers \cup {timer} /\ timer \in alertTimers'
        /\ alertDeadline' \in Nat /\ Pending'
    BY <2>1, AlertDelaysAssumption DEF AlertTimersCleared, AlertTypeOK, Pending
  <2>4. \A c \in alertTimers \cup pushing : c.generation <= alertGeneration /\ c.generation \in Nat
    BY DEF CarrierInv, AlertTypeOK, Timer, Push
  <2>5. \A c \in alertTimers' \cup pushing' : Current(c)' => c = timer /\ c \notin pushing'
    BY <1>2, <2>1, <2>3, <2>4 DEF Current, AlertTypeOK
  <2>6. CarrierInv'
    <3>1. \A c \in alertTimers' \cup pushing' : c.generation <= alertGeneration'
      BY <1>2, <2>1, <2>2, <2>3, <2>4 DEF AlertTypeOK
    <3>2. NoCurrent(pushing)'
      BY <2>5 DEF NoCurrent
    <3>3. OneCurrent(alertTimers)'
      BY <2>1, <2>2, <2>3, <2>5 DEF OneCurrent, Current
    <3>. QED
      BY <2>3, <3>1, <3>2, <3>3 DEF CarrierInv
  <2>7. PathInv'
    BY <1>2, <1>3 DEF PathInv, OneAlertPath
  <2>8. WindowInv'
    <3>1. \A t \in alertTimers' : Current(t)' => t.due >= lostAt' + AlertDelay
      BY <1>2, <2>2, <2>5, AlertDelaysAssumption DEF AlertTypeOK
    <3>2. \A f \in pushing' : ~Current(f)'
      BY <2>5
    <3>. QED
      BY <1>2, <2>1, <3>1, <3>2 DEF WindowInv
  <2>9. OnceInv'
    BY <1>2, <1>3 DEF OnceInv, AlertedOnce, Unannounced
  <2>. QED
    <3>1. alertTimer' \in Timer /\ alertGeneration' \in Nat /\ alertTimers' \subseteq Timer
      BY <2>1, <2>2, <2>3 DEF AlertTypeOK
    <3>. QED
      BY <1>5, <2>3, <2>6, <2>7, <2>8, <2>9, <3>1
<1>. QED
  BY <1>6, <1>7

\* The steps that leave the disconnect alert alone.
LEMMA QuietIInv ==
    ASSUME IInv,
           \/ UnconfirmedClose
           \/ SocketLost
           \/ SubscriptionsChange /\ UNCHANGED fsdState
           \/ Tick /\ UNCHANGED fsdState
           \/ (\E t \in onlineTimers : AnnounceOnline(t)) /\ UNCHANGED fsdState
           \/ UNCHANGED flightVars
    PROVE  IInv'
<1> USE DEF IInv, fsdState
<1>1. CASE UnconfirmedClose
  <2>1. /\ closes' = closes + 1 /\ CancelOnlineAlert
        /\ UNCHANGED <<disconnectVars, pushing, watchdog, subscribed, now, lostAt, connectedAt,
                       alerted, announced, unsure>>
        /\ fsdConnected' = FALSE /\ confirmed' = FALSE
    BY <1>1 DEF UnconfirmedClose, OnUnconfirmedClose
  <2>2. /\ onlineTimer' \in Timer /\ onlineTimers' \subseteq Timer
        /\ connectionGeneration' \in Nat /\ quietUntil' \in Nat
    BY <2>1, NoTimerType DEF CancelOnlineAlert, OnlineTimersCleared, AlertTypeOK
  <2>3. fsdConnected' \in BOOLEAN /\ confirmed' \in BOOLEAN
    BY <2>1
  <2>4. AlertTypeOK'
    BY <2>1, <2>2, <2>3 DEF disconnectVars, AlertTypeOK
  <2>. QED
    BY <2>1, <2>4, QuietStep DEF AlertTypeOK
<1>2. CASE SocketLost
  <2>1. AlertTypeOK'
    BY <1>2 DEF SocketLost, alertVars, disconnectVars, onlineVars, alertHistory, AlertTypeOK
  <2>. QED
    BY <1>2, <2>1, QuietStep DEF SocketLost, alertVars, alertHistory, AlertTypeOK
<1>3. CASE SubscriptionsChange /\ UNCHANGED fsdState
  <2>1. AlertTypeOK'
    BY <1>3 DEF SubscriptionsChange, disconnectVars, onlineVars, alertHistory, AlertTypeOK
  <2>. QED
    BY <1>3, <2>1, QuietStep DEF SubscriptionsChange, alertHistory, AlertTypeOK
<1>4. CASE Tick /\ UNCHANGED fsdState
  <2>1. AlertTypeOK'
    BY <1>4 DEF Tick, disconnectVars, onlineVars, alertHistory, AlertTypeOK
  <2>. QED
    BY <1>4, <2>1, QuietStep DEF Tick, alertHistory, AlertTypeOK
<1>5. CASE (\E t \in onlineTimers : AnnounceOnline(t)) /\ UNCHANGED fsdState
  <2>1. PICK t \in onlineTimers : AnnounceOnline(t)
    BY <1>5
  <2>2. announced' \in [1..MaxFlights -> Nat]
    <3>1. [announced EXCEPT ![watchdog.sessionId] = @ + 1] \in [1..MaxFlights -> Nat]
      <4>1. CASE watchdog.sessionId \in 1..MaxFlights
        BY <4>1 DEF AlertTypeOK
      <4>2. CASE watchdog.sessionId \notin 1..MaxFlights
        BY <4>2 DEF AlertTypeOK
      <4>. QED
        BY <4>1, <4>2
    <3>2. announced' = announced \/ announced' = [announced EXCEPT ![watchdog.sessionId] = @ + 1]
      BY <2>1 DEF AnnounceOnline
    <3>. QED
      BY <3>1, <3>2 DEF AlertTypeOK
  <2>3. AlertTypeOK'
    BY <1>5, <2>1, <2>2, NoTimerType DEF AnnounceOnline, disconnectVars, AlertTypeOK
  <2>. QED
    BY <1>5, <2>1, <2>3, QuietStep DEF AnnounceOnline, AlertTypeOK
<1>6. CASE UNCHANGED flightVars
  <2>1. AlertTypeOK'
    BY <1>6 DEF flightVars, alertVars, disconnectVars, onlineVars, alertHistory, AlertTypeOK
  <2>. QED
    BY <1>6, <2>1, QuietStep DEF flightVars, alertVars, alertHistory, AlertTypeOK
<1>. QED
  BY <1>1, <1>2, <1>3, <1>4, <1>5, <1>6

\* handleAgentWatchdogFired
LEMMA FiredIInv ==
    ASSUME IInv, NEW s \in 0..watchdog.sessionId, HandleAgentWatchdogFired(s), UNCHANGED fsdState
    PROVE  IInv'
<1> USE DEF IInv, HandleAgentWatchdogFired, fsdState
<1>1. CASE s # 0 /\ s = watchdog.sessionId
  <2>1. CancelDisconnectAlert(AlertTimersCleared) /\ AlertTimersCleared \subseteq alertTimers
    BY <1>1 DEF AlertTimersCleared
  <2>2. AlertTypeOK'
    <3>1. /\ alertTimer' \in Timer /\ alertDeadline' \in Nat /\ alertGeneration' \in Nat
          /\ alertTimers' \subseteq Timer
      BY <2>1, CancelFacts
    <3>. QED
      BY <3>1 DEF onlineVars, AlertTypeOK
  <2>. QED
    BY <2>1, <2>2, CancelStep
<1>2. CASE ~(s # 0 /\ s = watchdog.sessionId)
  <2>1. UNCHANGED disconnectVars
    BY <1>2
  <2>2. AlertTypeOK'
    BY <2>1 DEF disconnectVars, onlineVars, AlertTypeOK
  <2>. QED
    BY <2>1, <2>2, QuietStep DEF AlertTypeOK
<1>. QED
  BY <1>1, <1>2

\* deliverIvaoDisconnectAlert: the current timer hands the alert to a push.
LEMMA DeliverIInv ==
    ASSUME IInv, NEW t \in alertTimers, DeliverAlert(t), UNCHANGED fsdState
    PROVE  IInv'
<1> USE DEF IInv, fsdState
<1>1. UNCHANGED <<onlineVars, watchdog, subscribed, now, alertHistory, fsdConnected, confirmed>>
  BY DEF DeliverAlert
<1>2. ASSUME alertTimer' \in Timer, alertDeadline' \in Nat, alertGeneration' \in Nat,
             alertTimers' \subseteq Timer, pushing' \subseteq Push
      PROVE  AlertTypeOK'
  BY <1>1, <1>2 DEF onlineVars, alertHistory, AlertTypeOK
<1>3. CASE ~Current(t)
  <2>1. alertTimers' = alertTimers \ {t}
        /\ UNCHANGED <<alertTimer, alertDeadline, alertGeneration, pushing>>
    BY <1>3 DEF DeliverAlert, Current
  <2>2. AlertTypeOK'
    BY <1>2, <2>1 DEF AlertTypeOK
  <2>3. CarrierInv'
    BY <1>3, <2>1 DEF CarrierInv, NoCurrent, OneCurrent, Current, Pending
  <2>4. PathInv' /\ WindowInv' /\ OnceInv'
    BY <1>1, <2>1 DEF PathInv, OneAlertPath, WindowInv, OnceInv, AlertedOnce, Unannounced,
                      Current, Pending, alertHistory
  <2>. QED
    BY <2>2, <2>3, <2>4
<1>4. CASE Current(t) /\ GivesUp
  <2>1. CancelDisconnectAlert(alertTimers \ {t}) /\ pushing' = pushing
    BY <1>4 DEF DeliverAlert, Current
  <2>2. AlertTypeOK'
    BY <1>2, <2>1, CancelFacts DEF AlertTypeOK
  <2>. QED
    BY <1>1, <2>1, <2>2, CancelStep DEF alertHistory
<1>5. CASE Current(t) /\ ~GivesUp
  <2> DEFINE push == [generation |-> t.generation, flight |-> watchdog.sessionId,
                      targets |-> subscribed]
  <2>1. /\ alertTimers' = alertTimers \ {t} /\ alertTimer' = NoTimer
        /\ pushing' = pushing \cup {push} /\ t.due <= now
        /\ UNCHANGED <<alertDeadline, alertGeneration>>
    BY <1>5 DEF DeliverAlert, Current
  <2>2. /\ push \in Push /\ push.generation = alertGeneration
        /\ push.flight = watchdog.sessionId
    BY <1>5 DEF AlertTypeOK, Timer, Push, Current
  <2> HIDE DEF push
  <2>3. Pending /\ NoCurrent(pushing) /\ \A u \in alertTimers : Current(u) => u = t
    BY <1>5 DEF CarrierInv, NoCurrent, OneCurrent
  <2>4. AlertTypeOK'
    BY <1>2, <2>1, <2>2, NoTimerType DEF AlertTypeOK
  <2>5. CarrierInv'
    <3>1. \A c \in alertTimers' \cup pushing' : c.generation <= alertGeneration'
      BY <2>1, <2>2 DEF CarrierInv, AlertTypeOK
    <3>2. NoCurrent(alertTimers)' /\ OneCurrent(pushing)' /\ Pending'
      BY <2>1, <2>2, <2>3 DEF NoCurrent, OneCurrent, Current, Pending
    <3>. QED
      BY <3>1, <3>2 DEF CarrierInv
  <2>6. PathInv'
    BY <1>1, <2>1 DEF PathInv, OneAlertPath, Pending
  <2>7. WindowInv'
    <3>1. now >= lostAt + AlertDelay
      BY <1>5, <2>1, <2>3, AlertDelaysAssumption DEF WindowInv, AlertTypeOK, Timer
    <3>. QED
      BY <1>1, <2>1, <3>1 DEF WindowInv, Current, Pending, alertHistory
  <2>8. OnceInv'
    <3>1. Unannounced(watchdog.sessionId) /\ ~confirmed
      BY <2>3 DEF OnceInv, PathInv
    <3>2. \A p \in pushing : p.flight # watchdog.sessionId
      BY <2>3 DEF OnceInv, NoCurrent
    <3>3. \A f : Unannounced(f)' <=> Unannounced(f)
      BY <1>1 DEF Unannounced, alertHistory
    <3>4. watchdog.sessionId \in Nat
      BY DEF AlertTypeOK
    <3>. QED
      BY <1>1, <2>1, <2>2, <2>3, <3>1, <3>2, <3>3, <3>4
         DEF OnceInv, AlertedOnce, Current, Pending, alertHistory
  <2>. QED
    BY <2>4, <2>5, <2>6, <2>7, <2>8
<1>. QED
  BY <1>3, <1>4, <1>5

\* One more accepted alert is a natural number more.
LEMMA CountType ==
    ASSUME AlertTypeOK, NEW f \in 1..MaxFlights
    PROVE  /\ [alerted EXCEPT ![f] = @ + 1] \in [1..MaxFlights -> Nat]
           /\ [alerted EXCEPT ![f] = @ + 1][f] = alerted[f] + 1
           /\ \A g \in 1..MaxFlights : g # f => [alerted EXCEPT ![f] = @ + 1][g] = alerted[g]
  BY DEF AlertTypeOK

\* An accepted push is the end of its alert, or of one that had ended before.
LEMMA AcceptedIInv ==
    ASSUME IInv, NEW f \in pushing, PushAccepted(f), UNCHANGED fsdState
    PROVE  IInv'
<1> USE DEF IInv
<1>1. /\ pushing' = pushing \ {f} /\ alerted' = [alerted EXCEPT ![f.flight] = @ + 1]
      /\ UNCHANGED <<onlineVars, watchdog, subscribed, now, closes, lostAt, connectedAt,
                     announced, unsure, fsdConnected, confirmed>>
  BY DEF PushAccepted, fsdState
<1>2. f.flight \in 1..MaxFlights /\ f.flight <= watchdog.sessionId /\ Unannounced(f.flight)
  BY DEF OnceInv, Unannounced
<1>3. /\ alerted' \in [1..MaxFlights -> Nat] /\ alerted'[f.flight] = alerted[f.flight] + 1
      /\ \A g \in 1..MaxFlights : g # f.flight => alerted'[g] = alerted[g]
  BY <1>1, <1>2, CountType
<1>4. ASSUME alertTimer' \in Timer, alertDeadline' \in Nat, alertGeneration' \in Nat,
             alertTimers' \subseteq Timer
      PROVE  AlertTypeOK'
  BY <1>1, <1>3, <1>4 DEF onlineVars, AlertTypeOK
<1>5. AlertedOnce' /\ \A g \in 1..MaxFlights : g > watchdog.sessionId => alerted'[g] = 0
  BY <1>1, <1>2, <1>3 DEF OnceInv, AlertedOnce, Unannounced, AlertTypeOK
<1>6. \A g \in 1..MaxFlights : g # f.flight => (Unannounced(g) => Unannounced(g)')
  BY <1>1, <1>3 DEF Unannounced
<1>7. \A p \in pushing' : p \in pushing /\ p.flight # f.flight
  BY <1>1 DEF OnceInv
<1>8. CASE Current(f)
  <2>1. CancelDisconnectAlert(AlertTimersCleared) /\ AlertTimersCleared \subseteq alertTimers
    BY <1>8 DEF PushAccepted, Current, AlertTimersCleared
  <2>2. /\ alertTimer' \in Timer /\ alertDeadline' \in Nat /\ alertGeneration' \in Nat
        /\ alertTimers' \subseteq Timer /\ ~Pending' /\ CarrierInv'
    BY <1>1, <2>1, CancelFacts
  <2>3. ~confirmed
    BY <1>8 DEF CarrierInv, NoCurrent, PathInv
  <2>4. PathInv' /\ WindowInv'
    BY <1>1, <2>2, <2>3 DEF PathInv, OneAlertPath, WindowInv
  <2>5. OnceInv'
    BY <1>1, <1>5, <1>6, <1>7, <2>2, <2>3 DEF OnceInv, Unannounced
  <2>. QED
    BY <1>4, <2>2, <2>4, <2>5
<1>9. CASE ~Current(f)
  <2>1. UNCHANGED <<alertTimer, alertDeadline, alertGeneration, alertTimers>>
    BY <1>9 DEF PushAccepted, Current, disconnectVars
  <2>2. AlertTypeOK'
    BY <1>4, <2>1 DEF AlertTypeOK
  <2>3. CarrierInv'
    BY <1>1, <1>9, <2>1 DEF CarrierInv, NoCurrent, OneCurrent, Current, Pending
  <2>4. PathInv' /\ WindowInv'
    BY <1>1, <2>1 DEF PathInv, OneAlertPath, WindowInv, Current, Pending
  <2>5. Pending \/ confirmed => f.flight # watchdog.sessionId
    BY <1>9 DEF OnceInv
  <2>6. OnceInv'
    BY <1>1, <1>5, <1>6, <1>7, <2>1, <2>5 DEF OnceInv, Unannounced, Current, Pending
  <2>. QED
    BY <2>2, <2>3, <2>4, <2>6
<1>. QED
  BY <1>8, <1>9

\* The end of a push that is tried again, or not any more.
LEMMA RetryIInv ==
    ASSUME IInv, NEW f \in pushing, RetryAlert(f), pushing' = pushing \ {f},
           subscribed' \in BOOLEAN,
           \/ alerted' = alerted /\ unsure' = unsure
           \/ alerted' = [alerted EXCEPT ![f.flight] = @ + 1] /\ unsure' = unsure \cup {f.flight},
           UNCHANGED <<onlineVars, watchdog, now, closes, lostAt, connectedAt, announced,
                       fsdConnected, confirmed>>
    PROVE  IInv'
<1> USE DEF IInv
<1>1. f.flight \in 1..MaxFlights /\ f.flight <= watchdog.sessionId
  BY DEF OnceInv, Unannounced
<1>2. /\ alertTimer' \in Timer /\ alertDeadline' \in Nat /\ alertGeneration' \in Nat
      /\ alertTimers' \subseteq Timer
      /\ CarrierInv'
      /\ Pending' => /\ Pending
                     /\ UNCHANGED <<alertDeadline, alertGeneration>>
                     /\ \A t \in alertTimers' \ alertTimers :
                          t.generation = f.generation /\ t.due = now + RetryDelay
  BY RetryFacts
<1>3. /\ alerted' \in [1..MaxFlights -> Nat] /\ unsure' \subseteq Nat /\ unsure \subseteq unsure'
      /\ \A g \in 1..MaxFlights : alerted'[g] = alerted[g] \/ (g = f.flight /\ g \in unsure')
  <2>1. /\ alerted \in [1..MaxFlights -> Nat] /\ unsure \subseteq Nat /\ f.flight \in Nat
    BY <1>1, AlertDelaysAssumption DEF AlertTypeOK
  <2>2. CASE alerted' = alerted /\ unsure' = unsure
    BY <2>1, <2>2
  <2>3. CASE alerted' = [alerted EXCEPT ![f.flight] = @ + 1] /\ unsure' = unsure \cup {f.flight}
    <3>1. alerted' \in [1..MaxFlights -> Nat]
      BY <1>1, <2>3, CountType
    <3>2. \A g \in 1..MaxFlights : g # f.flight => alerted'[g] = alerted[g]
      BY <1>1, <2>3, CountType
    <3>3. unsure' \subseteq Nat /\ unsure \subseteq unsure' /\ f.flight \in unsure'
      BY <2>1, <2>3
    <3>. QED
      BY <3>1, <3>2, <3>3
  <2>. QED
    BY <2>2, <2>3
<1>4. AlertTypeOK'
  BY <1>2, <1>3 DEF onlineVars, AlertTypeOK
<1>5. PathInv'
  BY <1>2 DEF PathInv, OneAlertPath
<1>6. WindowInv'
  <2> SUFFICES ASSUME Pending'
               PROVE  /\ alertDeadline' = lostAt' + RetryWindow
                      /\ \A t \in alertTimers' : Current(t)' => t.due >= lostAt' + AlertDelay
                      /\ \A p \in pushing' : Current(p)' => now' >= lostAt' + AlertDelay
    BY DEF WindowInv
  <2>1. Pending /\ UNCHANGED <<alertDeadline, alertGeneration, lostAt, now>>
    BY <1>2
  <2>2. ASSUME NEW t \in alertTimers', Current(t)'
        PROVE  t.due >= lostAt' + AlertDelay
    <3>1. CASE t \in alertTimers
      BY <2>1, <2>2, <3>1 DEF WindowInv, Current
    <3>2. CASE t \notin alertTimers
      <4>1. t.due = now + RetryDelay /\ now >= lostAt + AlertDelay
        BY <1>2, <2>1, <2>2, <3>2 DEF WindowInv, Current
      <4>. QED
        BY <2>1, <4>1, AlertDelaysAssumption DEF AlertTypeOK
    <3>. QED
      BY <3>1, <3>2
  <2>. QED
    BY <2>1, <2>2 DEF WindowInv, Current
<1>7. OnceInv'
  <2>1. AlertedOnce' /\ \A g \in 1..MaxFlights : g > watchdog.sessionId => alerted'[g] = 0
    BY <1>1, <1>3 DEF OnceInv, AlertedOnce, AlertTypeOK
  <2>2. \A g : Unannounced(g) => Unannounced(g)'
    BY <1>3 DEF Unannounced
  <2>3. Pending' => Pending /\ alertGeneration' = alertGeneration
    BY <1>2
  <2>. QED
    BY <2>1, <2>2, <2>3 DEF OnceInv, Current
<1>. QED
  BY <1>2, <1>4, <1>5, <1>6, <1>7

\* A push that nobody accepted: cancelled, or tried again.
LEMMA RefusedIInv ==
    ASSUME IInv, NEW f \in pushing, PushRefused(f), UNCHANGED fsdState
    PROVE  IInv'
<1> USE DEF IInv
<1>1. /\ pushing' = pushing \ {f} /\ subscribed' \in BOOLEAN
      /\ UNCHANGED <<onlineVars, watchdog, now, closes, lostAt, connectedAt, alerted, announced,
                     unsure, fsdConnected, confirmed>>
  BY DEF PushRefused, fsdState, alertHistory, AlertTypeOK
<1>2. ASSUME alertTimer' \in Timer, alertDeadline' \in Nat, alertGeneration' \in Nat,
             alertTimers' \subseteq Timer
      PROVE  AlertTypeOK'
  BY <1>1, <1>2 DEF onlineVars, AlertTypeOK
<1>3. CASE ~Current(f)
  <2>1. UNCHANGED <<alertTimer, alertDeadline, alertGeneration, alertTimers>>
    BY <1>3 DEF PushRefused, Current, disconnectVars
  <2>2. AlertTypeOK'
    BY <1>2, <2>1 DEF AlertTypeOK
  <2>3. CarrierInv'
    BY <1>1, <1>3, <2>1 DEF CarrierInv, NoCurrent, OneCurrent, Current, Pending
  <2>4. PathInv' /\ WindowInv' /\ OnceInv'
    BY <1>1, <2>1 DEF PathInv, OneAlertPath, WindowInv, OnceInv, AlertedOnce, Unannounced,
                      Current, Pending
  <2>. QED
    BY <2>2, <2>3, <2>4
<1>4. CASE Current(f) /\ CancelDisconnectAlert(AlertTimersCleared)
  <2>1. /\ alertTimer' \in Timer /\ alertDeadline' \in Nat /\ alertGeneration' \in Nat
        /\ alertTimers' \subseteq Timer /\ ~Pending' /\ CarrierInv'
    BY <1>1, <1>4, CancelFacts DEF AlertTimersCleared
  <2>2. PathInv' /\ WindowInv' /\ OnceInv'
    BY <1>1, <2>1 DEF PathInv, OneAlertPath, WindowInv, OnceInv, AlertedOnce, Unannounced
  <2>. QED
    BY <1>2, <2>1, <2>2
<1>5. CASE Current(f) /\ RetryAlert(f)
  BY <1>1, <1>5, RetryIInv
<1>. QED
  BY <1>3, <1>4, <1>5 DEF PushRefused, Current

\* A push that threw is tried again whatever became of its alert.
LEMMA ThrowsIInv ==
    ASSUME IInv, NEW f \in pushing, NEW a \in BOOLEAN, PushThrows(f, a), UNCHANGED fsdState
    PROVE  IInv'
<1>1. /\ RetryAlert(f) /\ pushing' = pushing \ {f} /\ subscribed' \in BOOLEAN
      /\ UNCHANGED <<onlineVars, watchdog, now, closes, lostAt, connectedAt, announced,
                     fsdConnected, confirmed>>
  BY DEF PushThrows, fsdState, IInv, AlertTypeOK
<1>2. \/ alerted' = alerted /\ unsure' = unsure
      \/ alerted' = [alerted EXCEPT ![f.flight] = @ + 1] /\ unsure' = unsure \cup {f.flight}
  BY DEF PushThrows
<1>. QED
  BY <1>1, <1>2, RetryIInv

\* One step of the alerts or of the FSD proxy.
LEMMA NextIInv == IInv /\ [AnyProxyNext]_flightVars => IInv'
<1> SUFFICES ASSUME IInv, [AnyProxyNext]_flightVars
             PROVE  IInv'
  OBVIOUS
<1>1. CASE TimerStep /\ UNCHANGED fsdState
  BY <1>1, DeliverIInv, QuietIInv DEF TimerStep
<1>2. CASE PushStep /\ UNCHANGED fsdState
  BY <1>2, AcceptedIInv, RefusedIInv, ThrowsIInv DEF PushStep
<1>3. CASE (\E s \in 0..watchdog.sessionId : HandleAgentWatchdogFired(s)) /\ UNCHANGED fsdState
  BY <1>3, FiredIInv
<1>4. CASE IvaoConnects
  BY <1>4, IvaoConnectsIInv
<1>5. CASE ConfirmedClose
  BY <1>5, ConfirmedCloseIInv
<1>6. CASE \/ UnconfirmedClose
           \/ SocketLost
           \/ (SubscriptionsChange \/ Tick) /\ UNCHANGED fsdState
           \/ UNCHANGED flightVars
  BY <1>6, QuietIInv
<1>. QED
  BY <1>1, <1>2, <1>3, <1>4, <1>5, <1>6 DEF AnyProxyNext, AlertsStep

\* The invariant holds throughout.
LEMMA SpecIInv == AnyProxySpec => []IInv
  BY InitIInv, NextIInv, PTL DEF AnyProxySpec

-----------------------------------------------------------------------------
(***************************************************************************)
(* Theorems.                                                               *)
(***************************************************************************)

\* Every state of the alerts is well typed.
THEOREM TypeCorrect == AnyProxySpec => []AlertTypeOK
<1>1. IInv => AlertTypeOK
  BY DEF IInv
<1>. QED
  BY <1>1, SpecIInv, PTL

\* The relay's watchdog and the local alert never wait for the same flight.
THEOREM AlertPathsExclusive == AnyProxySpec => []OneAlertPath
<1>1. IInv => OneAlertPath
  BY DEF IInv, PathInv
<1>. QED
  BY <1>1, SpecIInv, PTL

\* A pending alert has exactly one timer or push that can end it; an alert that
\* is not pending has none.
THEOREM AlertHasOneCarrier == AnyProxySpec => []OneCarrier
<1> DEFINE T == {t \in alertTimers : t.generation = alertGeneration}
<1> DEFINE P == {f \in pushing : f.generation = alertGeneration}
<1>1. ASSUME IInv
      PROVE  OneCarrier
  <2>1. NoCurrent(alertTimers) => T = {}
    BY DEF NoCurrent, Current
  <2>2. NoCurrent(pushing) => P = {}
    BY DEF NoCurrent, Current
  <2>3. OneCurrent(alertTimers) => \E t : T = {t}
    BY DEF OneCurrent, Current
  <2>4. OneCurrent(pushing) => \E f : P = {f}
    BY DEF OneCurrent, Current
  <2> HIDE DEF T, P
  <2>5. \/ ~Pending /\ T = {} /\ P = {}
        \/ Pending /\ (\E t : T = {t}) /\ P = {}
        \/ Pending /\ T = {} /\ \E f : P = {f}
    BY <1>1, <2>1, <2>2, <2>3, <2>4 DEF IInv, CarrierInv
  <2>6. Cardinality({}) = 0 /\ \A x : Cardinality({x}) = 1
    BY FS_EmptySet, FS_Singleton
  <2>7. \/ ~Pending /\ Cardinality(T) = 0 /\ Cardinality(P) = 0
        \/ Pending /\ Cardinality(T) = 1 /\ Cardinality(P) = 0
        \/ Pending /\ Cardinality(T) = 0 /\ Cardinality(P) = 1
    BY <2>5, <2>6
  <2>8. Cardinality(T) + Cardinality(P) = IF Pending THEN 1 ELSE 0
    BY <2>7
  <2>. QED
    BY <2>8 DEF T, P, OneCarrier
<1>2. IInv => OneCarrier
  BY <1>1
<1>. QED
  BY <1>2, SpecIInv, PTL

\* A lost flight is announced once, except after a failed write of the store.
THEOREM LostFlightAlertedOnce == AnyProxySpec => []AlertedOnce
<1>1. IInv => AlertedOnce
  BY DEF IInv, OnceInv
<1>. QED
  BY <1>1, SpecIInv, PTL

\* A disconnect alert leaves only while IVAO is away, between the grace delay
\* and the end of the window of the close that scheduled it.
THEOREM AlertsKeepToWindow == AnyProxySpec => PushesInWindow
<1>1. ASSUME IInv, [AnyProxyNext]_flightVars, NEW f \in pushing' \ pushing
      PROVE  /\ ~fsdConnected
             /\ now - lostAt >= AlertDelay
             /\ now - lostAt <= RetryWindow
  <2>1. PICK t \in alertTimers : DeliverAlert(t)
    BY <1>1 DEF AnyProxyNext, AlertsStep, TimerStep, AnnounceOnline, PushStep, PushAccepted, PushRefused,
                PushThrows, HandleAgentWatchdogFired, SubscriptionsChange, Tick, IvaoConnects,
                HandleIvaoConnected, ConfirmedClose, OnConfirmedClose, UnconfirmedClose,
                OnUnconfirmedClose, SocketLost, flightVars, alertVars
  <2>2. Current(t) /\ ~GivesUp /\ t.due <= now
    BY <1>1, <2>1 DEF DeliverAlert, Current
  <2>3. Pending /\ t.due >= lostAt + AlertDelay /\ alertDeadline = lostAt + RetryWindow
    BY <1>1, <2>2 DEF IInv, CarrierInv, NoCurrent, WindowInv
  <2>4. t.due \in Nat /\ now \in Nat /\ lostAt \in Nat /\ alertDeadline \in Nat
    BY <1>1 DEF IInv, AlertTypeOK, Timer
  <2>. QED
    BY <2>2, <2>3, <2>4, AlertDelaysAssumption DEF GivesUp
<1>2. IInv /\ [AnyProxyNext]_flightVars =>
        [\A f \in pushing' \ pushing :
           /\ ~fsdConnected
           /\ now - lostAt >= AlertDelay
           /\ now - lostAt <= RetryWindow]_flightVars
  BY <1>1
<1>. QED
  BY <1>2, SpecIInv, PTL DEF AnyProxySpec, PushesInWindow

\* A pending alert does not end because an attempt to reconnect failed, a
\* replaced push was answered, or a report was about another flight.
THEOREM AlertsEndForAReason == AnyProxySpec => AlertNotForgotten
<1> DEFINE Reason == \/ alerted' # alerted
                     \/ fsdConnected'
                     \/ HandleAgentWatchdogFired(watchdog.sessionId)
                     \/ ~subscribed' \/ \E f \in pushing \ pushing' : ~f.targets
                     \/ now + RetryDelay > alertDeadline
<1>1. IInv /\ [AnyProxyNext]_flightVars => [Pending /\ ~Pending' => Reason]_flightVars
  <2> SUFFICES ASSUME IInv, AnyProxyNext, Pending, ~Pending'
               PROVE  Reason
    OBVIOUS
  <2>1. CASE TimerStep /\ UNCHANGED fsdState
    <3>1. CASE \E t \in onlineTimers : AnnounceOnline(t)
      BY <3>1 DEF AnnounceOnline, disconnectVars, Pending
    <3>2. ASSUME NEW t \in alertTimers, DeliverAlert(t)
          PROVE  Reason
      <4>1. GivesUp
        BY <3>2 DEF DeliverAlert, Pending
      <4>. QED
        BY <2>1, <4>1, AlertDelaysAssumption DEF GivesUp, fsdState, IInv, AlertTypeOK
    <3>. QED
      BY <2>1, <3>1, <3>2 DEF TimerStep
  <2>2. ASSUME NEW f \in pushing, PushAccepted(f)
        PROVE  Reason
    <3>1. f.flight \in 1..MaxFlights
      BY DEF IInv, OnceInv, Unannounced
    <3>2. alerted'[f.flight] = alerted[f.flight] + 1 /\ alerted[f.flight] \in Nat
      BY <2>2, <3>1, CountType DEF PushAccepted, IInv, AlertTypeOK
    <3>. QED
      BY <3>2
  <2>3. ASSUME NEW f \in pushing, PushRefused(f), UNCHANGED fsdState
        PROVE  Reason
    BY <2>3 DEF PushRefused, RetryAlert, disconnectVars, fsdState, Pending
  <2>4. ASSUME NEW f \in pushing, NEW a \in BOOLEAN, PushThrows(f, a)
        PROVE  Reason
    BY <2>4 DEF PushThrows, RetryAlert, Pending
  <2>5. ASSUME NEW s \in 0..watchdog.sessionId, HandleAgentWatchdogFired(s)
        PROVE  Reason
    BY <2>5 DEF HandleAgentWatchdogFired, disconnectVars, Pending
  <2>6. CASE ConfirmedClose
    BY <2>6 DEF ConfirmedClose, IInv, PathInv
  <2>7. CASE IvaoConnects
    BY <2>7 DEF IvaoConnects
  <2>8. CASE UnconfirmedClose \/ SocketLost \/ SubscriptionsChange \/ Tick
    BY <2>8 DEF UnconfirmedClose, OnUnconfirmedClose, SocketLost, SubscriptionsChange, Tick,
                alertVars, disconnectVars, Pending
  <2>. QED
    BY <2>1, <2>2, <2>3, <2>4, <2>5, <2>6, <2>7, <2>8 DEF AnyProxyNext, AlertsStep, PushStep
<1>. QED
  BY <1>1, SpecIInv, PTL DEF AnyProxySpec, AlertNotForgotten

-----------------------------------------------------------------------------
(***************************************************************************)
(* The online alert.                                                       *)
(***************************************************************************)

\* Its timer belongs to the current connection.
CurrentOnline(t) == t.generation = connectionGeneration

\* Only one timer can still announce, and it announces a connection that was
\* not announced before, when the quiet time is over.
OnlineInv ==
    /\ \A t \in onlineTimers : t.generation <= connectionGeneration
    /\ \A t, u \in onlineTimers : CurrentOnline(t) /\ CurrentOnline(u) => t = u
    /\ \A t \in onlineTimers : CurrentOnline(t) =>
          /\ t.due >= connectedAt + QuietTime
          /\ watchdog.sessionId \in 1..MaxFlights
          /\ announced[watchdog.sessionId] = 0
    /\ \A f \in 1..MaxFlights : f > watchdog.sessionId => announced[f] = 0

\* A cancelled or replaced timer of the online alert is not current any more.
LEMMA CancelOnlineInv ==
    ASSUME IInv, OnlineInv, CancelOnlineAlert, UNCHANGED announced,
           watchdog'.sessionId = watchdog.sessionId
    PROVE  OnlineInv'
<1>1. \A t \in onlineTimers' : t.generation < connectionGeneration'
  BY DEF CancelOnlineAlert, OnlineTimersCleared, OnlineInv, IInv, AlertTypeOK, Timer
<1>2. \A t \in onlineTimers' : t.generation <= connectionGeneration' /\ ~CurrentOnline(t)'
  BY <1>1 DEF CurrentOnline, CancelOnlineAlert, OnlineTimersCleared, IInv, AlertTypeOK, Timer
<1>. QED
  BY <1>2 DEF OnlineInv

\* handleIvaoConnected sets the timer of a connection nobody announced.
LEMMA ConnectOnlineInv == IInv /\ OnlineInv /\ IvaoConnects => OnlineInv'
<1> SUFFICES ASSUME IInv, OnlineInv, IvaoConnects
             PROVE  OnlineInv'
  OBVIOUS
<1> DEFINE timer == [generation |-> connectionGeneration + 1, due |-> now + QuietTime]
<1>1. /\ connectionGeneration' = connectionGeneration + 1
      /\ onlineTimers' \subseteq onlineTimers \cup {timer}
      /\ connectedAt' = now /\ UNCHANGED announced
      /\ watchdog.sessionId < MaxFlights
      /\ watchdog'.sessionId = watchdog.sessionId + 1
  BY DEF IvaoConnects, HandleIvaoConnected, OnlineTimersCleared
<1>2. timer.generation = connectionGeneration + 1 /\ timer.due = now + QuietTime
  OBVIOUS
<1> HIDE DEF timer
<1>3. \A t \in onlineTimers : t.generation < connectionGeneration + 1
  BY DEF OnlineInv, IInv, AlertTypeOK, Timer
<1>4. /\ connectionGeneration \in Nat /\ watchdog.sessionId \in Nat /\ now + QuietTime \in Nat
      /\ \A t \in onlineTimers : t.generation \in Nat
  BY AlertDelaysAssumption DEF IInv, AlertTypeOK, Timer
<1>5. \A t \in onlineTimers' : CurrentOnline(t)' => t = timer
  BY <1>1, <1>3, <1>4 DEF CurrentOnline
<1>6. \A t \in onlineTimers' : t.generation <= connectionGeneration'
  BY <1>1, <1>2, <1>3, <1>4
<1>7. watchdog'.sessionId \in 1..MaxFlights /\ announced'[watchdog'.sessionId] = 0
  BY <1>1, <1>4, AlertDelaysAssumption DEF OnlineInv
<1>8. \A f \in 1..MaxFlights : f > watchdog'.sessionId => announced'[f] = 0
  BY <1>1, <1>4, AlertDelaysAssumption DEF OnlineInv
<1>. QED
  BY <1>1, <1>2, <1>4, <1>5, <1>6, <1>7, <1>8 DEF OnlineInv

\* The callback of the timer: the only step that announces.
LEMMA AnnounceOnlineInv ==
    ASSUME IInv, OnlineInv, NEW t \in onlineTimers, AnnounceOnline(t)
    PROVE  /\ OnlineInv'
           /\ announced' # announced => /\ fsdConnected
                                        /\ now - connectedAt >= QuietTime
                                        /\ announced[watchdog.sessionId] = 0
<1>1. /\ t.due <= now /\ onlineTimers' = onlineTimers \ {t}
      /\ UNCHANGED <<connectionGeneration, watchdog, connectedAt>>
  BY DEF AnnounceOnline
<1>2. now \in Nat /\ connectedAt \in Nat /\ t.due \in Nat /\ QuietTime \in Nat
  BY AlertDelaysAssumption DEF IInv, AlertTypeOK, Timer
<1>3. CASE CurrentOnline(t) /\ fsdConnected
  <2>1. announced' = [announced EXCEPT ![watchdog.sessionId] = @ + 1]
    BY <1>3 DEF AnnounceOnline, CurrentOnline
  <2>2. \A u \in onlineTimers' : ~CurrentOnline(u)'
    BY <1>1, <1>3 DEF OnlineInv, CurrentOnline
  <2>3. \A f \in 1..MaxFlights : f > watchdog'.sessionId => announced'[f] = 0
    BY <1>1, <2>1, AlertDelaysAssumption DEF OnlineInv, IInv, AlertTypeOK
  <2>4. OnlineInv'
    BY <1>1, <2>2, <2>3 DEF OnlineInv
  <2>. QED
    BY <1>1, <1>2, <1>3, <2>4 DEF OnlineInv
<1>4. CASE ~(CurrentOnline(t) /\ fsdConnected)
  <2>1. announced' = announced
    BY <1>4 DEF AnnounceOnline, CurrentOnline
  <2>. QED
    BY <1>1, <2>1 DEF OnlineInv, CurrentOnline
<1>. QED
  BY <1>3, <1>4

\* Every other step leaves what is announced alone.
LEMMA NextOnlineInv ==
    ASSUME IInv, OnlineInv, [AnyProxyNext]_flightVars
    PROVE  /\ OnlineInv'
           /\ announced' # announced => /\ fsdConnected
                                        /\ now - connectedAt >= QuietTime
                                        /\ announced[watchdog.sessionId] = 0
<1>1. CASE IvaoConnects
  BY <1>1, ConnectOnlineInv DEF IvaoConnects, HandleIvaoConnected
<1>2. CASE ConfirmedClose \/ UnconfirmedClose
  <2>1. CancelOnlineAlert /\ UNCHANGED announced /\ watchdog'.sessionId = watchdog.sessionId
    BY <1>2 DEF ConfirmedClose, OnConfirmedClose, UnconfirmedClose, OnUnconfirmedClose, Disarmed,
                IInv, AlertTypeOK
  <2>. QED
    BY <2>1, CancelOnlineInv
<1>3. ASSUME NEW t \in onlineTimers, AnnounceOnline(t)
      PROVE  /\ OnlineInv'
             /\ announced' # announced => /\ fsdConnected
                                          /\ now - connectedAt >= QuietTime
                                          /\ announced[watchdog.sessionId] = 0
  BY <1>3, AnnounceOnlineInv
<1>4. ASSUME UNCHANGED <<onlineTimers, connectionGeneration, connectedAt, announced, watchdog>>
      PROVE  OnlineInv' /\ announced' = announced
  BY <1>4 DEF OnlineInv, CurrentOnline
<1>5. CASE \/ \E t \in alertTimers : DeliverAlert(t)
           \/ PushStep
           \/ \E s \in 0..watchdog.sessionId : HandleAgentWatchdogFired(s)
           \/ SubscriptionsChange \/ Tick \/ SocketLost \/ UNCHANGED flightVars
  <2>1. UNCHANGED <<onlineTimers, connectionGeneration, connectedAt, announced, watchdog>>
    BY <1>5 DEF DeliverAlert, PushStep, PushAccepted, PushRefused, PushThrows,
                HandleAgentWatchdogFired, SubscriptionsChange, Tick, SocketLost, flightVars,
                alertVars, onlineVars, alertHistory
  <2>. QED
    BY <1>4, <2>1
<1>. QED
  BY <1>1, <1>2, <1>3, <1>5 DEF AnyProxyNext, AlertsStep, TimerStep

\* A connection is announced once at most, while it is up, and only when it
\* lasted the whole quiet time.
THEOREM OnlineAlertEarned == AnyProxySpec => OnlineEarned
<1>1. AnyProxyInit => OnlineInv
  BY DEF AnyProxyInit, AlertsInit, OnlineInv
<1>2. IInv /\ OnlineInv /\ [AnyProxyNext]_flightVars => OnlineInv'
  BY NextOnlineInv
<1>3. IInv /\ OnlineInv /\ [AnyProxyNext]_flightVars
        => [announced' # announced => /\ fsdConnected
                                      /\ now - connectedAt >= QuietTime
                                      /\ announced[watchdog.sessionId] = 0]_flightVars
  BY NextOnlineInv
<1>. QED
  BY <1>1, <1>2, <1>3, SpecIInv, PTL DEF AnyProxySpec, OnlineEarned
=============================================================================
