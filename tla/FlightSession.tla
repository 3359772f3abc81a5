---------------------------- MODULE FlightSession ----------------------------
(***************************************************************************)
(* The FSD proxy and the flight alerts together: onConnected and onClose   *)
(* of fsd-proxy.js are calls, so the handlers of proxy.js run in the same  *)
(* turn of the event loop as the socket event that caused them.            *)
(***************************************************************************)
EXTENDS FsdSession, FiniteSets, TLC

CONSTANTS AlertDelay, RetryDelay, RetryWindow, QuietTime, MaxTime, MaxFlights, MaxCloses

\* What FlightAlerts assumes of them.
ASSUME FlightDelaysAssumption ==
    /\ AlertDelay \in Nat \ {0} /\ RetryDelay \in Nat \ {0} /\ QuietTime \in Nat \ {0}
    /\ RetryWindow \in Nat /\ RetryWindow >= AlertDelay
    /\ MaxTime \in Nat /\ MaxFlights \in Nat /\ MaxCloses \in Nat

VARIABLES
    alertTimer, alertDeadline, alertGeneration, alertTimers, pushing, onlineTimer,
    onlineTimers, connectionGeneration, quietUntil, watchdog, subscribed, now,
    closes, lostAt, connectedAt, alerted, announced, unsure

Alerts == INSTANCE FlightAlerts WITH fsdConnected <- IsConnected,
                                     confirmed <- confirmedIvaoSessionId # 0

alertVars == <<alertTimer, alertDeadline, alertGeneration, alertTimers, pushing, onlineTimer,
               onlineTimers, connectionGeneration, quietUntil, watchdog, subscribed, now,
               closes, lostAt, connectedAt, alerted, announced, unsure>>
vars == <<fsdVars, alertVars>>

FlightInit == Init /\ Alerts!AlertsInit

\* Socket events that reach no handler of proxy.js.
FsdOnly(p) ==
    /\ \/ CoreConnects(p)
       \/ StaleRemoteConnects(p)
       \/ PeerLeaves(p)
       \/ StaleClose(p)
       \/ LineArrives(p)
    /\ UNCHANGED alertVars

IvaoConnected(p)    == RemoteConnects(p) /\ Alerts!HandleIvaoConnected
UnconfirmedEnd(p)   == EndSession(p) /\ ~WasConnected(p) /\ Alerts!OnUnconfirmedClose
ConfirmedEnd(p)     == /\ EndSession(p) /\ WasConnected(p)
                       /\ \E suppressed \in BOOLEAN : Alerts!OnConfirmedClose(suppressed)

FlightNext ==
    \/ \E p \in Pairs : FsdOnly(p) \/ IvaoConnected(p) \/ UnconfirmedEnd(p) \/ ConfirmedEnd(p)
    \/ Alerts!AlertsStep /\ UNCHANGED fsdVars

FlightSpec == FlightInit /\ [][FlightNext]_vars

\* For TLC: the pairs are alike.
Symmetry == Permutations(Pairs)

-----------------------------------------------------------------------------
\* The FSD proxy calls the handlers the way the alerts expect: every property
\* of FlightAlerts that does not need fairness holds of the two together.
AlertsImplemented == Alerts!AnyProxySpec

\* No disconnect alert waits while there is an open socket to IVAO, also when
\* pairs replace each other faster than their close events arrive.
PendingOnlyWhileAway == Alerts!Pending => ~IsConnected

\* docs/TECHNICAL_PAPER.md, 10.4: "A confirmed FSD close first disarms the
\* watchdog and then applies the existing local IVAO disconnect rules."  Once
\* every connection to IVAO is closed, the flight that was armed is disarmed.
DisarmedWhenAllClosed ==
    (\A p \in Pairs : {core[p], remote[p]} \subseteq {"unused", "closed"}) => ~watchdog.armed
=============================================================================
