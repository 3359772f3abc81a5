------------------------- MODULE FlightSessionProofs -------------------------
(***************************************************************************)
(* Proofs about FsdSession, alone and together with the alerts, for any    *)
(* number of pairs.  The current session always has an owner that will end *)
(* it, and the sides of a pair close together, although session ids are    *)
(* used again.  The FSD proxy keeps to what FlightAlerts expects of it,    *)
(* and its record streams stay in order, lose nothing and do not stall.    *)
(***************************************************************************)
EXTENDS FlightSession, FsdRecords, TLAPS, SequenceTheorems, WellFoundedInduction

\* A pair that has not been opened has no session id yet, and vice versa.
UnusedHaveNoId ==
    \A p \in Pairs : /\ core[p] = "unused" <=> sessionOf[p] = 0
                     /\ remote[p] = "unused" <=> sessionOf[p] = 0

IInv == TypeOK /\ UnusedHaveNoId /\ SessionHasOwner /\ PairsCloseTogether

\* What Closing does to the two sockets of a pair: it leaves no side open, and
\* it opens and forgets no socket.
LEMMA ClosingFacts ==
    ASSUME TypeOK, NEW p \in Pairs, Closing(p)
    PROVE  /\ core' \in [Pairs -> CoreStates]
           /\ remote' \in [Pairs -> RemoteStates]
           /\ \A q \in Pairs : q # p => core'[q] = core[q] /\ remote'[q] = remote[q]
           /\ core'[p] # "open" /\ remote'[p] \notin {"connecting", "open"}
           /\ core'[p] = "unused" <=> core[p] = "unused"
           /\ remote'[p] = "unused" <=> remote[p] = "unused"
           /\ core[p] # "unused" \/ remote[p] # "unused"
  BY DEF TypeOK, Closing, Destroyed, CoreStates, RemoteStates

\* Initially there is no session.
LEMMA InitInv == Init => IInv
<1> SUFFICES ASSUME Init PROVE IInv
  OBVIOUS
<1>1. TypeOK
  BY DEF Init, TypeOK, CoreStates, RemoteStates
<1>2. UnusedHaveNoId
  BY DEF Init, UnusedHaveNoId
<1>3. SessionHasOwner
  BY DEF Init, SessionHasOwner
<1>4. PairsCloseTogether
  BY DEF Init, PairsCloseTogether
<1> QED BY <1>1, <1>2, <1>3, <1>4 DEF IInv

\* Every socket event preserves the invariant.
LEMMA NextInv == IInv /\ [Next]_fsdVars => IInv'
<1> SUFFICES ASSUME IInv, [Next]_fsdVars PROVE IInv'
  OBVIOUS
<1> USE NoPairAssumption DEF IInv
<1>1. CASE UNCHANGED fsdVars
  BY <1>1 DEF fsdVars, TypeOK, UnusedHaveNoId, SessionHasOwner, PairsCloseTogether
<1>2. ASSUME NEW p \in Pairs, CoreConnects(p) PROVE IInv'
  <2>1. TypeOK'
    BY <1>2 DEF CoreConnects, TypeOK, CoreStates, RemoteStates
  <2>2. UnusedHaveNoId'
    BY <1>2 DEF CoreConnects, TypeOK, UnusedHaveNoId
  <2>3. SessionHasOwner'
    BY <1>2 DEF CoreConnects, TypeOK, SessionHasOwner
  <2>4. PairsCloseTogether'
    BY <1>2 DEF CoreConnects, TypeOK, PairsCloseTogether
  <2> QED BY <2>1, <2>2, <2>3, <2>4
<1>3. ASSUME NEW p \in Pairs, StaleRemoteConnects(p) PROVE IInv'
  <2>1. TypeOK'
    BY <1>3 DEF StaleRemoteConnects, TypeOK, CoreStates, RemoteStates
  <2>2. UnusedHaveNoId' /\ SessionHasOwner' /\ PairsCloseTogether'
    BY <1>3 DEF StaleRemoteConnects, TypeOK, UnusedHaveNoId, SessionHasOwner, PairsCloseTogether
  <2> QED BY <2>1, <2>2
<1>4. ASSUME NEW p \in Pairs, RemoteConnects(p) PROVE IInv'
  <2>1. TypeOK'
    BY <1>4 DEF RemoteConnects, TypeOK, CoreStates, RemoteStates
  <2>2. UnusedHaveNoId' /\ PairsCloseTogether'
    BY <1>4 DEF RemoteConnects, TypeOK, UnusedHaveNoId, PairsCloseTogether
  <2>3. activeSessionId # 0
    BY <1>4 DEF RemoteConnects, IsCurrent, UnusedHaveNoId
  <2>4. SessionHasOwner'
    BY <1>4, <2>3 DEF RemoteConnects, TypeOK, SessionHasOwner
  <2> QED BY <2>1, <2>2, <2>4
<1>5. ASSUME NEW p \in Pairs, PeerLeaves(p) PROVE IInv'
  <2>1. TypeOK'
    BY <1>5 DEF PeerLeaves, TypeOK, CoreStates, RemoteStates
  <2>2. UnusedHaveNoId'
    BY <1>5 DEF PeerLeaves, TypeOK, UnusedHaveNoId
  <2>3. SessionHasOwner'
    BY <1>5 DEF PeerLeaves, TypeOK, SessionHasOwner
  <2>4. PairsCloseTogether'
    BY <1>5 DEF PeerLeaves, TypeOK, PairsCloseTogether
  <2> QED BY <2>1, <2>2, <2>3, <2>4
<1>6. ASSUME NEW p \in Pairs, StaleClose(p) PROVE IInv'
  <2> USE ClosingFacts
  <2>1. Closing(p)
    BY <1>6 DEF StaleClose
  <2>2. TypeOK'
    BY <1>6, <2>1 DEF StaleClose, TypeOK
  <2>3. UnusedHaveNoId' /\ PairsCloseTogether'
    BY <1>6, <2>1 DEF StaleClose, UnusedHaveNoId, PairsCloseTogether
  <2>4. fsdCoreSocket # p \/ activeSessionId = 0
    BY <1>6 DEF StaleClose, IsCurrent, SessionHasOwner
  <2>5. SessionHasOwner'
    BY <1>6, <2>1, <2>4 DEF StaleClose, SessionHasOwner, TypeOK
  <2> QED BY <2>2, <2>3, <2>5
<1>7. ASSUME NEW p \in Pairs, EndSession(p) PROVE IInv'
  <2>1. Closing(p)
    BY <1>7 DEF EndSession
  <2>2. TypeOK'
    BY <1>7, <2>1, ClosingFacts DEF EndSession, TypeOK
  <2>3. UnusedHaveNoId' /\ PairsCloseTogether'
    BY <1>7, <2>1, ClosingFacts DEF EndSession, UnusedHaveNoId, PairsCloseTogether
  <2>4. SessionHasOwner'
    BY <1>7 DEF EndSession, SessionHasOwner
  <2> QED BY <2>2, <2>3, <2>4
<1>8. ASSUME NEW p \in Pairs, LineArrives(p) PROVE IInv'
  BY <1>8 DEF LineArrives, TypeOK, UnusedHaveNoId, SessionHasOwner, PairsCloseTogether
<1> QED BY <1>1, <1>2, <1>3, <1>4, <1>5, <1>6, <1>7, <1>8 DEF Next, CloseStep

\* The variables of the FSD proxy keep their types.
THEOREM TypeCorrect == Spec => []TypeOK
<1>1. IInv => TypeOK
  BY DEF IInv
<1> QED BY <1>1, InitInv, NextInv, PTL DEF Spec

\* The current session of fsd-proxy.js always has its own connection to
\* PilotCore, whose close event is still to come; no session is left over.
THEOREM CurrentSessionHasOwner == Spec => []SessionHasOwner
<1>1. IInv => SessionHasOwner
  BY DEF IInv
<1> QED BY <1>1, InitInv, NextInv, PTL DEF Spec

\* When one socket of a pair has closed, the other one is not in use.
THEOREM NoHalfOpenPair == Spec => []PairsCloseTogether
<1>1. IInv => PairsCloseTogether
  BY DEF IInv
<1> QED BY <1>1, InitInv, NextInv, PTL DEF Spec

-----------------------------------------------------------------------------
(***************************************************************************)
(* FsdSession with the handlers of proxy.js: every step is a step of the   *)
(* alerts' environment, of the alerts themselves, or of neither.           *)
(***************************************************************************)

\* The composition behaves, on the FSD proxy's variables, like the FSD proxy.
LEMMA FlightStepIsFsdStep == [FlightNext]_vars => [Next]_fsdVars
<1>1. ASSUME NEW p \in Pairs, FsdOnly(p) PROVE Next
  BY <1>1 DEF FsdOnly, Next, CloseStep
<1>2. ASSUME NEW p \in Pairs, IvaoConnected(p) PROVE Next
  BY <1>2 DEF IvaoConnected, Next
<1>3. ASSUME NEW p \in Pairs, UnconfirmedEnd(p) \/ ConfirmedEnd(p) PROVE Next
  BY <1>3 DEF UnconfirmedEnd, ConfirmedEnd, Next, CloseStep
<1>4. UNCHANGED vars => UNCHANGED fsdVars
  BY DEF vars
<1> QED
  BY <1>1, <1>2, <1>3, <1>4 DEF FlightNext

\* The alerts start in one of their initial states.
LEMMA FlightInitMaps == FlightInit => Alerts!AnyProxyInit /\ Init
  BY DEF FlightInit, Init, Alerts!AnyProxyInit, IsConnected

\* A socket event that calls no handler leaves the alerts' environment alone,
\* or takes the connection to IVAO away.
LEMMA FsdOnlyMaps ==
    ASSUME IInv, NEW p \in Pairs, FsdOnly(p)
    PROVE  Alerts!SocketLost \/ UNCHANGED Alerts!flightVars
<1>1. UNCHANGED <<alertVars, ivaoSocket, confirmedIvaoSessionId>>
  BY DEF FsdOnly, CoreConnects, StaleRemoteConnects, PeerLeaves, StaleClose, LineArrives
<1>2. IsConnected' => IsConnected
  <2>1. \A q \in Pairs : remote'[q] = "open" => remote[q] = "open"
    <3>1. CASE StaleClose(p)
      <4>1. Closing(p)
        BY <3>1 DEF StaleClose
      <4> QED
        BY <4>1, ClosingFacts DEF IInv
    <3>2. CASE CoreConnects(p)
      BY <3>2 DEF CoreConnects, IInv, TypeOK
    <3>3. CASE StaleRemoteConnects(p) \/ LineArrives(p)
      BY <3>3 DEF StaleRemoteConnects, LineArrives, IInv, TypeOK
    <3>4. CASE PeerLeaves(p)
      BY <3>4 DEF PeerLeaves, IInv, TypeOK
    <3> QED
      BY <3>1, <3>2, <3>3, <3>4 DEF FsdOnly
  <2> QED
    BY <1>1, <2>1 DEF IsConnected, IInv, TypeOK
<1> QED
  BY <1>1, <1>2, NoPairAssumption
     DEF alertVars, IsConnected, Alerts!SocketLost, Alerts!flightVars, Alerts!fsdState, Alerts!alertVars,
         Alerts!disconnectVars, Alerts!onlineVars, Alerts!alertHistory

\* onConnected finds the FSD proxy connected and owing a close.
LEMMA IvaoConnectedMaps ==
    ASSUME IInv, NEW p \in Pairs, IvaoConnected(p)
    PROVE  Alerts!IvaoConnects
<1>1. sessionOf[p] # 0
  BY DEF IvaoConnected, RemoteConnects, IInv, UnusedHaveNoId
<1>2. IsConnected' /\ (confirmedIvaoSessionId # 0)'
  BY <1>1, NoPairAssumption DEF IvaoConnected, RemoteConnects, IsConnected, IInv, TypeOK
<1> QED
  BY <1>2 DEF IvaoConnected, Alerts!IvaoConnects

\* onClose finds it disconnected; wasConnected is told only when it is owed.
LEMMA EndMaps ==
    ASSUME IInv, NEW p \in Pairs, UnconfirmedEnd(p) \/ ConfirmedEnd(p)
    PROVE  Alerts!ConfirmedClose \/ Alerts!UnconfirmedClose
<1>1. EndSession(p)
  BY DEF UnconfirmedEnd, ConfirmedEnd
<1>2. ~IsConnected' /\ ~(confirmedIvaoSessionId # 0)'
  BY <1>1 DEF EndSession, IsConnected
<1>3. CASE UnconfirmedEnd(p)
  BY <1>2, <1>3 DEF UnconfirmedEnd, Alerts!UnconfirmedClose
<1>4. CASE ConfirmedEnd(p)
  <2>1. sessionOf[p] # 0
    <3>1. Closing(p)
      BY <1>1 DEF EndSession
    <3> QED
      BY <3>1, ClosingFacts DEF IInv, UnusedHaveNoId
  <2>2. confirmedIvaoSessionId # 0
    BY <1>4, <2>1 DEF ConfirmedEnd, WasConnected
  <2> QED
    BY <1>2, <1>4, <2>2 DEF ConfirmedEnd, Alerts!ConfirmedClose
<1> QED
  BY <1>3, <1>4

\* Every step of the composition is a step of the alerts or a stutter.
LEMMA FlightStepMaps == IInv /\ [FlightNext]_vars => [Alerts!AnyProxyNext]_Alerts!flightVars
<1> SUFFICES ASSUME IInv, [FlightNext]_vars
             PROVE  Alerts!AnyProxyNext \/ UNCHANGED Alerts!flightVars
  OBVIOUS
<1>1. ASSUME NEW p \in Pairs, FsdOnly(p)
      PROVE  Alerts!AnyProxyNext \/ UNCHANGED Alerts!flightVars
  BY <1>1, FsdOnlyMaps DEF Alerts!AnyProxyNext
<1>2. ASSUME NEW p \in Pairs, IvaoConnected(p) PROVE Alerts!AnyProxyNext
  BY <1>2, IvaoConnectedMaps DEF Alerts!AnyProxyNext
<1>3. ASSUME NEW p \in Pairs, UnconfirmedEnd(p) \/ ConfirmedEnd(p) PROVE Alerts!AnyProxyNext
  BY <1>3, EndMaps DEF Alerts!AnyProxyNext
<1>4. CASE Alerts!AlertsStep /\ UNCHANGED fsdVars
  BY <1>4 DEF Alerts!AnyProxyNext, Alerts!fsdState, fsdVars, IsConnected
<1>5. CASE UNCHANGED vars
  BY <1>5 DEF vars, fsdVars, alertVars, IsConnected, Alerts!flightVars, Alerts!fsdState,
              Alerts!alertVars, Alerts!disconnectVars, Alerts!onlineVars, Alerts!alertHistory
<1> QED
  BY <1>1, <1>2, <1>3, <1>4, <1>5 DEF FlightNext

\* fsd-proxy.js calls the handlers of proxy.js the way the alerts expect: the
\* two together implement FlightAlerts.
THEOREM AlertsAreImplemented == FlightSpec => AlertsImplemented
  BY FlightInitMaps, FlightStepIsFsdStep, FlightStepMaps, InitInv, NextInv, PTL
     DEF FlightSpec, AlertsImplemented, Alerts!AnyProxySpec

\* What is proved of the alerts with any FSD proxy holds with this one.
AlertProofs == INSTANCE FlightAlertsProofs WITH fsdConnected <- IsConnected,
                                                confirmed <- confirmedIvaoSessionId # 0

\* The session that reached IVAO is remembered as long as its socket counts.
ConnectedIsConfirmed == ivaoSocket # NoPair => confirmedIvaoSessionId # 0

\* It holds at the start, and every socket event preserves it.
LEMMA ConnectedIsConfirmedInit == Init => ConnectedIsConfirmed
  BY DEF Init, ConnectedIsConfirmed

\* The session that is remembered ends with the socket.
LEMMA ConnectedIsConfirmedStep ==
    IInv /\ ConnectedIsConfirmed /\ [Next]_fsdVars => ConnectedIsConfirmed'
<1> SUFFICES ASSUME IInv, ConnectedIsConfirmed, [Next]_fsdVars PROVE ConnectedIsConfirmed'
  OBVIOUS
<1> USE DEF ConnectedIsConfirmed
<1>1. ASSUME NEW p \in Pairs, RemoteConnects(p) PROVE ConnectedIsConfirmed'
  BY <1>1 DEF RemoteConnects, IInv, UnusedHaveNoId
<1>2. ASSUME NEW p \in Pairs, EndSession(p) PROVE ConnectedIsConfirmed'
  BY <1>2 DEF EndSession
<1>3. ASSUME NEW p \in Pairs,
             CoreConnects(p) \/ StaleRemoteConnects(p) \/ PeerLeaves(p) \/ StaleClose(p)
               \/ LineArrives(p) \/ UNCHANGED fsdVars
      PROVE  ConnectedIsConfirmed'
  BY <1>3 DEF CoreConnects, StaleRemoteConnects, PeerLeaves, StaleClose, LineArrives, fsdVars
<1>4. CASE UNCHANGED fsdVars
  BY <1>4 DEF fsdVars
<1> QED
  BY <1>1, <1>2, <1>3, <1>4 DEF Next, CloseStep

\* The two instances of FlightAlerts start alike.
LEMMA SameStart == Alerts!AnyProxyInit => AlertProofs!AnyProxyInit
  BY DEF Alerts!AnyProxyInit, AlertProofs!AnyProxyInit, Alerts!AlertsInit, AlertProofs!AlertsInit,
         Alerts!NoTimer, AlertProofs!NoTimer

\* The handlers are the same.
LEMMA SameHandlers ==
    /\ Alerts!HandleIvaoConnected => AlertProofs!HandleIvaoConnected
    /\ Alerts!OnUnconfirmedClose => AlertProofs!OnUnconfirmedClose
    /\ \A s \in BOOLEAN : Alerts!OnConfirmedClose(s) => AlertProofs!OnConfirmedClose(s)
  BY DEF Alerts!HandleIvaoConnected, AlertProofs!HandleIvaoConnected,
         Alerts!OnUnconfirmedClose, AlertProofs!OnUnconfirmedClose, Alerts!OnConfirmedClose,
         AlertProofs!OnConfirmedClose, Alerts!disconnectVars, AlertProofs!disconnectVars,
         Alerts!CancelDisconnectAlert, AlertProofs!CancelDisconnectAlert,
         Alerts!AlertTimersCleared, AlertProofs!AlertTimersCleared,
         Alerts!ScheduleDisconnectAlert, AlertProofs!ScheduleDisconnectAlert,
         Alerts!CancelOnlineAlert, AlertProofs!CancelOnlineAlert,
         Alerts!OnlineTimersCleared, AlertProofs!OnlineTimersCleared, Alerts!Disarmed,
         AlertProofs!Disarmed, Alerts!NoTimer, AlertProofs!NoTimer

\* So are the steps without the FSD proxy.
LEMMA SameAlertsStep == Alerts!AlertsStep => AlertProofs!AlertsStep
  BY DEF Alerts!AlertsStep, AlertProofs!AlertsStep, Alerts!TimerStep, AlertProofs!TimerStep,
         Alerts!PushStep, AlertProofs!PushStep, Alerts!HandleAgentWatchdogFired,
         AlertProofs!HandleAgentWatchdogFired, Alerts!SubscriptionsChange,
         AlertProofs!SubscriptionsChange, Alerts!Tick, AlertProofs!Tick,
         Alerts!DeliverAlert, AlertProofs!DeliverAlert, Alerts!AnnounceOnline,
         AlertProofs!AnnounceOnline, Alerts!PushAccepted, AlertProofs!PushAccepted,
         Alerts!PushRefused, AlertProofs!PushRefused, Alerts!PushThrows,
         AlertProofs!PushThrows, Alerts!RetryAlert, AlertProofs!RetryAlert, Alerts!GivesUp,
         AlertProofs!GivesUp, Alerts!disconnectVars, AlertProofs!disconnectVars,
         Alerts!onlineVars, AlertProofs!onlineVars, Alerts!alertHistory,
         AlertProofs!alertHistory, Alerts!CancelDisconnectAlert,
         AlertProofs!CancelDisconnectAlert, Alerts!AlertTimersCleared,
         AlertProofs!AlertTimersCleared, Alerts!ScheduleDisconnectAlert,
         AlertProofs!ScheduleDisconnectAlert, Alerts!CancelOnlineAlert,
         AlertProofs!CancelOnlineAlert, Alerts!OnlineTimersCleared,
         AlertProofs!OnlineTimersCleared, Alerts!Disarmed, AlertProofs!Disarmed,
         Alerts!NoTimer, AlertProofs!NoTimer

\* So are the stuttering steps.
LEMMA SameVars == UNCHANGED Alerts!flightVars => UNCHANGED AlertProofs!flightVars
  BY DEF Alerts!flightVars, AlertProofs!flightVars, Alerts!fsdState, AlertProofs!fsdState,
         Alerts!alertVars, AlertProofs!alertVars, Alerts!disconnectVars,
         AlertProofs!disconnectVars, Alerts!onlineVars, AlertProofs!onlineVars,
         Alerts!alertHistory, AlertProofs!alertHistory

\* Together: whatever implements one instance implements the other.
LEMMA SameNext == [Alerts!AnyProxyNext]_Alerts!flightVars => [AlertProofs!AnyProxyNext]_AlertProofs!flightVars
<1>1. Alerts!IvaoConnects => AlertProofs!IvaoConnects
  BY SameHandlers DEF Alerts!IvaoConnects, AlertProofs!IvaoConnects
<1>2. Alerts!ConfirmedClose => AlertProofs!ConfirmedClose
  BY SameHandlers DEF Alerts!ConfirmedClose, AlertProofs!ConfirmedClose
<1>3. Alerts!UnconfirmedClose => AlertProofs!UnconfirmedClose
  BY SameHandlers DEF Alerts!UnconfirmedClose, AlertProofs!UnconfirmedClose
<1>4. Alerts!SocketLost => AlertProofs!SocketLost
  BY DEF Alerts!SocketLost, AlertProofs!SocketLost, Alerts!fsdState, AlertProofs!fsdState,
         Alerts!alertVars, AlertProofs!alertVars, Alerts!disconnectVars,
         AlertProofs!disconnectVars, Alerts!onlineVars, AlertProofs!onlineVars,
         Alerts!alertHistory, AlertProofs!alertHistory
<1>5. Alerts!AlertsStep /\ UNCHANGED Alerts!fsdState
        => AlertProofs!AlertsStep /\ UNCHANGED AlertProofs!fsdState
  BY SameAlertsStep DEF Alerts!fsdState, AlertProofs!fsdState
<1> QED
  BY <1>1, <1>2, <1>3, <1>4, <1>5, SameVars DEF Alerts!AnyProxyNext, AlertProofs!AnyProxyNext

\* The alerts' own invariant holds in the composition.
LEMMA AlertsInvariant == FlightSpec => []AlertProofs!IInv
<1>1. AlertProofs!AlertDelaysAssumption
  BY FlightDelaysAssumption DEF AlertProofs!AlertDelaysAssumption
<1>2. FlightInit => AlertProofs!IInv
  BY <1>1, AlertProofs!InitIInv, FlightInitMaps, SameStart
<1>3. AlertProofs!IInv /\ IInv /\ [FlightNext]_vars => AlertProofs!IInv'
  BY <1>1, AlertProofs!NextIInv, FlightStepMaps, SameNext
<1> QED
  BY <1>2, <1>3, FlightInitMaps, FlightStepIsFsdStep, InitInv, NextInv, PTL DEF FlightSpec

\* No disconnect alert waits while a socket to IVAO is open, however pairs
\* replace each other.
THEOREM NothingPendingWhileConnected == FlightSpec => []PendingOnlyWhileAway
<1>1. AlertProofs!IInv /\ ConnectedIsConfirmed => PendingOnlyWhileAway
  BY DEF AlertProofs!IInv, AlertProofs!PathInv, AlertProofs!Pending, Alerts!Pending,
         ConnectedIsConfirmed, IsConnected, PendingOnlyWhileAway
<1> QED
  BY <1>1, AlertsInvariant, FlightInitMaps, FlightStepIsFsdStep, InitInv, NextInv,
     ConnectedIsConfirmedInit, ConnectedIsConfirmedStep, PTL DEF FlightSpec
-----------------------------------------------------------------------------
(***************************************************************************)
(* FsdRecords: its sessions are those of FsdSession, and the records of    *)
(* every pair stay in order, none missing, on top of them.                 *)
(***************************************************************************)
Rec == [n : Nat, kind : Kinds]
Ordered(s) == \A i, j \in DOMAIN s : i < j => s[i].n < s[j].n
AllBelow(N, M) == \A x \in N, y \in M : x < y

LEMMA NumbersOfConcat ==
    ASSUME NEW a \in Seq(Rec), NEW b \in Seq(Rec)
    PROVE  Numbers(a \o b) = Numbers(a) \cup Numbers(b)
<1>1. /\ a \o b \in Seq(Rec) /\ Len(a \o b) = Len(a) + Len(b)
      /\ \A i \in 1..Len(a) + Len(b) : (a \o b)[i] = IF i <= Len(a) THEN a[i] ELSE b[i - Len(a)]
  BY ConcatProperties
<1>2. /\ Len(a) \in Nat /\ Len(b) \in Nat /\ DOMAIN a = 1..Len(a) /\ DOMAIN b = 1..Len(b)
      /\ DOMAIN (a \o b) = 1..(Len(a) + Len(b))
  BY <1>1, LenProperties
<1> DEFINE c == a \o b
<1> HIDE DEF c
<1>3. ASSUME NEW i \in DOMAIN c PROVE c[i].n \in Numbers(a) \cup Numbers(b)
  <2>1. CASE i <= Len(a)
    BY <1>1, <1>2, <1>3, <2>1 DEF Numbers, c
  <2>2. CASE ~(i <= Len(a))
    <3>1. i - Len(a) \in DOMAIN b
      BY <1>2, <2>2 DEF c
    <3> QED BY <1>1, <1>2, <2>2, <3>1 DEF Numbers, c
  <2> QED BY <2>1, <2>2
<1>4. ASSUME NEW i \in DOMAIN a PROVE a[i].n \in Numbers(c)
  <2>1. i \in 1..(Len(a) + Len(b)) /\ i <= Len(a)
    BY <1>2
  <2> QED BY <1>1, <1>2, <2>1 DEF Numbers, c
<1>5. ASSUME NEW i \in DOMAIN b PROVE b[i].n \in Numbers(c)
  <2>1. i + Len(a) \in 1..(Len(a) + Len(b)) /\ ~(i + Len(a) <= Len(a)) /\ (i + Len(a)) - Len(a) = i
    BY <1>2
  <2> QED BY <1>1, <1>2, <2>1 DEF Numbers, c
<1> QED BY <1>3, <1>4, <1>5 DEF Numbers, c

LEMMA OrderOfConcat ==
    ASSUME NEW a \in Seq(Rec), NEW b \in Seq(Rec)
    PROVE  Ordered(a \o b) <=> Ordered(a) /\ Ordered(b) /\ AllBelow(Numbers(a), Numbers(b))
<1>1. /\ a \o b \in Seq(Rec) /\ Len(a \o b) = Len(a) + Len(b)
      /\ \A i \in 1..Len(a) + Len(b) : (a \o b)[i] = IF i <= Len(a) THEN a[i] ELSE b[i - Len(a)]
  BY ConcatProperties
<1>2. /\ Len(a) \in Nat /\ Len(b) \in Nat /\ DOMAIN a = 1..Len(a) /\ DOMAIN b = 1..Len(b)
      /\ DOMAIN (a \o b) = 1..(Len(a) + Len(b))
  BY <1>1, LenProperties
<1> DEFINE c == a \o b
<1>3. \A i \in DOMAIN a : i \in DOMAIN c /\ i \in Nat /\ i <= Len(a) /\ c[i] = a[i]
  BY <1>1, <1>2
<1>4. \A i \in DOMAIN b : i + Len(a) \in DOMAIN c /\ i \in Nat /\ i > 0 /\ c[i + Len(a)] = b[i]
  <2> TAKE i \in DOMAIN b
  <2>1. i + Len(a) \in 1..(Len(a) + Len(b)) /\ ~(i + Len(a) <= Len(a)) /\ (i + Len(a)) - Len(a) = i
    BY <1>2
  <2> QED BY <1>1, <1>2, <2>1
<1>5. \A k \in DOMAIN c : k \in DOMAIN a \/ \E i \in DOMAIN b : k = i + Len(a)
  <2> TAKE k \in DOMAIN c
  <2>1. CASE k <= Len(a)
    BY <1>2, <2>1
  <2>2. CASE ~(k <= Len(a))
    <3>1. k - Len(a) \in DOMAIN b /\ k = (k - Len(a)) + Len(a)
      BY <1>2, <2>2
    <3> QED BY <3>1
  <2> QED BY <2>1, <2>2
<1> HIDE DEF c
<1>6. ASSUME Ordered(c) PROVE Ordered(a) /\ Ordered(b) /\ AllBelow(Numbers(a), Numbers(b))
  <2>1. Ordered(a)
    BY <1>3, <1>6 DEF Ordered
  <2>2. ASSUME NEW i \in DOMAIN b, NEW j \in DOMAIN b, i < j PROVE b[i].n < b[j].n
    <3>1. i + Len(a) < j + Len(a)
      BY <1>2, <1>4, <2>2
    <3> QED BY <1>4, <1>6, <3>1 DEF Ordered
  <2>3. ASSUME NEW i \in DOMAIN a, NEW j \in DOMAIN b PROVE a[i].n < b[j].n
    <3>1. i < j + Len(a)
      BY <1>2, <1>3, <1>4
    <3> QED BY <1>3, <1>4, <1>6, <3>1 DEF Ordered
  <2> QED BY <2>1, <2>2, <2>3 DEF Ordered, AllBelow, Numbers
<1>7. ASSUME Ordered(a), Ordered(b), AllBelow(Numbers(a), Numbers(b)) PROVE Ordered(c)
  <2>1. ASSUME NEW i \in DOMAIN c, NEW j \in DOMAIN c, i < j PROVE c[i].n < c[j].n
    <3>1. CASE i \in DOMAIN a /\ j \in DOMAIN a
      BY <1>3, <1>7, <2>1, <3>1 DEF Ordered
    <3>2. ASSUME i \in DOMAIN a, NEW m \in DOMAIN b, j = m + Len(a) PROVE c[i].n < c[j].n
      BY <1>3, <1>4, <1>7, <3>2 DEF AllBelow, Numbers
    <3>3. ASSUME NEW k \in DOMAIN b, i = k + Len(a), j \in DOMAIN a PROVE FALSE
      BY <1>2, <1>3, <1>4, <2>1, <3>3
    <3>4. ASSUME NEW k \in DOMAIN b, NEW m \in DOMAIN b, i = k + Len(a), j = m + Len(a)
          PROVE  c[i].n < c[j].n
      <4>1. k < m
        BY <1>2, <1>4, <2>1, <3>4
      <4> QED BY <1>4, <1>7, <3>4, <4>1 DEF Ordered
    <3> QED BY <1>5, <3>1, <3>2, <3>3, <3>4
  <2> QED BY <2>1 DEF Ordered
<1> QED BY <1>6, <1>7 DEF c

\* A set of naturals that is not empty has a least member.
LEMMA LeastOf ==
    ASSUME NEW N, N \subseteq Nat, N # {}
    PROVE  \E n \in N : \A m \in N : n <= m
<1>1. \E n \in N : \A m \in N : ~(<<m, n>> \in OpToRel(<, Nat))
  BY WFMin, NatLessThanWellFounded
<1>2. PICK n \in N : \A m \in N : ~(<<m, n>> \in OpToRel(<, Nat))
  BY <1>1
<1>3. ASSUME NEW m \in N PROVE n <= m
  <2>1. m \in Nat /\ n \in Nat
    OBVIOUS
  <2>2. m < n => <<m, n>> \in OpToRel(<, Nat)
    BY <2>1 DEF OpToRel
  <2>3. ~(m < n)
    BY <1>2, <2>2
  <2> QED BY <2>1, <2>3
<1> QED BY <1>3

\* drainRecords() cuts its input at the first record that is not forwarded and
\* loses none of it.
LEMMA InputIsCut ==
    ASSUME NEW s \in Seq(Rec)
    PROVE  /\ Forwarded(s) \in Seq(Rec) /\ Behind(s) \in Seq(Rec)
           /\ Meets(s) = "end" => s = Forwarded(s)
           /\ Meets(s) # "end" => /\ s[FirstOther(s)] \in Rec
                                  /\ s = (Forwarded(s) \o <<s[FirstOther(s)]>>) \o Behind(s)
           /\ Meets(s) = "end" \/ Meets(s) \in Kinds
<1> DEFINE k == FirstOther(s)
<1>1. Len(s) \in Nat /\ DOMAIN s = 1..Len(s) /\ \A i \in 1..Len(s) : s[i] \in Rec
  BY LenProperties, ElementOfSeq
<1>2. k \in 1..(Len(s) + 1)
  <2>1. CASE ~\E i \in DOMAIN s : s[i].kind # "plain"
    BY <1>1, <2>1 DEF FirstOther
  <2>2. CASE \E i \in DOMAIN s : s[i].kind # "plain"
    <3> DEFINE N == {i \in DOMAIN s : s[i].kind # "plain"}
    <3>1. N \subseteq Nat /\ N # {}
      BY <1>1, <2>2
    <3>2. PICK f \in N : \A m \in N : f <= m
      BY <3>1, LeastOf
    <3>3. \A j \in 1..(f - 1) : s[j].kind = "plain"
      <4> SUFFICES ASSUME NEW j \in 1..(f - 1), s[j].kind # "plain" PROVE FALSE
        OBVIOUS
      <4>1. f \in 1..Len(s) /\ j \in DOMAIN s
        BY <1>1, <3>2
      <4>2. j \in N /\ j < f
        BY <4>1
      <4> QED BY <3>2, <4>1, <4>2
    <3>4. k \in DOMAIN s
      BY <2>2, <3>2, <3>3 DEF FirstOther
    <3> QED BY <1>1, <3>4
  <2> QED BY <2>1, <2>2
<1>3. Forwarded(s) = SubSeq(s, 1, k - 1) /\ Behind(s) = SubSeq(s, k + 1, Len(s))
  BY DEF Forwarded, Behind
<1>4. Meets(s) = IF k > Len(s) THEN "end" ELSE s[k].kind
  BY DEF Meets
<1> HIDE DEF k
<1>5. Forwarded(s) \in Seq(Rec)
  <2>1. \A i \in 1..(k - 1) : s[i] \in Rec
    BY <1>1, <1>2
  <2> QED BY <1>2, <1>3, <2>1, SubSeqProperties
<1>6. Behind(s) \in Seq(Rec)
  <2>1. \A i \in (k + 1)..Len(s) : s[i] \in Rec
    BY <1>1, <1>2
  <2> QED BY <1>1, <1>2, <1>3, <2>1, SubSeqProperties
<1>7. CASE k > Len(s)
  <2>1. k - 1 = Len(s)
    BY <1>1, <1>2, <1>7
  <2> QED BY <1>3, <1>4, <1>5, <1>6, <1>7, <2>1, SubSeqFull
<1>8. CASE ~(k > Len(s))
  <2>1. k \in 1..Len(s) /\ s[k] \in Rec
    BY <1>1, <1>2, <1>8
  <2>2. Meets(s) = s[k].kind /\ s[k].kind \in Kinds /\ Meets(s) # "end"
    BY <1>4, <1>8, <2>1 DEF Rec, Kinds
  <2>3. SubSeq(s, 1, k) = Forwarded(s) \o <<s[k]>>
    BY <1>1, <1>3, <2>1, SubSeqRecursiveSecond
  <2>4. SubSeq(s, 1, k) \o SubSeq(s, k + 1, Len(s)) = SubSeq(s, 1, Len(s))
    <3>1. 1 \in 1..(Len(s) + 1) /\ k \in (1 - 1)..Len(s) /\ Len(s) \in k..Len(s)
      BY <1>1, <2>1
    <3> QED BY <3>1, ConcatAdjacentSubSeq
  <2>5. s = (Forwarded(s) \o <<s[k]>>) \o Behind(s)
    BY <1>3, <2>3, <2>4, SubSeqFull
  <2> QED BY <1>5, <1>6, <2>1, <2>2, <2>5 DEF k
<1> QED BY <1>7, <1>8

\* What a pair was sent or keeps of what arrived.
All(p) == (written[p] \o waiting[p]) \o pending[p]
BothOpen(p) == core[p] = "open" /\ remote[p] = "open"

RecordsTypeOK ==
    /\ arrived \in [Pairs -> Nat] /\ withheld \in [Pairs -> SUBSET Nat] /\ paused \in [Pairs -> BOOLEAN]
    /\ written \in [Pairs -> Seq(Rec)] /\ waiting \in [Pairs -> Seq(Rec)] /\ pending \in [Pairs -> Seq(Rec)]

LEMMA ConcatOfRecords ==
    ASSUME NEW a \in Seq(Rec), NEW b \in Seq(Rec), NEW c \in Seq(Rec)
    PROVE  /\ (a \o b) \o c = a \o (b \o c)
           /\ a \o b \in Seq(Rec) /\ b \o c \in Seq(Rec) /\ (a \o b) \o c \in Seq(Rec)
<1>1. (a \o b) \o c = a \o (b \o c)
  BY ConcatAssociative
<1>2. a \o b \in Seq(Rec) /\ b \o c \in Seq(Rec)
  BY ConcatProperties
<1>3. (a \o b) \o c \in Seq(Rec)
  BY <1>2, ConcatProperties
<1> QED BY <1>1, <1>2, <1>3

\* The same under a name of its own, which hides \o from the provers.
Recs == Seq(Rec)
Cat(a, b) == a \o b
LEMMA CatAssociates ==
    \A a, b, c \in Recs : Cat(Cat(a, b), c) = Cat(a, Cat(b, c)) /\ Cat(a, b) \in Recs /\ Cat(b, c) \in Recs
  BY ConcatOfRecords DEF Recs, Cat

\* The front of the input, the reply that waits and what is behind it are the input.
LEMMA WaitingIsCut ==
    ASSUME NEW s \in Seq(Rec), NEW out \in Seq(Rec), Meets(s) # "end"
    PROVE  /\ s[FirstOther(s)] \in Rec /\ <<s[FirstOther(s)]>> \in Seq(Rec)
           /\ ((out \o Forwarded(s)) \o <<s[FirstOther(s)]>>) \o Behind(s) = out \o s
<1> DEFINE f == Forwarded(s)
           r == s[FirstOther(s)]
           b == Behind(s)
<1>1. f \in Seq(Rec) /\ b \in Seq(Rec) /\ r \in Rec
  BY InputIsCut, Zenon
<1>2. s = (f \o <<r>>) \o b
  BY InputIsCut, Zenon
<1> HIDE DEF f, r, b
<1>3. <<r>> \in Seq(Rec)
  BY <1>1
<1> DEFINE v == <<r>>
<1> HIDE DEF v
<1>4. ((out \o f) \o v) \o b = out \o ((f \o v) \o b)
  <2>1. f \in Seq(Rec) /\ b \in Seq(Rec) /\ v \in Seq(Rec)
    BY <1>1, <1>3 DEF v
  <2>2. (out \o f) \o v = out \o (f \o v) /\ f \o v \in Seq(Rec)
    <3>1. out \in Recs /\ f \in Recs /\ v \in Recs
      BY <2>1 DEF Recs
    <3>2. Cat(Cat(out, f), v) = Cat(out, Cat(f, v)) /\ Cat(f, v) \in Recs
      BY <3>1, CatAssociates
    <3> QED BY <3>2 DEF Cat, Recs
  <2> DEFINE e == f \o v
  <2>3. e \in Seq(Rec) /\ (out \o f) \o v = out \o e
    BY <2>2
  <2> HIDE DEF e
  <2>4. e \in Seq(Rec)
    BY <2>3
  <2>5. (out \o e) \o b = out \o (e \o b)
    <3>1. out \in Recs /\ e \in Recs /\ b \in Recs
      BY <2>1, <2>4 DEF Recs
    <3>2. Cat(Cat(out, e), b) = Cat(out, Cat(e, b)) /\ Cat(e, b) \in Recs
      BY <3>1, CatAssociates
    <3> QED BY <3>2 DEF Cat, Recs
  <2> QED BY <2>3, <2>5, Zenon DEF e
<1>5. ((out \o f) \o <<r>>) \o b = out \o s
  BY <1>2, <1>4, Zenon DEF v
<1> QED BY <1>1, <1>3, <1>5 DEF f, r, b

LEMMA FrontIsCut ==
    ASSUME NEW s \in Seq(Rec), NEW out \in Seq(Rec)
    PROVE  /\ out \o Forwarded(s) \in Seq(Rec)
           /\ \E rest \in Seq(Rec) : out \o s = (out \o Forwarded(s)) \o rest
<1> DEFINE f == Forwarded(s)
           v == <<s[FirstOther(s)]>>
           b == Behind(s)
<1>1. f \in Seq(Rec) /\ b \in Seq(Rec)
  BY InputIsCut, Zenon
<1>2. CASE Meets(s) = "end"
  <2>1. s = f
    BY <1>2, InputIsCut, Zenon
  <2>2. <<>> \in Seq(Rec)
    BY EmptySeq
  <2>3. out \o f \in Seq(Rec) /\ (out \o f) \o <<>> = out \o f
    BY <1>1, ConcatProperties, ConcatEmptySeq
  <2> HIDE DEF f
  <2> QED BY <2>1, <2>2, <2>3, Zenon DEF f
<1>3. CASE Meets(s) # "end"
  <2>1. v \in Seq(Rec) /\ ((out \o f) \o v) \o b = out \o s
    BY <1>3, WaitingIsCut
  <2> HIDE DEF f, v, b
  <2>2. out \o f \in Seq(Rec)
    BY <1>1, ConcatOfRecords
  <2> DEFINE o == out \o f
  <2>3. o \in Seq(Rec) /\ (o \o v) \o b = out \o s
    BY <2>1, <2>2
  <2> HIDE DEF o
  <2>4. o \in Seq(Rec) /\ v \in Seq(Rec)
    BY <2>1, <2>3
  <2>5. (o \o v) \o b = o \o (v \o b) /\ v \o b \in Seq(Rec)
    <3>1. o \in Recs /\ v \in Recs /\ b \in Recs
      BY <1>1, <2>4 DEF Recs
    <3>2. Cat(Cat(o, v), b) = Cat(o, Cat(v, b)) /\ Cat(v, b) \in Recs
      BY <3>1, CatAssociates
    <3> QED BY <3>2 DEF Cat, Recs
  <2>6. out \o s = o \o (v \o b)
    BY <2>3, <2>5, Zenon
  <2> QED BY <2>3, <2>5, <2>6 DEF f, o
<1> QED BY <1>2, <1>3

\* The records are in order and, as long as both sockets are open, complete, whether
\* or not the pair is current; what the session's own pair holds back, a reply waits for.
Waits(p) ==
    /\ waiting[p] = <<>> \/ \E r \in Rec : waiting[p] = <<r>>
    /\ fsdCoreSocket = p /\ BothOpen(p) =>
          /\ paused[p] \/ pending[p] # <<>> => waiting[p] # <<>>
          /\ Len(pending[p]) <= MaxPending
Untouched(p) ==
    remote[p] \in {"unused", "connecting"} =>
        /\ arrived[p] = 0 /\ withheld[p] = {} /\ ~paused[p]
        /\ written[p] = <<>> /\ waiting[p] = <<>> /\ pending[p] = <<>>
InOrder(p) ==
    /\ Ordered(All(p)) /\ Numbers(All(p)) \subseteq 1..arrived[p] /\ withheld[p] \subseteq 1..arrived[p]
    /\ BothOpen(p) => 1..arrived[p] \subseteq Numbers(All(p)) \cup withheld[p]
RecordsIInv == RecordsTypeOK /\ \A p \in Pairs : Waits(p) /\ Untouched(p) /\ InOrder(p)

\* Nothing about a pair changes that its records rest on.
SamePair(p) ==
    /\ arrived'[p] = arrived[p] /\ withheld'[p] = withheld[p] /\ paused'[p] = paused[p]
    /\ written'[p] = written[p] /\ waiting'[p] = waiting[p] /\ pending'[p] = pending[p]

\* A pair does not return to the session, nor are its sockets opened again.
NotReopened(p) ==
    /\ BothOpen(p)' => BothOpen(p) \/ remote[p] \in {"unused", "connecting"}
    /\ remote'[p] \in {"unused", "connecting"} => remote[p] \in {"unused", "connecting"}
    /\ fsdCoreSocket' = p /\ BothOpen(p)' => fsdCoreSocket = p

LEMMA RecordsInitHolds == RecordsInit => RecordsIInv
<1> SUFFICES ASSUME RecordsInit PROVE RecordsIInv
  OBVIOUS
<1>1. <<>> \in Seq(Rec)
  BY EmptySeq
<1>2. RecordsTypeOK
  BY <1>1 DEF RecordsInit, RecordsTypeOK
<1>3. ASSUME NEW p \in Pairs PROVE Waits(p) /\ Untouched(p) /\ InOrder(p)
  <2>1. /\ arrived[p] = 0 /\ withheld[p] = {} /\ paused[p] = FALSE
        /\ written[p] = <<>> /\ waiting[p] = <<>> /\ pending[p] = <<>>
    BY DEF RecordsInit
  <2>2. fsdCoreSocket # p
    BY NoPairAssumption DEF RecordsInit, Init
  <2>3. All(p) = <<>>
    BY <1>1, <2>1, ConcatEmptySeq DEF All
  <2>4. DOMAIN All(p) = {}
    BY <2>3
  <2>5. Waits(p) /\ Untouched(p)
    BY <2>1, <2>2 DEF Waits, Untouched
  <2>6. InOrder(p)
    BY <2>1, <2>4 DEF InOrder, Ordered, Numbers
  <2> QED BY <2>5, <2>6
<1> QED BY <1>2, <1>3 DEF RecordsIInv

\* A pair whose records rest keeps what is promised of it, if it was not opened anew.
LEMMA RestingKeeps ==
    ASSUME RecordsIInv, NEW p \in Pairs, SamePair(p), NotReopened(p)
    PROVE  Waits(p)' /\ Untouched(p)' /\ InOrder(p)'
<1> USE DEF NotReopened
<1>1. All(p)' = All(p)
  BY DEF All, SamePair
<1>2. Untouched(p)'
  BY DEF RecordsIInv, Untouched, SamePair
<1>3. CASE BothOpen(p)' /\ remote[p] \in {"unused", "connecting"}
  <2>1. /\ arrived[p] = 0 /\ ~paused[p] /\ waiting[p] = <<>> /\ pending[p] = <<>>
    BY <1>3 DEF RecordsIInv, Untouched
  <2>2. Len(pending[p]) <= MaxPending
    BY <2>1, RecordsAssumption
  <2>3. Waits(p)'
    BY <2>1, <2>2 DEF Waits, SamePair
  <2>4. 1..arrived[p] = {}
    BY <2>1
  <2>5. InOrder(p)'
    BY <1>1, <2>4 DEF RecordsIInv, InOrder, SamePair
  <2> QED BY <1>2, <2>3, <2>5
<1>4. CASE BothOpen(p)' => BothOpen(p)
  BY <1>1, <1>2, <1>4 DEF RecordsIInv, Waits, InOrder, SamePair
<1> QED BY <1>3, <1>4

\* Rejecting the input of a pair is a close() of it.
LEMMA RejectIsClose ==
    ASSUME NEW p \in Pairs, Reject(p), remote[p] = "open"
    PROVE  CloseStep(p)
<1>1. Closing(p)
  BY DEF Reject, Closing, Destroyed
<1> QED BY <1>1 DEF Reject, CloseStep, StaleClose, EndSession

\* drainRecords() closes the pair, counts as a line, or leaves the session alone.
LEMMA DrainIsFsdStep ==
    ASSUME NEW p \in Pairs, NEW s, NEW out, Drain(p, s, out), connected \in BOOLEAN
    PROVE  [Next]_fsdVars
<1>1. CASE ~MayDrain(p)
  BY <1>1 DEF Drain
<1>2. CASE MayDrain(p) /\ Reject(p)
  BY <1>2, RejectIsClose DEF MayDrain, Next
<1>3. CASE /\ MayDrain(p) /\ connected' = (connected \/ s # <<>>)
           /\ UNCHANGED <<core, remote, sessionOf, activeSessionId, confirmedIvaoSessionId,
                          fsdCoreSocket, ivaoSocket>>
  <2>1. CASE connected' = connected
    BY <1>3, <2>1 DEF fsdVars
  <2>2. CASE connected' = TRUE
    BY <1>3, <2>2 DEF MayDrain, LineArrives, Next
  <2> QED BY <1>3, <2>1, <2>2
<1> QED BY <1>1, <1>2, <1>3 DEF Drain

\* The FSD proxy with its records behaves, on its sessions, like FsdSession.
LEMMA RecordsStepIsFsdStep == TypeOK /\ [RecordsNext]_streamVars => [Next]_fsdVars
<1> SUFFICES ASSUME TypeOK, [RecordsNext]_streamVars PROVE [Next]_fsdVars
  OBVIOUS
<1>0. connected \in BOOLEAN
  BY DEF TypeOK
<1>1. ASSUME NEW p \in Pairs, NEW kinds, RemoteData(p, kinds) PROVE [Next]_fsdVars
  <2> DEFINE input == pending[p] \o [i \in 1..Len(kinds) |-> [n |-> arrived[p] + i, kind |-> kinds[i]]]
  <2>1. CASE waiting[p] = <<>>
    <3>1. Drain(p, input, written[p])
      BY <1>1, <2>1 DEF RemoteData
    <3> HIDE DEF input
    <3> QED BY <1>0, <3>1, DrainIsFsdStep
  <2>2. CASE waiting[p] # <<>>
    BY <1>1, <2>2, RejectIsClose DEF RemoteData, Next
  <2> QED BY <2>1, <2>2
<1>2. ASSUME NEW p \in Pairs, NEW ok \in BOOLEAN, EndpointAnswers(p, ok) PROVE [Next]_fsdVars
  BY <1>0, <1>2, DrainIsFsdStep DEF EndpointAnswers
<1>3. CASE UNCHANGED streamVars
  BY <1>3 DEF streamVars
<1> QED BY <1>1, <1>2, <1>3 DEF RecordsNext

\* After drainRecords() what was written, waits and is kept is what there was to drain,
\* or the pair is closed and it is the front of it.
LEMMA DrainLosesNothing ==
    ASSUME RecordsIInv, TypeOK, NEW p \in Pairs, NEW s \in Seq(Rec), NEW out \in Seq(Rec), Drain(p, s, out)
    PROVE  /\ written' \in [Pairs -> Seq(Rec)] /\ waiting' \in [Pairs -> Seq(Rec)]
           /\ pending' \in [Pairs -> Seq(Rec)] /\ paused' \in [Pairs -> BOOLEAN]
           /\ \A q \in Pairs \ {p} :
                 /\ written'[q] = written[q] /\ waiting'[q] = waiting[q] /\ pending'[q] = pending[q]
                 /\ paused'[q] = paused[q] /\ core'[q] = core[q] /\ remote'[q] = remote[q]
           /\ fsdCoreSocket' \in {fsdCoreSocket, NoPair}
           /\ remote'[p] = remote[p] \/ remote'[p] = "destroyed"
           /\ \/ All(p)' = out \o s /\ core'[p] = core[p]
              \/ /\ core'[p] # "open"
                 /\ \E rest \in Seq(Rec) : All(p)' \in Seq(Rec) /\ out \o s = All(p)' \o rest
           /\ waiting'[p] = <<>> \/ \E r \in Rec : waiting'[p] = <<r>>
           /\ MayDrain(p) /\ core'[p] = "open" =>
                 /\ paused'[p] \/ pending'[p] # <<>> => waiting'[p] # <<>>
                 /\ Len(pending'[p]) <= MaxPending
<1> USE DEF RecordsIInv, RecordsTypeOK, TypeOK
<1>0. <<>> \in Seq(Rec) /\ Len(<<>>) = 0
  BY EmptySeq
<1>1. /\ Forwarded(s) \in Seq(Rec) /\ Behind(s) \in Seq(Rec)
      /\ Meets(s) = "end" => s = Forwarded(s)
      /\ Meets(s) # "end" => /\ s[FirstOther(s)] \in Rec
                             /\ s = (Forwarded(s) \o <<s[FirstOther(s)]>>) \o Behind(s)
  BY InputIsCut
<1>2. out \o s \in Seq(Rec) /\ out \o Forwarded(s) \in Seq(Rec)
  BY <1>1, ConcatProperties
<1>3. CASE ~MayDrain(p)
  <2>1. /\ pending' = [pending EXCEPT ![p] = s] /\ written' = [written EXCEPT ![p] = out]
        /\ waiting' = [waiting EXCEPT ![p] = <<>>] /\ paused' = [paused EXCEPT ![p] = @ /\ ~IsCurrent(p)]
        /\ UNCHANGED <<core, remote, fsdCoreSocket>>
    BY <1>3 DEF Drain, fsdVars
  <2>2. All(p)' = out \o s
    <3>1. All(p)' = (out \o <<>>) \o s
      BY <2>1 DEF All
    <3> QED BY <3>1, ConcatEmptySeq
  <2>3. paused' \in [Pairs -> BOOLEAN]
    <3>1. (paused[p] /\ ~IsCurrent(p)) \in BOOLEAN
      OBVIOUS
    <3> QED BY <2>1, <3>1
  <2>4. /\ written' \in [Pairs -> Seq(Rec)] /\ waiting' \in [Pairs -> Seq(Rec)] /\ pending' \in [Pairs -> Seq(Rec)]
        /\ waiting'[p] = <<>>
    BY <1>0, <2>1
  <2>5. \A q \in Pairs \ {p} :
           /\ written'[q] = written[q] /\ waiting'[q] = waiting[q] /\ pending'[q] = pending[q]
           /\ paused'[q] = paused[q] /\ core'[q] = core[q] /\ remote'[q] = remote[q]
    BY <2>1
  <2> QED BY <1>3, <2>1, <2>2, <2>3, <2>4, <2>5
<1>4. CASE MayDrain(p)
  <2>0. written' = [written EXCEPT ![p] = out \o Forwarded(s)] /\ remote[p] = "open" /\ core[p] = "open"
    BY <1>4 DEF Drain, MayDrain
  <2>00. (out \o Forwarded(s)) \o <<>> = out \o Forwarded(s)
    BY <1>2, ConcatEmptySeq
  <2>1. ASSUME Meets(s) = "end",
               pending' = [pending EXCEPT ![p] = <<>>], waiting' = [waiting EXCEPT ![p] = <<>>],
               paused' = [paused EXCEPT ![p] = FALSE], UNCHANGED <<core, remote, fsdCoreSocket>>
        PROVE  All(p)' = out \o s
    <3>1. All(p)' = ((out \o Forwarded(s)) \o <<>>) \o <<>>
      BY <2>0, <2>1 DEF All
    <3> QED BY <1>1, <2>00, <2>1, <3>1
  <2>2. ASSUME Meets(s) = "voice",
               pending' = [pending EXCEPT ![p] = Behind(s)],
               waiting' = [waiting EXCEPT ![p] = <<s[FirstOther(s)]>>]
        PROVE  All(p)' = out \o s /\ <<s[FirstOther(s)]>> \in Seq(Rec) /\ s[FirstOther(s)] \in Rec
    <3>1. All(p)' = ((out \o Forwarded(s)) \o <<s[FirstOther(s)]>>) \o Behind(s)
      BY <2>0, <2>2 DEF All
    <3>2. Meets(s) # "end"
      BY <2>2
    <3>3. /\ s[FirstOther(s)] \in Rec /\ <<s[FirstOther(s)]>> \in Seq(Rec)
          /\ ((out \o Forwarded(s)) \o <<s[FirstOther(s)]>>) \o Behind(s) = out \o s
      BY <3>2, WaitingIsCut, Zenon
    <3> QED BY <3>1, <3>3, Zenon
  <2>3. ASSUME Reject(p), waiting' = [waiting EXCEPT ![p] = <<>>]
        PROVE  /\ core'[p] # "open" /\ core' \in [Pairs -> CoreStates] /\ remote'[p] = "destroyed"
               /\ All(p)' \in Seq(Rec)
               /\ \E rest \in Seq(Rec) : out \o s = All(p)' \o rest
    <3>1. core'[p] = "destroyed" /\ remote'[p] = "destroyed" /\ pending'[p] = <<>> /\ waiting'[p] = <<>>
      BY <2>0, <2>3 DEF Reject, Destroyed
    <3>2. All(p)' = ((out \o Forwarded(s)) \o <<>>) \o <<>>
      BY <2>0, <3>1 DEF All
    <3>3. All(p)' = out \o Forwarded(s)
      BY <2>00, <3>2
    <3>6. \E rest \in Seq(Rec) : out \o s = (out \o Forwarded(s)) \o rest
      BY FrontIsCut
    <3>7. core' \in [Pairs -> CoreStates]
      BY <2>3 DEF Reject, Destroyed, CoreStates
    <3> QED BY <1>2, <3>1, <3>3, <3>6, <3>7
  <2>4. CASE /\ Meets(s) = "end"
             /\ pending' = [pending EXCEPT ![p] = <<>>] /\ waiting' = [waiting EXCEPT ![p] = <<>>]
             /\ paused' = [paused EXCEPT ![p] = FALSE] /\ UNCHANGED <<core, remote, fsdCoreSocket>>
    <3>1. pending'[p] = <<>> /\ paused'[p] = FALSE /\ Len(pending'[p]) <= MaxPending
      BY <1>0, <2>4, RecordsAssumption
    <3>2. /\ written' \in [Pairs -> Seq(Rec)] /\ waiting' \in [Pairs -> Seq(Rec)] /\ pending' \in [Pairs -> Seq(Rec)]
          /\ paused' \in [Pairs -> BOOLEAN] /\ waiting'[p] = <<>>
      BY <1>0, <1>2, <2>0, <2>4
    <3>3. \A q \in Pairs \ {p} :
             /\ written'[q] = written[q] /\ waiting'[q] = waiting[q] /\ pending'[q] = pending[q]
             /\ paused'[q] = paused[q] /\ core'[q] = core[q] /\ remote'[q] = remote[q]
      BY <2>0, <2>4
    <3>4. All(p)' = out \o s
      BY <2>1, <2>4
    <3> QED BY <2>4, <3>1, <3>2, <3>3, <3>4
  <2>5. CASE /\ Meets(s) = "voice" /\ Len(Behind(s)) <= MaxPending
             /\ pending' = [pending EXCEPT ![p] = Behind(s)]
             /\ waiting' = [waiting EXCEPT ![p] = <<s[FirstOther(s)]>>]
             /\ paused' = [paused EXCEPT ![p] = TRUE] /\ UNCHANGED <<core, remote, fsdCoreSocket>>
    <3>1. All(p)' = out \o s /\ <<s[FirstOther(s)]>> \in Seq(Rec) /\ s[FirstOther(s)] \in Rec
      BY <2>2, <2>5
    <3> DEFINE r == s[FirstOther(s)]
    <3>2. waiting' = [waiting EXCEPT ![p] = <<r>>] /\ <<r>> \in Seq(Rec) /\ r \in Rec
      BY <2>5, <3>1
    <3> HIDE DEF r
    <3>3. waiting'[p] = <<r>> /\ pending'[p] = Behind(s) /\ Len(pending'[p]) <= MaxPending /\ waiting'[p] # <<>>
      BY <2>5, <3>2
    <3>4. /\ written' \in [Pairs -> Seq(Rec)] /\ waiting' \in [Pairs -> Seq(Rec)] /\ pending' \in [Pairs -> Seq(Rec)]
          /\ paused' \in [Pairs -> BOOLEAN]
      BY <1>1, <1>2, <2>0, <2>5, <3>2
    <3>5. \A q \in Pairs \ {p} :
             /\ written'[q] = written[q] /\ waiting'[q] = waiting[q] /\ pending'[q] = pending[q]
             /\ paused'[q] = paused[q] /\ core'[q] = core[q] /\ remote'[q] = remote[q]
      BY <2>0, <2>5, <3>2
    <3> QED BY <2>5, <3>1, <3>2, <3>3, <3>4, <3>5
  <2>6. CASE Reject(p) /\ waiting' = [waiting EXCEPT ![p] = <<>>] /\ UNCHANGED paused
    <3>1. /\ core'[p] # "open" /\ remote'[p] = "destroyed" /\ All(p)' \in Seq(Rec)
          /\ \E rest \in Seq(Rec) : out \o s = All(p)' \o rest
      BY <2>3, <2>6
    <3>2. /\ written' \in [Pairs -> Seq(Rec)] /\ waiting' \in [Pairs -> Seq(Rec)] /\ pending' \in [Pairs -> Seq(Rec)]
          /\ paused' \in [Pairs -> BOOLEAN] /\ waiting'[p] = <<>>
      BY <1>0, <1>2, <2>0, <2>6 DEF Reject
    <3>3. \A q \in Pairs \ {p} :
             /\ written'[q] = written[q] /\ waiting'[q] = waiting[q] /\ pending'[q] = pending[q]
             /\ paused'[q] = paused[q] /\ core'[q] = core[q] /\ remote'[q] = remote[q]
      BY <2>0, <2>6 DEF Reject
    <3>4. fsdCoreSocket' \in {fsdCoreSocket, NoPair}
      BY <2>6 DEF Reject
    <3> QED BY <3>1, <3>2, <3>3, <3>4
  <2> QED BY <1>4, <2>4, <2>5, <2>6 DEF Drain
<1> QED BY <1>3, <1>4

LEMMA OneNumber ==
    ASSUME NEW r \in Rec
    PROVE  <<r>> \in Seq(Rec) /\ Numbers(<<r>>) = {r.n} /\ Ordered(<<r>>)
<1>1. <<r>> \in Seq(Rec) /\ DOMAIN <<r>> = {1} /\ <<r>>[1] = r
  OBVIOUS
<1> DEFINE v == <<r>>
<1>2. v \in Seq(Rec) /\ DOMAIN v = {1} /\ v[1] = r
  BY <1>1
<1> HIDE DEF v
<1>3. Numbers(v) = {r.n} /\ Ordered(v)
  BY <1>2 DEF Numbers, Ordered
<1> QED BY <1>2, <1>3 DEF v

\* A withheld reply leaves the others in order.
LEMMA OrderWithoutOne ==
    ASSUME NEW a \in Seq(Rec), NEW r \in Rec, NEW b \in Seq(Rec)
    PROVE  /\ Numbers((a \o <<r>>) \o b) = Numbers(a \o b) \cup {r.n}
           /\ Ordered((a \o <<r>>) \o b) => Ordered(a \o b)
<1> DEFINE v == <<r>>
           c == a \o v
<1>1. v \in Seq(Rec) /\ Numbers(v) = {r.n}
  BY OneNumber
<1>2. c \in Seq(Rec) /\ Numbers(c) = Numbers(a) \cup Numbers(v)
      /\ (Ordered(c) <=> Ordered(a) /\ Ordered(v) /\ AllBelow(Numbers(a), Numbers(v)))
  <2> HIDE DEF v
  <2>1. c \in Seq(Rec)
    BY <1>1, ConcatProperties
  <2> QED BY <1>1, <2>1, NumbersOfConcat, OrderOfConcat
<1> HIDE DEF c
<1>3. Numbers(c \o b) = Numbers(c) \cup Numbers(b)
      /\ (Ordered(c \o b) <=> Ordered(c) /\ Ordered(b) /\ AllBelow(Numbers(c), Numbers(b)))
  BY <1>2, NumbersOfConcat, OrderOfConcat
<1>4. Numbers(a \o b) = Numbers(a) \cup Numbers(b)
      /\ (Ordered(a \o b) <=> Ordered(a) /\ Ordered(b) /\ AllBelow(Numbers(a), Numbers(b)))
  BY NumbersOfConcat, OrderOfConcat
<1>5. Numbers(c \o b) = Numbers(a \o b) \cup {r.n}
  BY <1>1, <1>2, <1>3, <1>4
<1>6. Ordered(c \o b) => Ordered(a \o b)
  BY <1>2, <1>3, <1>4 DEF AllBelow
<1> QED BY <1>5, <1>6 DEF c

\* The numbers of what arrives follow those of what arrived.
LEMMA ChunkFollows ==
    ASSUME RecordsIInv, NEW p \in Pairs, NEW kinds \in SeqOf(Kinds, 2)
    PROVE  LET chunk == [i \in 1..Len(kinds) |-> [n |-> arrived[p] + i, kind |-> kinds[i]]]
           IN  /\ Len(kinds) \in Nat
               /\ chunk \in Seq(Rec) /\ Ordered(chunk)
               /\ Numbers(chunk) = (arrived[p] + 1)..(arrived[p] + Len(kinds))
<1> DEFINE chunk == [i \in 1..Len(kinds) |-> [n |-> arrived[p] + i, kind |-> kinds[i]]]
<1>1. PICK m \in 0..2 : kinds \in [1..m -> Kinds]
  BY DEF SeqOf
<1>2. kinds \in Seq(Kinds)
  <2>1. m \in Nat
    OBVIOUS
  <2> QED BY <1>1, <2>1 DEF Seq
<1>3. Len(kinds) \in Nat /\ \A i \in 1..Len(kinds) : kinds[i] \in Kinds
  BY <1>2, LenProperties, ElementOfSeq
<1>4. arrived[p] \in Nat
  BY DEF RecordsIInv, RecordsTypeOK
<1>5. chunk \in [1..Len(kinds) -> Rec]
  BY <1>3, <1>4 DEF Rec
<1>6. chunk \in Seq(Rec)
  BY <1>3, <1>5 DEF Seq
<1>7. Ordered(chunk)
  BY <1>3, <1>4 DEF Ordered
<1>8. Numbers(chunk) = (arrived[p] + 1)..(arrived[p] + Len(kinds))
  <2>1. Numbers(chunk) = {arrived[p] + i : i \in 1..Len(kinds)}
    BY DEF Numbers
  <2>2. ASSUME NEW k \in (arrived[p] + 1)..(arrived[p] + Len(kinds))
        PROVE  \E i \in 1..Len(kinds) : k = arrived[p] + i
    <3>1. k - arrived[p] \in 1..Len(kinds) /\ k = arrived[p] + (k - arrived[p])
      BY <1>3, <1>4
    <3> QED BY <3>1
  <2>3. \A i \in 1..Len(kinds) : arrived[p] + i \in (arrived[p] + 1)..(arrived[p] + Len(kinds))
    BY <1>3, <1>4
  <2> QED BY <2>1, <2>2, <2>3
<1> QED BY <1>3, <1>6, <1>7, <1>8

LEMMA AllIsSeq ==
    ASSUME RecordsIInv, NEW p \in Pairs
    PROVE  /\ All(p) \in Seq(Rec) /\ written[p] \o waiting[p] \in Seq(Rec)
           /\ written[p] \in Seq(Rec) /\ waiting[p] \in Seq(Rec) /\ pending[p] \in Seq(Rec)
<1>1. written[p] \in Seq(Rec) /\ waiting[p] \in Seq(Rec) /\ pending[p] \in Seq(Rec)
  BY DEF RecordsIInv, RecordsTypeOK
<1>2. (written[p] \o waiting[p]) \o pending[p] \in Seq(Rec) /\ written[p] \o waiting[p] \in Seq(Rec)
  BY <1>1, ConcatOfRecords
<1> QED BY <1>1, <1>2 DEF All

\* What is in order and complete before drainRecords() is so after it.
LEMMA DrainKeeps ==
    ASSUME RecordsIInv, IInv, NEW p \in Pairs, NEW s \in Seq(Rec), NEW out \in Seq(Rec), Drain(p, s, out),
           remote[p] \notin {"unused", "connecting"},
           arrived' \in [Pairs -> Nat], withheld' \in [Pairs -> SUBSET Nat],
           \A q \in Pairs \ {p} : arrived'[q] = arrived[q] /\ withheld'[q] = withheld[q],
           Ordered(out \o s), Numbers(out \o s) \subseteq 1..arrived'[p], withheld'[p] \subseteq 1..arrived'[p],
           BothOpen(p) => 1..arrived'[p] \subseteq Numbers(out \o s) \cup withheld'[p]
    PROVE  RecordsIInv'
<1>1. /\ written' \in [Pairs -> Seq(Rec)] /\ waiting' \in [Pairs -> Seq(Rec)]
      /\ pending' \in [Pairs -> Seq(Rec)] /\ paused' \in [Pairs -> BOOLEAN]
      /\ \A q \in Pairs \ {p} :
            /\ written'[q] = written[q] /\ waiting'[q] = waiting[q] /\ pending'[q] = pending[q]
            /\ paused'[q] = paused[q] /\ core'[q] = core[q] /\ remote'[q] = remote[q]
      /\ fsdCoreSocket' \in {fsdCoreSocket, NoPair}
      /\ remote'[p] = remote[p] \/ remote'[p] = "destroyed"
      /\ \/ All(p)' = out \o s /\ core'[p] = core[p]
         \/ /\ core'[p] # "open"
            /\ \E rest \in Seq(Rec) : All(p)' \in Seq(Rec) /\ out \o s = All(p)' \o rest
      /\ waiting'[p] = <<>> \/ \E r \in Rec : waiting'[p] = <<r>>
      /\ MayDrain(p) /\ core'[p] = "open" =>
            /\ paused'[p] \/ pending'[p] # <<>> => waiting'[p] # <<>>
            /\ Len(pending'[p]) <= MaxPending
  BY DrainLosesNothing DEF IInv
<1>2. RecordsTypeOK'
  BY <1>1 DEF RecordsTypeOK
<1>3. ASSUME NEW q \in Pairs, q # p PROVE Waits(q)' /\ Untouched(q)' /\ InOrder(q)'
  <2>1. SamePair(q) /\ core'[q] = core[q] /\ remote'[q] = remote[q]
    BY <1>1, <1>3 DEF SamePair
  <2>2. fsdCoreSocket' = q => fsdCoreSocket = q
    BY <1>1, NoPairAssumption
  <2> QED BY <2>1, <2>2, RestingKeeps DEF BothOpen, NotReopened
<1>4. Waits(p)'
  <2>1. fsdCoreSocket' = p /\ BothOpen(p)' => MayDrain(p) /\ core'[p] = "open"
    <3> SUFFICES ASSUME fsdCoreSocket' = p, BothOpen(p)' PROVE MayDrain(p) /\ core'[p] = "open"
      OBVIOUS
    <3>1. fsdCoreSocket = p /\ core'[p] = "open" /\ remote[p] = "open"
      BY <1>1, NoPairAssumption DEF BothOpen
    <3>2. core[p] = "open"
      BY <1>1, <3>1
    <3>3. IsCurrent(p)
      BY <3>1, NoPairAssumption DEF IInv, SessionHasOwner, IsCurrent
    <3> QED BY <3>1, <3>2, <3>3 DEF MayDrain
  <2> QED BY <1>1, <2>1 DEF Waits
<1>5. Untouched(p)'
  BY <1>1 DEF Untouched
<1>6. InOrder(p)'
  <2>1. CASE All(p)' = out \o s /\ core'[p] = core[p]
    <3>1. BothOpen(p)' => BothOpen(p)
      BY <1>1, <2>1 DEF BothOpen
    <3> QED BY <2>1, <3>1 DEF InOrder
  <2>2. CASE /\ core'[p] # "open"
             /\ \E rest \in Seq(Rec) : All(p)' \in Seq(Rec) /\ out \o s = All(p)' \o rest
    <3>1. PICK rest \in Seq(Rec) : All(p)' \in Seq(Rec) /\ out \o s = All(p)' \o rest
      BY <2>2
    <3> DEFINE a == All(p)'
    <3>2. a \in Seq(Rec) /\ out \o s = a \o rest
      BY <3>1
    <3> HIDE DEF a
    <3>3. a \in Seq(Rec)
      BY <3>2
    <3>4. /\ Numbers(a \o rest) = Numbers(a) \cup Numbers(rest)
          /\ Ordered(a \o rest) => Ordered(a)
      BY <3>3, NumbersOfConcat, OrderOfConcat
    <3>5. Ordered(a) /\ Numbers(a) \subseteq 1..arrived'[p]
      BY <3>2, <3>4, Zenon
    <3>6. ~BothOpen(p)'
      BY <2>2 DEF BothOpen
    <3>7. Ordered(All(p))' /\ Numbers(All(p))' \subseteq 1..arrived'[p]
      BY <3>5 DEF a, Ordered, Numbers
    <3> QED BY <3>6, <3>7 DEF InOrder
  <2> QED BY <1>1, <2>1, <2>2
<1>7. \A q \in Pairs : Waits(q)' /\ Untouched(q)' /\ InOrder(q)'
  BY <1>3, <1>4, <1>5, <1>6
<1> QED BY <1>2, <1>7 DEF RecordsIInv

\* What is there and what arrives is in order and complete.
LEMMA ArrivalsFollow ==
    ASSUME RecordsIInv, NEW p \in Pairs, NEW kinds \in SeqOf(Kinds, 2), NEW chunk,
           chunk = [i \in 1..Len(kinds) |-> [n |-> arrived[p] + i, kind |-> kinds[i]]]
    PROVE  /\ arrived[p] + Len(kinds) \in Nat
           /\ chunk \in Seq(Rec) /\ All(p) \o chunk \in Seq(Rec) /\ pending[p] \o chunk \in Seq(Rec)
           /\ All(p) \o chunk = (written[p] \o waiting[p]) \o (pending[p] \o chunk)
           /\ Ordered(All(p) \o chunk)
           /\ Numbers(All(p) \o chunk) \subseteq 1..(arrived[p] + Len(kinds))
           /\ withheld[p] \subseteq 1..(arrived[p] + Len(kinds))
           /\ BothOpen(p) => 1..(arrived[p] + Len(kinds)) \subseteq Numbers(All(p) \o chunk) \cup withheld[p]
<1>1. /\ Len(kinds) \in Nat /\ chunk \in Seq(Rec) /\ Ordered(chunk)
      /\ Numbers(chunk) = (arrived[p] + 1)..(arrived[p] + Len(kinds))
  BY ChunkFollows
<1>2. arrived[p] \in Nat
  BY DEF RecordsIInv, RecordsTypeOK
<1> DEFINE a == All(p)
           b == written[p] \o waiting[p]
           c == pending[p]
<1>3. a \in Seq(Rec) /\ b \in Seq(Rec) /\ c \in Seq(Rec)
  BY AllIsSeq
<1>4. a = b \o c
  BY DEF All
<1>5. /\ Ordered(a) /\ Numbers(a) \subseteq 1..arrived[p] /\ withheld[p] \subseteq 1..arrived[p]
      /\ BothOpen(p) => 1..arrived[p] \subseteq Numbers(a) \cup withheld[p]
  BY DEF RecordsIInv, InOrder
<1> HIDE DEF a, b, c
<1>6. a \o chunk \in Seq(Rec) /\ c \o chunk \in Seq(Rec) /\ (b \o c) \o chunk = b \o (c \o chunk)
  <2>1. a \in Seq(Rec) /\ chunk \in Seq(Rec)
    BY <1>1, <1>3
  <2>2. a \o chunk \in Seq(Rec)
    BY <2>1, ConcatProperties
  <2>3. chunk \in Seq(Rec)
    BY <1>1
  <2>4. c \o chunk \in Seq(Rec) /\ (b \o c) \o chunk = b \o (c \o chunk)
    <3>1. b \in Recs /\ c \in Recs /\ chunk \in Recs
      BY <1>3, <2>3 DEF Recs
    <3>2. Cat(Cat(b, c), chunk) = Cat(b, Cat(c, chunk)) /\ Cat(c, chunk) \in Recs
      BY <3>1, CatAssociates
    <3> QED BY <3>2 DEF Cat, Recs
  <2> QED BY <2>2, <2>4
<1>7. a \o chunk = b \o (c \o chunk)
  BY <1>4, <1>6, Zenon
<1>8. /\ Numbers(a \o chunk) = Numbers(a) \cup Numbers(chunk)
      /\ Ordered(a \o chunk) <=> Ordered(a) /\ Ordered(chunk) /\ AllBelow(Numbers(a), Numbers(chunk))
  <2>1. a \in Seq(Rec) /\ chunk \in Seq(Rec)
    BY <1>1, <1>3
  <2>2. Numbers(a \o chunk) = Numbers(a) \cup Numbers(chunk)
    BY <2>1, NumbersOfConcat
  <2>3. Ordered(a \o chunk) <=> Ordered(a) /\ Ordered(chunk) /\ AllBelow(Numbers(a), Numbers(chunk))
    BY <2>1, OrderOfConcat
  <2> QED BY <2>2, <2>3
<1>9. AllBelow(Numbers(a), Numbers(chunk))
  BY <1>1, <1>2, <1>5 DEF AllBelow
<1>10. 1..(arrived[p] + Len(kinds)) = (1..arrived[p]) \cup ((arrived[p] + 1)..(arrived[p] + Len(kinds)))
  BY <1>1, <1>2
<1>11. Ordered(a \o chunk)
  BY <1>1, <1>5, <1>8, <1>9
<1>12. Numbers(a \o chunk) \subseteq 1..(arrived[p] + Len(kinds))
       /\ withheld[p] \subseteq 1..(arrived[p] + Len(kinds))
       /\ (BothOpen(p) => 1..(arrived[p] + Len(kinds)) \subseteq Numbers(a \o chunk) \cup withheld[p])
  BY <1>1, <1>5, <1>8, <1>10
<1>13. arrived[p] + Len(kinds) \in Nat
  BY <1>1, <1>2
<1> QED BY <1>1, <1>6, <1>7, <1>11, <1>12, <1>13 DEF a, b, c

LEMMA DataKeeps ==
    ASSUME RecordsIInv, IInv, NEW p \in Pairs, NEW kinds \in SeqOf(Kinds, 2), RemoteData(p, kinds)
    PROVE  RecordsIInv'
<1> DEFINE chunk == [i \in 1..Len(kinds) |-> [n |-> arrived[p] + i, kind |-> kinds[i]]]
           input == pending[p] \o chunk
<1>1. /\ arrived[p] + Len(kinds) \in Nat
      /\ chunk \in Seq(Rec) /\ All(p) \o chunk \in Seq(Rec) /\ input \in Seq(Rec)
      /\ All(p) \o chunk = (written[p] \o waiting[p]) \o input
      /\ Ordered(All(p) \o chunk)
      /\ Numbers(All(p) \o chunk) \subseteq 1..(arrived[p] + Len(kinds))
      /\ withheld[p] \subseteq 1..(arrived[p] + Len(kinds))
      /\ BothOpen(p) => 1..(arrived[p] + Len(kinds)) \subseteq Numbers(All(p) \o chunk) \cup withheld[p]
  <2> HIDE DEF chunk
  <2>1. chunk = [i \in 1..Len(kinds) |-> [n |-> arrived[p] + i, kind |-> kinds[i]]]
    BY DEF chunk
  <2> QED BY <2>1, ArrivalsFollow
<1>2. /\ remote[p] = "open" /\ withheld' = withheld
      /\ arrived' = [arrived EXCEPT ![p] = @ + Len(kinds)]
      /\ waiting[p] = <<>> => Drain(p, input, written[p])
      /\ waiting[p] # <<>> =>
            /\ IF Len(input) > MaxPending THEN Reject(p)
               ELSE pending' = [pending EXCEPT ![p] = input] /\ UNCHANGED fsdVars
            /\ UNCHANGED <<waiting, paused, written>>
  BY DEF RemoteData
<1> HIDE DEF chunk, input
<1>3. /\ written[p] \in Seq(Rec) /\ waiting[p] \in Seq(Rec) /\ pending[p] \in Seq(Rec) /\ All(p) \in Seq(Rec)
      /\ written[p] \o waiting[p] \in Seq(Rec) /\ input \in Seq(Rec)
  BY <1>1, AllIsSeq
<1>4. /\ arrived' \in [Pairs -> Nat] /\ withheld' \in [Pairs -> SUBSET Nat]
      /\ arrived'[p] = arrived[p] + Len(kinds) /\ withheld'[p] = withheld[p]
      /\ \A q \in Pairs \ {p} : arrived'[q] = arrived[q] /\ withheld'[q] = withheld[q]
  <2> DEFINE total == arrived[p] + Len(kinds)
  <2>1. total \in Nat /\ arrived' = [arrived EXCEPT ![p] = total]
    BY <1>1, <1>2
  <2> HIDE DEF total
  <2>2. arrived' \in [Pairs -> Nat] /\ arrived'[p] = total /\ \A q \in Pairs \ {p} : arrived'[q] = arrived[q]
    BY <2>1 DEF RecordsIInv, RecordsTypeOK
  <2> QED BY <1>2, <2>2 DEF RecordsIInv, RecordsTypeOK, total
<1>5. CASE waiting[p] = <<>>
  <2>1. (written[p] \o waiting[p]) \o input = written[p] \o input
    <3>1. written[p] \o <<>> = written[p]
      BY <1>3, ConcatEmptySeq
    <3> QED BY <1>5, <3>1, Zenon
  <2>2. All(p) \o chunk = written[p] \o input
    BY <1>1, <2>1, Zenon
  <2>3. /\ Ordered(written[p] \o input) /\ Numbers(written[p] \o input) \subseteq 1..arrived'[p]
        /\ withheld'[p] \subseteq 1..arrived'[p]
        /\ BothOpen(p) => 1..arrived'[p] \subseteq Numbers(written[p] \o input) \cup withheld'[p]
    BY <1>1, <1>4, <2>2, Zenon
  <2>4. Drain(p, input, written[p]) /\ remote[p] \notin {"unused", "connecting"}
    BY <1>2, <1>5
  <2> QED BY <1>3, <1>4, <2>3, <2>4, DrainKeeps, Zenon
<1>6. CASE waiting[p] # <<>>
  <2>0. UNCHANGED <<waiting, paused, written>>
    BY <1>2, <1>6
  <2>1. CASE Len(input) > MaxPending
    <3>1. /\ Reject(p) /\ pending' = [pending EXCEPT ![p] = <<>>]
          /\ core' = [core EXCEPT ![p] = Destroyed(@)] /\ remote' = [remote EXCEPT ![p] = Destroyed(@)]
      BY <1>2, <1>6, <2>1 DEF Reject
    <3>2. core'[p] # "open" /\ remote'[p] = "destroyed"
      BY <1>2, <3>1 DEF IInv, TypeOK, Destroyed
    <3>3. fsdCoreSocket' = fsdCoreSocket \/ fsdCoreSocket' = NoPair
      BY <3>1 DEF Reject
    <3>4. RecordsTypeOK'
      <4>1. <<>> \in Seq(Rec)
        BY EmptySeq
      <4> QED BY <1>4, <2>0, <3>1, <4>1 DEF RecordsIInv, RecordsTypeOK
    <3>5. ASSUME NEW q \in Pairs, q # p PROVE Waits(q)' /\ Untouched(q)' /\ InOrder(q)'
      <4>1. SamePair(q) /\ core'[q] = core[q] /\ remote'[q] = remote[q]
        BY <1>4, <2>0, <3>1, <3>5 DEF SamePair, RecordsIInv, RecordsTypeOK, IInv, TypeOK
      <4>2. fsdCoreSocket' = q => fsdCoreSocket = q
        BY <3>3, NoPairAssumption
      <4> QED BY <4>1, <4>2, RestingKeeps DEF BothOpen, NotReopened
    <3>6. Waits(p)' /\ Untouched(p)'
      BY <2>0, <3>2 DEF RecordsIInv, Waits, Untouched, BothOpen
    <3>7. InOrder(p)'
      <4> DEFINE a == written[p] \o waiting[p]
      <4>1. a \in Seq(Rec)
        BY <1>3
      <4>2. All(p)' = a
        <5>1. pending'[p] = <<>>
          BY <3>1 DEF RecordsIInv, RecordsTypeOK
        <5>2. All(p)' = a \o <<>>
          BY <2>0, <5>1 DEF All
        <5> HIDE DEF a
        <5>3. a \o <<>> = a
          BY <4>1, ConcatEmptySeq
        <5> QED BY <5>2, <5>3, Zenon
      <4>3. All(p) \o chunk = a \o input
        BY <1>1
      <4> HIDE DEF a
      <4>4. a \in Seq(Rec) /\ input \in Seq(Rec)
        BY <1>3, <4>1
      <4>5. Numbers(a \o input) = Numbers(a) \cup Numbers(input) /\ (Ordered(a \o input) => Ordered(a))
        BY <4>4, NumbersOfConcat, OrderOfConcat
      <4>6. Ordered(a) /\ Numbers(a) \subseteq 1..arrived'[p] /\ withheld'[p] \subseteq 1..arrived'[p]
        BY <1>1, <1>4, <4>3, <4>5
      <4>7. Ordered(All(p))' /\ Numbers(All(p))' \subseteq 1..arrived'[p]
        BY <4>2, <4>6 DEF Ordered, Numbers
      <4>8. ~BothOpen(p)'
        BY <3>2 DEF BothOpen
      <4> QED BY <4>6, <4>7, <4>8 DEF InOrder
    <3> QED BY <3>4, <3>5, <3>6, <3>7 DEF RecordsIInv
  <2>2. CASE ~(Len(input) > MaxPending)
    <3>1. pending' = [pending EXCEPT ![p] = input] /\ UNCHANGED fsdVars
      BY <1>2, <1>6, <2>2
    <3>2. UNCHANGED <<core, remote, fsdCoreSocket>>
      BY <3>1 DEF fsdVars
    <3>3. RecordsTypeOK'
      BY <1>3, <1>4, <2>0, <3>1 DEF RecordsIInv, RecordsTypeOK
    <3>4. ASSUME NEW q \in Pairs, q # p PROVE Waits(q)' /\ Untouched(q)' /\ InOrder(q)'
      <4>1. SamePair(q) /\ core'[q] = core[q] /\ remote'[q] = remote[q]
        BY <1>4, <2>0, <3>1, <3>2, <3>4 DEF SamePair, RecordsIInv, RecordsTypeOK, IInv, TypeOK
      <4> QED BY <3>2, <4>1, RestingKeeps DEF BothOpen, NotReopened
    <3>5. pending'[p] = input
      BY <3>1 DEF RecordsIInv, RecordsTypeOK
    <3>6. Len(input) <= MaxPending
      <4>1. Len(input) \in Nat
        BY <1>3, LenProperties
      <4> QED BY <2>2, <4>1, RecordsAssumption
    <3>7. Waits(p)' /\ Untouched(p)'
      BY <1>2, <1>6, <2>0, <3>2, <3>5, <3>6 DEF RecordsIInv, Waits, Untouched
    <3>8. InOrder(p)'
      <4> DEFINE a == All(p) \o chunk
      <4>1. All(p)' = a
        BY <1>1, <2>0, <3>5, Zenon DEF All
      <4>2. /\ Ordered(a) /\ Numbers(a) \subseteq 1..arrived'[p] /\ withheld'[p] \subseteq 1..arrived'[p]
            /\ BothOpen(p) => 1..arrived'[p] \subseteq Numbers(a) \cup withheld'[p]
        BY <1>1, <1>4, Zenon
      <4> HIDE DEF a
      <4>3. BothOpen(p)' = BothOpen(p)
        BY <3>2 DEF BothOpen
      <4>4. Ordered(All(p))' /\ Numbers(All(p))' = Numbers(a)
        BY <4>1, <4>2 DEF Ordered, Numbers
      <4> QED BY <4>2, <4>3, <4>4 DEF InOrder
    <3> QED BY <3>3, <3>4, <3>7, <3>8 DEF RecordsIInv
  <2> QED BY <2>1, <2>2
<1> QED BY <1>5, <1>6

LEMMA AnswerKeeps ==
    ASSUME RecordsIInv, IInv, NEW p \in Pairs, NEW ok \in BOOLEAN, EndpointAnswers(p, ok)
    PROVE  RecordsIInv'
<1> DEFINE sent == ok /\ IsCurrent(p) /\ core[p] = "open"
           out == IF sent THEN written[p] \o waiting[p] ELSE written[p]
           was == pending[p]
<1>1. /\ waiting[p] # <<>> /\ arrived' = arrived
      /\ withheld' = [withheld EXCEPT ![p] = IF sent THEN @ ELSE @ \cup {waiting[p][1].n}]
      /\ Drain(p, was, out)
  BY DEF EndpointAnswers
<1>2. PICK r \in Rec : waiting[p] = <<r>>
  BY <1>1 DEF RecordsIInv, Waits
<1>3. waiting[p][1] = r /\ r.n \in Nat
  BY <1>2 DEF Rec
<1>4. /\ written[p] \in Seq(Rec) /\ waiting[p] \in Seq(Rec) /\ was \in Seq(Rec) /\ All(p) \in Seq(Rec)
      /\ written[p] \o waiting[p] \in Seq(Rec)
  BY AllIsSeq
<1>5. /\ Ordered(All(p)) /\ Numbers(All(p)) \subseteq 1..arrived[p] /\ withheld[p] \subseteq 1..arrived[p]
      /\ BothOpen(p) => 1..arrived[p] \subseteq Numbers(All(p)) \cup withheld[p]
  BY DEF RecordsIInv, InOrder
<1>6. remote[p] \notin {"unused", "connecting"}
  BY <1>1 DEF RecordsIInv, Untouched
<1>7. arrived' \in [Pairs -> Nat] /\ \A q \in Pairs \ {p} : arrived'[q] = arrived[q]
  BY <1>1 DEF RecordsIInv, RecordsTypeOK
<1>8. CASE sent
  <2>1. withheld' = [withheld EXCEPT ![p] = withheld[p]] /\ out = written[p] \o waiting[p]
    BY <1>1, <1>8
  <2>2. withheld' \in [Pairs -> SUBSET Nat] /\ \A q \in Pairs : withheld'[q] = withheld[q]
    BY <2>1 DEF RecordsIInv, RecordsTypeOK
  <2>3. out \o was = All(p) /\ out \in Seq(Rec)
    BY <1>4, <2>1 DEF All
  <2> HIDE DEF sent, out, was
  <2>4. /\ Ordered(out \o was) /\ Numbers(out \o was) \subseteq 1..arrived'[p]
        /\ withheld'[p] \subseteq 1..arrived'[p]
        /\ BothOpen(p) => 1..arrived'[p] \subseteq Numbers(out \o was) \cup withheld'[p]
    BY <1>1, <1>5, <2>2, <2>3
  <2>5. \A q \in Pairs \ {p} : arrived'[q] = arrived[q] /\ withheld'[q] = withheld[q]
    BY <1>7, <2>2
  <2> QED BY <1>1, <1>4, <1>6, <1>7, <2>2, <2>3, <2>4, <2>5, DrainKeeps, Zenon
<1>9. CASE ~sent
  <2>1. withheld' = [withheld EXCEPT ![p] = withheld[p] \cup {r.n}] /\ out = written[p]
    BY <1>1, <1>3, <1>9
  <2>2. /\ withheld' \in [Pairs -> SUBSET Nat] /\ withheld'[p] = withheld[p] \cup {r.n}
        /\ \A q \in Pairs \ {p} : withheld'[q] = withheld[q]
    BY <1>3, <2>1 DEF RecordsIInv, RecordsTypeOK
  <2>3. out \in Seq(Rec) /\ (out \o <<r>>) \o was = All(p)
    BY <1>2, <1>4, <2>1 DEF All
  <2> HIDE DEF sent, out, was
  <2>4. /\ Numbers((out \o <<r>>) \o was) = Numbers(out \o was) \cup {r.n}
        /\ Ordered((out \o <<r>>) \o was) => Ordered(out \o was)
    <3>1. out \in Seq(Rec) /\ was \in Seq(Rec)
      BY <1>4, <2>3
    <3> QED BY <3>1, OrderWithoutOne
  <2>5. Numbers(All(p)) = Numbers(out \o was) \cup {r.n} /\ Ordered(out \o was)
    BY <1>5, <2>3, <2>4, Zenon
  <2>6. /\ Numbers(out \o was) \subseteq 1..arrived'[p] /\ withheld'[p] \subseteq 1..arrived'[p]
        /\ BothOpen(p) => 1..arrived'[p] \subseteq Numbers(out \o was) \cup withheld'[p]
    BY <1>1, <1>5, <2>2, <2>5
  <2>7. \A q \in Pairs \ {p} : arrived'[q] = arrived[q] /\ withheld'[q] = withheld[q]
    BY <1>7, <2>2
  <2>8. out \in Seq(Rec) /\ was \in Seq(Rec)
    BY <1>4, <2>3
  <2> QED BY <1>1, <1>6, <1>7, <2>2, <2>5, <2>6, <2>7, <2>8, DrainKeeps, Zenon
<1> QED BY <1>8, <1>9

\* A step of the sessions alone.
LEMMA SessionKeeps ==
    ASSUME RecordsIInv, IInv, [Next]_fsdVars, UNCHANGED recordVars
    PROVE  RecordsIInv'
<1>1. RecordsTypeOK' /\ \A q \in Pairs : SamePair(q)
  BY DEF RecordsIInv, RecordsTypeOK, SamePair, recordVars
<1>2. ASSUME NEW q \in Pairs
      PROVE  NotReopened(q)
  <2> USE DEF IInv, TypeOK, BothOpen, NotReopened
  <2>1. ASSUME NEW p \in Pairs, CoreConnects(p) PROVE NotReopened(q)
    BY <2>1 DEF CoreConnects, UnusedHaveNoId
  <2>2. ASSUME NEW p \in Pairs, StaleRemoteConnects(p) \/ RemoteConnects(p) \/ LineArrives(p)
        PROVE  NotReopened(q)
    BY <2>2 DEF StaleRemoteConnects, RemoteConnects, LineArrives
  <2>3. ASSUME NEW p \in Pairs, PeerLeaves(p) PROVE NotReopened(q)
    BY <2>3 DEF PeerLeaves
  <2>4. ASSUME NEW p \in Pairs, CloseStep(p) PROVE NotReopened(q)
    <3>1. Closing(p)
      BY <2>4 DEF CloseStep, StaleClose, EndSession
    <3>2. fsdCoreSocket' = fsdCoreSocket \/ fsdCoreSocket' = NoPair
      BY <2>4 DEF CloseStep, StaleClose, EndSession
    <3>3. /\ \A t \in Pairs : t # p => core'[t] = core[t] /\ remote'[t] = remote[t]
          /\ core'[p] # "open" /\ remote'[p] \notin {"connecting", "open"}
          /\ remote'[p] = "unused" <=> remote[p] = "unused"
      BY <3>1, ClosingFacts
    <3> QED BY <3>2, <3>3, NoPairAssumption
  <2>5. CASE UNCHANGED fsdVars
    BY <2>5 DEF fsdVars
  <2> QED BY <2>1, <2>2, <2>3, <2>4, <2>5 DEF Next
<1>3. ASSUME NEW q \in Pairs PROVE Waits(q)' /\ Untouched(q)' /\ InOrder(q)'
  BY <1>1, <1>2, RestingKeeps
<1> QED BY <1>1, <1>3 DEF RecordsIInv

LEMMA RecordsStep == RecordsIInv /\ IInv /\ [RecordsNext]_streamVars => RecordsIInv'
<1> SUFFICES ASSUME RecordsIInv, IInv, [RecordsNext]_streamVars PROVE RecordsIInv'
  OBVIOUS
<1>1. CASE Next /\ UNCHANGED recordVars
  BY <1>1, SessionKeeps
<1>2. ASSUME NEW p \in Pairs, NEW kinds \in SeqOf(Kinds, 2) \ {<<>>}, RemoteData(p, kinds)
      PROVE  RecordsIInv'
  BY <1>2, DataKeeps
<1>3. ASSUME NEW p \in Pairs, NEW ok \in BOOLEAN, EndpointAnswers(p, ok) PROVE RecordsIInv'
  BY <1>3, AnswerKeeps
<1>4. CASE UNCHANGED streamVars
  <2>1. UNCHANGED fsdVars /\ UNCHANGED recordVars
    BY <1>4 DEF streamVars
  <2> QED BY <2>1, SessionKeeps
<1> QED BY <1>1, <1>2, <1>3, <1>4 DEF RecordsNext

\* The record stream adds nothing to what the sessions may do: what is proved of
\* FsdSession holds of the FSD proxy with its records.
THEOREM RecordsKeepSessions == RecordsSpec => Spec
<1>1. RecordsInit => Init
  BY DEF RecordsInit
<1>2. IInv => TypeOK
  BY DEF IInv
<1> QED BY <1>1, <1>2, RecordsStepIsFsdStep, InitInv, NextInv, PTL DEF RecordsSpec, Spec

\* Records reach PilotCore in IVAO's order, and none is missing but the replies that
\* were withheld, for any number of pairs and any limits.
THEOREM RecordsStayInOrder == RecordsSpec => []OrderKept
<1>1. RecordsIInv => OrderKept
  <2> SUFFICES ASSUME RecordsIInv, NEW p \in Pairs
               PROVE  LET all == written[p] \o waiting[p] \o pending[p] IN
                      /\ \A i, j \in DOMAIN all : i < j => all[i].n < all[j].n
                      /\ MayDrain(p) => Numbers(all) \cup withheld[p] = 1..arrived[p]
    BY DEF OrderKept
  <2>1. InOrder(p)
    BY DEF RecordsIInv
  <2> QED BY <2>1 DEF InOrder, Ordered, All, MayDrain, BothOpen
<1>2. RecordsInit => Init
  BY DEF RecordsInit
<1>3. IInv => TypeOK
  BY DEF IInv
<1> QED BY <1>1, <1>2, <1>3, RecordsInitHolds, RecordsStep, RecordsStepIsFsdStep, InitInv, NextInv, PTL
        DEF RecordsSpec

\* The socket of the session's own pair is not left paused, and its input not kept,
\* without a reply that is waited for.
THEOREM SessionsNeverStall == RecordsSpec => []NeverStalls
<1>1. RecordsIInv => NeverStalls
  BY DEF RecordsIInv, Waits, NeverStalls, MayDrain, BothOpen
<1>2. RecordsInit => Init
  BY DEF RecordsInit
<1>3. IInv => TypeOK
  BY DEF IInv
<1> QED BY <1>1, <1>2, <1>3, RecordsInitHolds, RecordsStep, RecordsStepIsFsdStep, InitInv, NextInv, PTL
        DEF RecordsSpec
=============================================================================
