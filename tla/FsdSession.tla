----------------------------- MODULE FsdSession -----------------------------
(***************************************************************************)
(* The FSD proxy's sessions (proxy/fsd-proxy.js).  PilotCore opens a TCP   *)
(* connection, the proxy opens one to IVAO, and the two form a pair that   *)
(* lives and dies together.  The newest pair is the current session; an    *)
(* older pair may still be open and its events may still be on their way.  *)
(*                                                                         *)
(* One action is one socket event.  A destroyed socket emits its close     *)
(* event in a later turn of the event loop, after other sockets' events.   *)
(***************************************************************************)
EXTENDS Integers

CONSTANTS
    Pairs,   \* connections of PilotCore, each with its connection to IVAO
    NoPair   \* null

ASSUME NoPairAssumption == NoPair \notin Pairs

VARIABLES
    core,                   \* the coreSocket of each pair
    remote,                 \* the remote socket of each pair
    sessionOf,              \* sessionId in the closures of each pair
    activeSessionId,        \* activeSessionId
    confirmedIvaoSessionId, \* confirmedIvaoSessionId
    fsdCoreSocket,          \* fsdCoreSocket, as the pair it belongs to
    ivaoSocket,             \* ivaoSocket, as the pair it belongs to
    connected               \* connected of app-state.js, as the browsers see it

fsdVars == <<core, remote, sessionOf, activeSessionId, confirmedIvaoSessionId,
             fsdCoreSocket, ivaoSocket, connected>>

\* "destroyed": the close event has not been delivered yet.
CoreStates   == {"unused", "open", "destroyed", "closed"}
RemoteStates == CoreStates \cup {"connecting"}

TypeOK ==
    /\ core \in [Pairs -> CoreStates]
    /\ remote \in [Pairs -> RemoteStates]
    /\ sessionOf \in [Pairs -> Nat]
    /\ activeSessionId \in Nat
    /\ confirmedIvaoSessionId \in Nat
    /\ fsdCoreSocket \in Pairs \cup {NoPair}
    /\ ivaoSocket \in Pairs \cup {NoPair}
    /\ connected \in BOOLEAN

Init ==
    /\ core = [p \in Pairs |-> "unused"]
    /\ remote = [p \in Pairs |-> "unused"]
    /\ sessionOf = [p \in Pairs |-> 0]
    /\ activeSessionId = 0
    /\ confirmedIvaoSessionId = 0
    /\ fsdCoreSocket = NoPair
    /\ ivaoSocket = NoPair
    /\ connected = FALSE

\* isConnected: a socket that is destroyed no longer counts.
IsConnected == ivaoSocket # NoPair /\ remote[ivaoSocket] = "open"

\* Fault: only a session that reached IVAO is compared.
IsConfirmed(p) == sessionOf[p] = confirmedIvaoSessionId

\* The guard of every late callback.
IsCurrent(p) == sessionOf[p] = activeSessionId

\* destroyIfOpen
Destroyed(socket) == IF socket \in {"open", "connecting"} THEN "destroyed" ELSE socket

-----------------------------------------------------------------------------
\* createServer's callback: a new pair becomes the current session at once.
CoreConnects(p) ==
    /\ core[p] = "unused"
    /\ core' = [core EXCEPT ![p] = "open"]
    /\ remote' = [remote EXCEPT ![p] = "connecting"]
    /\ activeSessionId' = activeSessionId + 1
    /\ sessionOf' = [sessionOf EXCEPT ![p] = activeSessionId + 1]
    /\ fsdCoreSocket' = p
    /\ connected' = TRUE
    /\ UNCHANGED <<confirmedIvaoSessionId, ivaoSocket>>

\* createConnection's callback for a pair that was replaced while it waited.
StaleRemoteConnects(p) ==
    /\ remote[p] = "connecting"
    /\ ~IsCurrent(p)
    /\ remote' = [remote EXCEPT ![p] = "destroyed"]
    /\ UNCHANGED <<core, sessionOf, activeSessionId, confirmedIvaoSessionId,
                   fsdCoreSocket, ivaoSocket, connected>>

\* Fault: the session is not remembered as one that reached IVAO.
RemoteConnectsUnnoted(p) ==
    /\ remote[p] = "connecting"
    /\ IsCurrent(p)
    /\ remote' = [remote EXCEPT ![p] = "open"]
    /\ ivaoSocket' = p
    /\ UNCHANGED <<core, sessionOf, activeSessionId, confirmedIvaoSessionId, fsdCoreSocket,
                   connected>>

\* createConnection's callback for the current session; onConnected follows.
RemoteConnects(p) ==
    /\ remote[p] = "connecting"
    /\ IsCurrent(p)
    /\ remote' = [remote EXCEPT ![p] = "open"]
    /\ ivaoSocket' = p
    /\ confirmedIvaoSessionId' = sessionOf[p]
    /\ UNCHANGED <<core, sessionOf, activeSessionId, fsdCoreSocket, connected>>

\* The peer ends, resets or refuses a connection; Node destroys the socket.
PeerLeaves(p) ==
    /\ \/ core[p] = "open" /\ core' = [core EXCEPT ![p] = "destroyed"] /\ UNCHANGED remote
       \/ /\ remote[p] \in {"connecting", "open"}
          /\ remote' = [remote EXCEPT ![p] = "destroyed"]
          /\ UNCHANGED core
    /\ UNCHANGED <<sessionOf, activeSessionId, confirmedIvaoSessionId,
                   fsdCoreSocket, ivaoSocket, connected>>

\* What calls close(): a close event, or rejectOversizedLine.  The sockets it
\* leaves, before the two destroyIfOpen.
Closing(p) ==
    \/ /\ core[p] = "destroyed"
       /\ core' = [core EXCEPT ![p] = "closed"]
       /\ remote' = [remote EXCEPT ![p] = Destroyed(@)]
    \/ /\ remote[p] = "destroyed"
       /\ remote' = [remote EXCEPT ![p] = "closed"]
       /\ core' = [core EXCEPT ![p] = Destroyed(@)]
    \/ /\ remote[p] = "open"
       /\ core' = [core EXCEPT ![p] = Destroyed(@)]
       /\ remote' = [remote EXCEPT ![p] = "destroyed"]

\* close() of a pair that is not the current session.
StaleClose(p) ==
    /\ ~IsCurrent(p)
    /\ Closing(p)
    /\ UNCHANGED <<sessionOf, activeSessionId, confirmedIvaoSessionId,
                   fsdCoreSocket, ivaoSocket, connected>>

\* The wasConnected that onClose is told.
WasConnected(p) == confirmedIvaoSessionId = sessionOf[p]

\* close() of the current session; onClose follows.
EndSession(p) ==
    /\ IsCurrent(p)
    /\ Closing(p)
    /\ activeSessionId' = 0
    /\ confirmedIvaoSessionId' = 0
    /\ fsdCoreSocket' = NoPair
    /\ ivaoSocket' = NoPair
    /\ connected' = FALSE
    /\ UNCHANGED sessionOf

\* handleFsdLine: PilotCore's lines count on every open pair, whichever session
\* is current.  drainRecords takes IVAO's only while that socket is open too.
LineArrives(p) ==
    /\ core[p] = "open"
    /\ connected' = TRUE
    /\ UNCHANGED <<core, remote, sessionOf, activeSessionId, confirmedIvaoSessionId,
                   fsdCoreSocket, ivaoSocket>>

-----------------------------------------------------------------------------
CloseStep(p) == StaleClose(p) \/ EndSession(p)

Next == \E p \in Pairs :
    \/ CoreConnects(p)
    \/ StaleRemoteConnects(p)
    \/ RemoteConnects(p)
    \/ PeerLeaves(p)
    \/ CloseStep(p)
    \/ LineArrives(p)

Spec == Init /\ [][Next]_fsdVars

\* Node delivers the close event of every destroyed socket.
CloseEvent(p) == "destroyed" \in {core[p], remote[p]} /\ CloseStep(p)
FairSpec == Spec /\ \A p \in Pairs : WF_fsdVars(CloseEvent(p))

-----------------------------------------------------------------------------
(***************************************************************************)
(* Properties.                                                             *)
(***************************************************************************)

\* The session that counts as current always has the pair that opened it, the
\* browsers see it as connected, and that pair's close event is still to come,
\* so the session cannot be left behind as "connected" with nothing to end it.
\* Without a session nothing remains to send commands to.
SessionHasOwner ==
    IF activeSessionId = 0
    THEN fsdCoreSocket = NoPair /\ ivaoSocket = NoPair /\ confirmedIvaoSessionId = 0
    ELSE /\ fsdCoreSocket # NoPair
         /\ sessionOf[fsdCoreSocket] = activeSessionId
         /\ core[fsdCoreSocket] \in {"open", "destroyed"}
         /\ connected

\* Neither side of a pair outlives the other, also when the pair was replaced
\* while it was open: PilotCore never talks to a connection that leads nowhere.
PairsCloseTogether ==
    \A p \in Pairs : "closed" \in {core[p], remote[p]} =>
        core[p] # "open" /\ remote[p] \notin {"connecting", "open"}

\* A session whose PilotCore connection is gone does not stay the current one.
LostSessionsEnd ==
    \A p \in Pairs : (fsdCoreSocket = p /\ core[p] = "destroyed") ~> fsdCoreSocket # p

\* The comment above close()'s early return: "Old TCP pairs can close after
\* PilotCore has already opened a replacement FSD connection. Do not let that
\* stale close mark the current session as disconnected."  The current session
\* ends only together with its own connection to PilotCore.
StaleCloseKeepsCurrent ==
    [][(activeSessionId # 0 /\ activeSessionId' = 0) => core'[fsdCoreSocket] # "open"]_fsdVars
=============================================================================
