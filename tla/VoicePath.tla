------------------------------ MODULE VoicePath ------------------------------
(***************************************************************************)
(* The voice path of the local agent: the sockets of the local web         *)
(* application (proxy/local-web-server.js) and the remote agent's virtual  *)
(* socket (proxy/remote-agent.js) start and stop transmissions of WebTx    *)
(* while VoiceRouter teaches it sessions and takes them away.              *)
(***************************************************************************)
EXTENDS VoiceRouter

CONSTANT RemoteTx  \* remoteTxSocket; the other sockets are local browsers

ASSUME RemoteTxAssumption == RemoteTx \in Sockets

VARIABLES
    clients,   \* wsClients of the local web server
    relayOpen, \* the agent's WebSocket to the relay has not closed
    txTimer    \* txTimer of the remote agent

pathVars  == <<clients, relayOpen, txTimer>>
voiceVars == <<txVars, routerVars, pathVars>>

VoiceInit ==
    /\ RouterInit
    /\ clients = {}
    /\ relayOpen = FALSE
    /\ txTimer = FALSE

-----------------------------------------------------------------------------
\* A browser connects to /ws.
BrowserOpens(w) ==
    /\ w \notin clients
    /\ clients' = clients \cup {w}
    /\ UNCHANGED <<txVars, routerVars, relayOpen, txTimer>>

\* Fault: cleanup() stops a transmission only when the close event is first.
ClosesQuietly(w) ==
    /\ w \in clients
    /\ clients' = clients \ {w}
    /\ UNCHANGED <<txVars, routerVars, relayOpen, txTimer>>

\* cleanup(): the first of the error and close events; the second finds the
\* socket removed, as do the messages that are still queued.
BrowserCloses(w) ==
    /\ w \in clients
    /\ clients' = clients \ {w}
    /\ Stop(w)
    /\ UNCHANGED <<routerVars, relayOpen, txTimer>>

\* voice_tx_start and voice_tx_monitor_start
BrowserStarts(w, com, monitorOnly) ==
    /\ w \in clients
    /\ StartTx(w, com, monitorOnly)
    /\ UNCHANGED <<routerVars, pathVars>>

\* voice_tx_stop
BrowserStops(w) ==
    /\ w \in clients
    /\ Stop(w)
    /\ UNCHANGED <<routerVars, pathVars>>

-----------------------------------------------------------------------------
RelayOpens ==
    /\ ~relayOpen
    /\ relayOpen' = TRUE
    /\ UNCHANGED <<txVars, routerVars, clients, txTimer>>

\* stopRemoteWebTx()
StopRemote ==
    /\ Stop(RemoteTx)
    /\ txTimer' = FALSE

\* close of the relay socket
RelayCloses ==
    /\ relayOpen
    /\ relayOpen' = FALSE
    /\ StopRemote
    /\ UNCHANGED <<routerVars, clients>>

\* tx-start: startRemoteWebTx(); a refused start leaves the limit as it was.
RemoteStarts(com) ==
    /\ relayOpen
    /\ StartTx(RemoteTx, com, FALSE)
    /\ txTimer' = TRUE
    /\ UNCHANGED <<routerVars, clients, relayOpen>>

\* tx-stop
RemoteStops ==
    /\ relayOpen
    /\ StopRemote
    /\ UNCHANGED <<routerVars, clients, relayOpen>>

\* TX_MAX_MS elapsed, whether the transmission of that start still runs or not.
RemoteTimesOut ==
    /\ txTimer
    /\ StopRemote
    /\ UNCHANGED <<routerVars, clients, relayOpen>>

SocketStep ==
    \/ \E w \in Sockets \ {RemoteTx} :
           \/ BrowserOpens(w)
           \/ BrowserCloses(w)
           \/ \E com \in Coms, monitorOnly \in BOOLEAN : BrowserStarts(w, com, monitorOnly)
           \/ BrowserStops(w)
    \/ RelayOpens
    \/ RelayCloses
    \/ \E com \in Coms : RemoteStarts(com)
    \/ RemoteStops
    \/ RemoteTimesOut
RouterStep ==
    \/ EndpointStep
    \/ PacketStep
    \/ FlowStep
    \/ FsdCloses
    \/ SoundStep
TxStep == EncoderStep \/ PumpStep

VoiceNext ==
    \/ SocketStep
    \/ RouterStep /\ UNCHANGED pathVars
    \/ TxStep /\ UNCHANGED <<routerVars, pathVars>>

VoiceSpec == VoiceInit /\ [][VoiceNext]_voiceVars

-----------------------------------------------------------------------------
\* The session Web TX speaks under is the one Altitude logged in with last: its
\* flow is open, its packets leave from that flow's socket to the target fixed
\* for it, and carry the session bytes the login's flow taught the router.
SessionFollowsLogin ==
    session # None =>
        /\ active # None
        /\ session.key = activeKey /\ activeKey[1] = active
        /\ session.header = sessionBytes
        /\ flows[activeKey] # None
        /\ session.socket = flows[activeKey].socket
        /\ activeTarget = flows[activeKey].target

\* A transmission on the air never moves to another voice session: it ends when
\* Altitude changes server or flow, or loses it (replaceTxSession,
\* invalidateTxSession).
TransmissionKeepsSession ==
    \A w \in OnAirSockets : session # None /\ tx[w].startedFor = SessionName(session)

\* Nothing transmits for nobody: a local transmission belongs to a browser that
\* is still connected, a remote one to an open relay connection with the time
\* limit running, and each has its encoder.
TxHasOwner ==
    \A w \in Sockets : Active(w) =>
        /\ IF w = RemoteTx THEN relayOpen /\ txTimer ELSE w \in clients
        /\ Encoder(w) \in encoders

\* A talker is not cut off by the past: the exit of an encoder ends only the
\* transmission it serves, never the one that followed on the same socket.
TalkerNotCutOff ==
    [][\A e \in encoders \ encoders', w \in Sockets :
           tx'[w] # tx[w] => e = Encoder(w)]_voiceVars

\* The TX lamp of PilotUI is never left on: a lit radio is being transmitted on.
LampShowsTransmission ==
    \A c \in Coms : lamp[c] => \E w \in OnAirSockets : tx[w].com = c

\* Browsers hear only what was decoded since Altitude's last login or reset:
\* what an old decoder still delivers is dropped.
SoundIsCurrent == \A d \in decoders : Heard(d) => d.epoch = epoch
=============================================================================
