----------------------------- MODULE VoiceRouter -----------------------------
(***************************************************************************)
(* The TS2 side of the local agent: one loopback endpoint per voice server *)
(* (proxy/ts2-voice-router.js), each forwarding Altitude's UDP flows to    *)
(* its server and decoding what is heard (proxy/ts2-voice-proxy.js).  The  *)
(* router calls Web TX, so this module extends it: a packet of Altitude    *)
(* may teach it a session, the end of a flow may take the session away.    *)
(*                                                                         *)
(* A flow is a source port of Altitude at one endpoint; it gets a UDP      *)
(* socket of its own to the server, whose target is fixed when the flow    *)
(* begins.  TCP is passed through and touches no state kept here.          *)
(***************************************************************************)
EXTENDS WebTx

CONSTANTS
    Hosts,       \* voice servers that VOICE replies name
    Sources,     \* UDP source ports of Altitude
    Headers,     \* session bytes
    ZeroHeader,  \* eight zero bytes
    MaxServers,  \* MAX_SERVERS
    MaxFlows,    \* bound: UDP sockets opened
    MaxLogins    \* bound: resets of the active route

ASSUME VoiceRouterAssumption ==
    /\ MaxServers \in Nat /\ MaxFlows \in Nat /\ MaxLogins \in Nat
    /\ ZeroHeader \notin Headers

VARIABLES
    routes,        \* state of each host's endpoint
    listening,     \* the transports of each endpoint that listen
    active,        \* active
    activeKey,     \* activeKey
    activeTarget,  \* activeTarget
    sessionBytes,  \* sessionBytes
    flows,         \* udpClients and udpTargets of every endpoint
    flowCount,     \* UDP sockets opened so far
    decoder,       \* voiceFfmpeg of each endpoint
    decoders,      \* decoder processes that have not exited
    epoch          \* history: how often the active route was cleared

endpointVars == <<routes, listening>>
routeVars    == <<active, activeKey, activeTarget, sessionBytes, flows, flowCount>>
decoderVars  == <<decoder, decoders, epoch>>
routerVars   == <<endpointVars, routeVars, decoderVars>>

Keys         == Hosts \X Sources
Flow         == [socket : 1..MaxFlows, target : Hosts \X BOOLEAN]
PacketKinds  == {"login", "setup", "voice", "ack", "other"}
Process      == [host : Hosts, epoch : 0..MaxLogins]
VoiceSession == [key : Keys, socket : 1..MaxFlows, header : Headers]
Transmission == [id : 1..MaxStarts, com : Coms, monitorOnly : BOOLEAN, queued : 0..MaxQueue,
                 sendTimer : BOOLEAN, startedFor : {None} \cup (Keys \X Headers)]

ASSUME NoneAssumption ==
    /\ None \notin Hosts /\ None \notin Headers /\ None \notin Flow
    /\ None \notin Process /\ None \notin VoiceSession /\ None \notin Transmission

RouterInit ==
    /\ TxInit
    /\ routes = [h \in Hosts |-> "none"]
    /\ listening = [h \in Hosts |-> {}]
    /\ active = None
    /\ activeKey = None
    /\ activeTarget = None
    /\ sessionBytes = None
    /\ flows = [k \in Keys |-> None]
    /\ flowCount = 0
    /\ decoder = [h \in Hosts |-> None]
    /\ decoders = {}
    /\ epoch = 0

-----------------------------------------------------------------------------
(***************************************************************************)
(* Endpoints.                                                              *)
(***************************************************************************)

\* getEndpoint(h) for a host without a route: both transports start binding.
WantEndpoint(h) ==
    /\ routes[h] = "none"
    /\ Cardinality({g \in Hosts : routes[g] # "none"}) < MaxServers
    /\ routes' = [routes EXCEPT ![h] = "binding"]
    /\ UNCHANGED <<listening, routeVars, decoderVars, txVars>>

\* listening(): the promise resolves when the second transport listens.
Listening(h, transport) ==
    /\ routes[h] = "binding"
    /\ transport \notin listening[h]
    /\ listening' = [listening EXCEPT ![h] = @ \cup {transport}]
    /\ routes' = [routes EXCEPT ![h] = IF listening'[h] = {"tcp", "udp"} THEN "ready" ELSE @]
    /\ UNCHANGED <<routeVars, decoderVars, txVars>>

(***************************************************************************)
(* The active route.                                                       *)
(***************************************************************************)

\* clearActive(): the variables it nulls, the decoder it stops, and
\* onSessionReset, which invalidates the Web TX session.
RouteCleared ==
    /\ active' = None
    /\ activeKey' = None
    /\ activeTarget' = None
    /\ sessionBytes' = None
DecodersWithout(H) == [h \in Hosts |-> IF h \in H THEN None ELSE decoder[h]]
FlowsWithout(K)    == [k \in Keys |-> IF k \in K THEN None ELSE flows[k]]

\* The decoders after clearActive().
ActiveStopped == DecodersWithout({active})

SeedKinds == {"setup", "voice", "ack"}

\* The session bytes after a packet of the active route: the flow that logged in
\* teaches them with its first setup packet.
Learned(k, kind, header) ==
    IF sessionBytes = None /\ activeKey = k /\ kind = "setup" /\ header # ZeroHeader
    THEN header
    ELSE sessionBytes

\* The first packet of a source opens its flow.  The target is the address the
\* one DNS query of the endpoint has brought, or else the host name.
OpenFlow(k) ==
    IF flows[k] # None THEN UNCHANGED <<flows, flowCount>>
    ELSE \E resolved \in BOOLEAN :
            /\ flowCount < MaxFlows  \* bound
            /\ flowCount' = flowCount + 1
            /\ flows' = [flows EXCEPT ![k] = [socket |-> flowCount + 1,
                                              target |-> <<k[1], resolved>>]]
Reachable(h) == "udp" \in listening[h] /\ routes[h] # "failed"

\* A login selects the route: no sound and no session of the previous one stays.
Login(k) ==
    /\ Reachable(k[1])
    /\ epoch < MaxLogins  \* bound
    /\ OpenFlow(k)
    /\ active' = k[1]
    /\ activeKey' = k
    /\ activeTarget' = flows'[k].target
    /\ sessionBytes' = None
    /\ decoder' = ActiveStopped
    /\ epoch' = epoch + 1
    /\ InvalidateSession(None)
    /\ UNCHANGED <<endpointVars, decoders>>

\* Fault: packets of any route with a session teach Web TX.
UnscopedPacket(k, kind, header) ==
    /\ Reachable(k[1])
    /\ OpenFlow(k)
    /\ sessionBytes' = Learned(k, kind, header)
    /\ IF kind \in SeedKinds /\ header # ZeroHeader
       THEN CacheSession([key |-> k, socket |-> flows'[k].socket, header |-> header],
                         kind = "voice")
       ELSE UNCHANGED txVars
    /\ UNCHANGED <<active, activeKey, activeTarget, endpointVars, decoderVars>>

\* Any other packet: it counts on the active route only, and a packet that
\* carries the session's bytes moves the session to its flow and to Web TX.
Packet(k, kind, header) ==
    LET counts  == active = k[1]
        learned == IF counts THEN Learned(k, kind, header) ELSE sessionBytes
        matches == counts /\ kind \in SeedKinds /\ learned # None /\ header = learned
    IN  /\ Reachable(k[1])
        /\ OpenFlow(k)
        /\ sessionBytes' = learned
        /\ activeKey' = IF matches THEN k ELSE activeKey
        /\ activeTarget' = IF matches THEN flows'[k].target ELSE activeTarget
        /\ IF matches
           THEN CacheSession([key |-> k, socket |-> flows'[k].socket, header |-> header],
                             kind = "voice")
           ELSE UNCHANGED txVars
        /\ UNCHANGED <<active, endpointVars, decoderVars>>

PacketStep ==
    \E k \in Keys :
        \/ Login(k)
        \/ \E kind \in PacketKinds \ {"login"}, header \in Headers \cup {ZeroHeader} :
               Packet(k, kind, header)

\* cleanupUdpClient() for the flows of K, with onClientClose() of each: the end
\* of the active flow clears the route; of another flow, its session.
CloseFlows(K) ==
    /\ flows' = FlowsWithout(K)
    /\ IF active # None /\ activeKey \in K
       THEN /\ RouteCleared
            /\ decoder' = ActiveStopped
            /\ epoch' = epoch + 1
            /\ InvalidateSession(None)
       ELSE /\ UNCHANGED <<active, activeKey, activeTarget, sessionBytes, decoder, epoch>>
            /\ IF session # None /\ session.key \in K
               THEN InvalidateSession(session.key)
               ELSE UNCHANGED txVars
    /\ UNCHANGED flowCount

\* close or error of one flow's socket.  The second of the two events, and the
\* close that a reset causes, find the flow gone.
FlowCloses(k) ==
    /\ flows[k] # None
    /\ epoch < MaxLogins  \* bound
    /\ CloseFlows({k})
    /\ UNCHANGED <<endpointVars, decoders>>

\* fail(): bind error or timeout before, or a transport's error after the
\* endpoint was announced.  The address stays reserved.
EndpointFails(h) ==
    /\ routes[h] \in {"binding", "ready"}
    /\ epoch < MaxLogins  \* bound
    /\ routes' = [routes EXCEPT ![h] = "failed"]
    /\ listening' = [listening EXCEPT ![h] = {}]
    /\ flows' = FlowsWithout({h} \X Sources)
    /\ decoder' = DecodersWithout({h})
    /\ IF active = h
       THEN RouteCleared /\ epoch' = epoch + 1 /\ InvalidateSession(None)
       ELSE UNCHANGED <<active, activeKey, activeTarget, sessionBytes, epoch, txVars>>
    /\ UNCHANGED <<flowCount, decoders>>

\* onClose of the FSD proxy: stopVoiceDecoder(), resetUdpClients() and
\* clearWebTxReadiness() forget every flow and the session.
ResetVoice ==
    /\ flows' = [k \in Keys |-> None]
    /\ decoder' = [h \in Hosts |-> None]
    /\ RouteCleared
    /\ epoch' = epoch + 1
    /\ InvalidateSession(None)
    /\ UNCHANGED flowCount
FsdCloses ==
    /\ epoch < MaxLogins  \* bound
    /\ ResetVoice
    /\ UNCHANGED <<endpointVars, decoders>>

-----------------------------------------------------------------------------
(***************************************************************************)
(* Sound from the server.                                                  *)
(***************************************************************************)

\* startVoiceDecoder()
StartVoiceDecoder(h) ==
    LET d == [host |-> h, epoch |-> epoch] IN
    /\ decoder[h] = None
    /\ decoder' = [decoder EXCEPT ![h] = d]
    /\ decoders' = decoders \cup {d}

\* decodeIncomingVoice() for a voice reply of the active route: the first one
\* starts the decoder.
VoiceReply(k) ==
    /\ flows[k] # None
    /\ active = k[1]
    /\ StartVoiceDecoder(k[1])
    /\ UNCHANGED <<endpointVars, routeVars, txVars, epoch>>

\* stdout of a decoder: an old process, or one of another route, is not heard.
Heard(d) == decoder[d.host] = d /\ active = d.host

\* exit of a decoder: it is forgotten if it is still the endpoint's.
DecoderExit(d) ==
    /\ d \in decoders
    /\ decoders' = decoders \ {d}
    /\ decoder' = IF decoder[d.host] = d THEN [decoder EXCEPT ![d.host] = None] ELSE decoder
    /\ UNCHANGED <<endpointVars, routeVars, txVars, epoch>>

EndpointStep ==
    \E h \in Hosts :
        \/ WantEndpoint(h)
        \/ \E transport \in {"tcp", "udp"} : Listening(h, transport)
        \/ EndpointFails(h)
FlowStep  == \E k \in Keys : FlowCloses(k)
SoundStep ==
    \/ \E k \in Keys : VoiceReply(k)
    \/ \E d \in decoders : DecoderExit(d)
=============================================================================
