---------------------------- MODULE RelayRouting ----------------------------
(***************************************************************************)
(* The relay's routing between agents and browsers (apps/relay/index.js):  *)
(* agent registration, pairing codes and pairings, device selection and    *)
(* the remote TX sessions.                                                 *)
(*                                                                         *)
(* One action is one run of a WebSocket, HTTP or timer callback.  A socket *)
(* that the relay is closing still delivers the messages that were on      *)
(* their way, and it does so after removeClient when the relay removed its *)
(* client at once (closeClientsForUser and the like).                      *)
(*                                                                         *)
(* A message that only draws an error reply changes nothing and is no      *)
(* action.  Device names, versions, snapshots, audit records, rate windows *)
(* and the database copy of the pairings are left out.                     *)
(***************************************************************************)
EXTENDS Integers, FiniteSets

CONSTANTS
    AgentSockets,    \* WebSocket connections with source "agent"
    BrowserSockets,  \* WebSocket connections with source "browser"
    UserOf,          \* client.userId of each socket
    BrowserIdOf,     \* client.browserId of each browser socket
    SessionSockets,  \* browser sockets with authKind "session"
    Users, Devices, BrowserIds, Codes,
    MaxClients,      \* MAX_CLIENTS
    None             \* '', null or undefined

Sockets == AgentSockets \cup BrowserSockets
\* For TLC: everything belongs to one account, and the browser sockets are tabs of
\* one browser.
OneUser    == [s \in Sockets |-> CHOOSE u \in Users : TRUE]
OneBrowser == [b \in BrowserSockets |-> CHOOSE i \in BrowserIds : TRUE]
Keys    == Users \X Devices   \* scopedDeviceKey

ASSUME SocketsAssumption ==
    /\ AgentSockets \cap BrowserSockets = {}
    /\ UserOf \in [Sockets -> Users]
    /\ BrowserIdOf \in [BrowserSockets -> BrowserIds \cup {None}]
    /\ SessionSockets \subseteq BrowserSockets
    /\ None \notin AgentSockets \cup Devices \cup BrowserIds
    /\ MaxClients \in Nat

VARIABLES
    socket,    \* readyState of each socket; "closed": its close event was handled
    clients,   \* clients
    deviceId,  \* client.deviceId of each agent; with its user it is deviceKey
    devices,   \* devices: the agent socket of each announced device
    codes,     \* pairingCodes
    paired,    \* browserAuthorizations, as triples
    selected,  \* client.selectedDeviceId of each browser
    activeTx,  \* client.activeTxDeviceId of each browser
    txOld,     \* the TX session is older than MAX_REMOTE_TX_DURATION_MS
    agentTx,   \* the last TX message sent to the agent was tx.start
    removed    \* history: clients removed before their socket closed

vars == <<socket, clients, deviceId, devices, codes, paired, selected, activeTx, txOld,
          agentTx, removed>>
txVars == <<activeTx, txOld, agentTx>>

Code == [code : Codes, userId : Users, deviceId : Devices]

TypeOK ==
    /\ socket \in [Sockets -> {"new", "open", "closing", "closed"}]
    /\ clients \subseteq Sockets
    /\ deviceId \in [AgentSockets -> Devices \cup {None}]
    /\ devices \in [Keys -> AgentSockets \cup {None}]
    /\ codes \subseteq Code
    /\ paired \subseteq Users \X BrowserIds \X Devices
    /\ selected \in [BrowserSockets -> Devices \cup {None}]
    /\ activeTx \in [BrowserSockets -> Devices \cup {None}]
    /\ txOld \in [BrowserSockets -> BOOLEAN]
    /\ agentTx \in [AgentSockets -> BOOLEAN]
    /\ removed \subseteq Sockets

Init ==
    /\ socket = [s \in Sockets |-> "new"]
    /\ clients = {}
    /\ deviceId = [a \in AgentSockets |-> None]
    /\ devices = [k \in Keys |-> None]
    /\ codes = {}
    /\ paired = {}
    /\ selected = [b \in BrowserSockets |-> None]
    /\ activeTx = [b \in BrowserSockets |-> None]
    /\ txOld = [b \in BrowserSockets |-> FALSE]
    /\ agentTx = [a \in AgentSockets |-> FALSE]
    /\ removed = {}

-----------------------------------------------------------------------------
(***************************************************************************)
(* What the handlers share.                                                *)
(***************************************************************************)
Delivers(s) == socket[s] \in {"open", "closing"}
Open(a)     == a # None /\ socket[a] = "open"

Device(b, d)   == devices[<<UserOf[b], d>>]
IsPaired(b, d) == BrowserIdOf[b] # None /\ <<UserOf[b], BrowserIdOf[b], d>> \in paired

\* canClientAccessDevice, for a browser and with REQUIRE_PAIRING; pairings from
\* before browser ids were scoped by user are left out.
CanAccess(b, d) == b \in SessionSockets \/ IsPaired(b, d)

\* The agents that the browsers bs stop when stopBrowserTx runs for each.
AgentsOf(bs) == {Device(b, activeTx[b]) : b \in {c \in bs : activeTx[c] # None}}

\* Fault: the session is cleared and the agent is not told.
StopSilently(bs) ==
    /\ activeTx' = [b \in BrowserSockets |-> IF b \in bs THEN None ELSE activeTx[b]]
    /\ txOld' = [b \in BrowserSockets |-> b \notin bs /\ txOld[b]]
    /\ UNCHANGED agentTx

\* stopBrowserTx for each of the browsers bs.  (An agent that is closed in the
\* same go counts as told: it ends its TX with its connection.)
StopBrowserTx(bs) ==
    /\ activeTx' = [b \in BrowserSockets |-> IF b \in bs THEN None ELSE activeTx[b]]
    /\ txOld' = [b \in BrowserSockets |-> b \notin bs /\ txOld[b]]
    /\ agentTx' = [a \in AgentSockets |-> agentTx[a] /\ ~(Open(a) /\ a \in AgentsOf(bs))]

\* The codes of other devices (deletePairingCodesForDevice).
CodesWithout(ks) == {c \in codes : <<c.userId, c.deviceId>> \notin ks}

\* deviceKey of the agents ss that announced one.
KeysNamed(ss) == {<<UserOf[a], deviceId[a]>> : a \in {b \in ss : deviceId[b] # None}}

\* Fault: removeClient does not compare the sockets.
KeysAnnounced(ss) == KeysNamed(ss)

\* Fault: a socket that is closing leaves its device behind.
KeysOpen(ss) == {k \in KeysNamed(ss) : devices[k] \in ss /\ socket[devices[k]] = "open"}

\* The devices that leave with the sockets ss: another socket may hold the key.
KeysHeld(ss) == {k \in KeysNamed(ss) : devices[k] \in ss}

\* removeClient of the sockets ss, which leave the state given.
RemoveClients(ss, state) ==
    /\ socket' = [s \in Sockets |-> IF s \in ss THEN state ELSE socket[s]]
    /\ clients' = clients \ ss
    /\ StopBrowserTx(ss \cap clients \cap BrowserSockets)
    /\ LET gone == KeysHeld(ss \cap clients \cap AgentSockets)
       IN  /\ devices' = [k \in Keys |-> IF k \in gone THEN None ELSE devices[k]]
           /\ codes' = CodesWithout(gone)

-----------------------------------------------------------------------------
(***************************************************************************)
(* Sockets.                                                                *)
(***************************************************************************)

\* authorizeUpgrade and the connection handler
Connect(s) ==
    /\ socket[s] = "new"
    /\ Cardinality(clients) < MaxClients
    /\ socket' = [socket EXCEPT ![s] = "open"]
    /\ clients' = clients \cup {s}
    /\ UNCHANGED <<deviceId, devices, codes, paired, selected, txVars, removed>>

\* closeProtocol, or the peer starts the closing handshake.
StartsClosing(s) ==
    /\ socket[s] = "open"
    /\ socket' = [socket EXCEPT ![s] = "closing"]
    /\ UNCHANGED <<clients, deviceId, devices, codes, paired, selected, txVars, removed>>

\* The close or error event, also after the heartbeat's terminate().
Closes(s) ==
    /\ Delivers(s)
    /\ RemoveClients({s}, "closed")
    /\ UNCHANGED <<deviceId, paired, selected, removed>>

\* closeClientsForUser, closeAgentClientsForUser and closeBrowserSessionClients:
\* every socket in ss is closed and its client removed in one go.
CloseClients(ss) ==
    /\ ss # {}
    /\ RemoveClients(ss, "closing")
    /\ removed' = removed \cup ss
    /\ UNCHANGED <<deviceId, paired, selected>>

ClientsOf(u) == {s \in clients : UserOf[s] = u}

AdminCloses(u) ==
    \/ CloseClients(ClientsOf(u))
    \/ CloseClients(ClientsOf(u) \cap AgentSockets)
    \/ \E b \in ClientsOf(u) \cap SessionSockets : CloseClients({b})

-----------------------------------------------------------------------------
(***************************************************************************)
(* Messages.                                                               *)
(***************************************************************************)

\* registerAgent: a socket that announces another device gives up the former.
AgentHello(a, d) ==
    /\ Delivers(a)
    /\ deviceId' = [deviceId EXCEPT ![a] = d]
    /\ devices' = [k \in Keys |-> IF k = <<UserOf[a], d>> THEN a
                                  ELSE IF k \in KeysNamed({a}) THEN None
                                  ELSE devices[k]]
    /\ UNCHANGED <<socket, clients, codes, paired, selected, txVars, removed>>

\* refreshPairingCode
PairingBegin(a, c) ==
    /\ Delivers(a)
    /\ deviceId[a] # None
    /\ LET others == CodesWithout({<<UserOf[a], deviceId[a]>>})
       IN  /\ \A o \in others : o.code # c
           /\ codes' = others \cup {[code |-> c, userId |-> UserOf[a], deviceId |-> deviceId[a]]}
    /\ UNCHANGED <<socket, clients, deviceId, devices, paired, selected, txVars, removed>>

\* expiresAtMs passes; purgeExpiredPairingCodes runs before any code is used.
CodeExpires(c) ==
    /\ codes' = codes \ {c}
    /\ UNCHANGED <<socket, clients, deviceId, devices, paired, selected, txVars, removed>>

\* confirmPairing with a code in the table: the browser also selects the device.
PairingConfirm(b, c) ==
    /\ Delivers(b)
    /\ BrowserIdOf[b] # None
    /\ c.userId = UserOf[b]
    /\ Device(b, c.deviceId) # None
    /\ paired' = paired \cup {<<UserOf[b], BrowserIdOf[b], c.deviceId>>}
    /\ codes' = codes \ {c}
    /\ selected' = [selected EXCEPT ![b] = c.deviceId]
    /\ UNCHANGED <<socket, clients, deviceId, devices, txVars, removed>>

\* revokePairing: only the socket that asked is unselected.
PairingRevoke(b, d) ==
    /\ Delivers(b)
    /\ BrowserIdOf[b] # None
    /\ CanAccess(b, d)
    /\ StopBrowserTx(IF activeTx[b] = d THEN {b} ELSE {})
    /\ paired' = paired \ {<<UserOf[b], BrowserIdOf[b], d>>}
    /\ selected' = [selected EXCEPT ![b] = IF @ = d THEN None ELSE @]
    /\ UNCHANGED <<socket, clients, deviceId, devices, codes, removed>>

\* The admin's revocation with disconnectRevokedPairingClients.
AdminRevokes(u, i, d) ==
    LET tabs == {b \in clients \cap BrowserSockets : UserOf[b] = u /\ BrowserIdOf[b] = i} IN
    /\ <<u, i, d>> \in paired
    /\ paired' = paired \ {<<u, i, d>>}
    /\ StopBrowserTx({b \in tabs : activeTx[b] = d})
    /\ selected' = [b \in BrowserSockets |->
                      IF b \in tabs /\ selected[b] = d THEN None ELSE selected[b]]
    /\ UNCHANGED <<socket, clients, deviceId, devices, codes, removed>>

\* selectDevice
DeviceSelect(b, d) ==
    /\ Delivers(b)
    /\ Device(b, d) # None
    /\ CanAccess(b, d)
    /\ StopBrowserTx(IF activeTx[b] \notin {None, d} THEN {b} ELSE {})
    /\ selected' = [selected EXCEPT ![b] = d]
    /\ UNCHANGED <<socket, clients, deviceId, devices, codes, paired, removed>>

\* routeBrowserCommand lets the command through.
Routable(b) ==
    /\ Delivers(b)
    /\ selected[b] # None
    /\ CanAccess(b, selected[b])
    /\ Open(Device(b, selected[b]))

TxStart(b) ==
    /\ Routable(b)
    /\ activeTx' = [activeTx EXCEPT ![b] = selected[b]]
    /\ txOld' = [txOld EXCEPT ![b] = FALSE]
    /\ agentTx' = [agentTx EXCEPT ![Device(b, selected[b])] = TRUE]
    /\ UNCHANGED <<socket, clients, deviceId, devices, codes, paired, selected, removed>>

TxStop(b) ==
    /\ Routable(b)
    /\ activeTx' = [activeTx EXCEPT ![b] = None]
    /\ txOld' = [txOld EXCEPT ![b] = FALSE]
    /\ agentTx' = [agentTx EXCEPT ![Device(b, selected[b])] = FALSE]
    /\ UNCHANGED <<socket, clients, deviceId, devices, codes, paired, selected, removed>>

\* MAX_REMOTE_TX_DURATION_MS passes.
TxGrowsOld(b) ==
    /\ activeTx[b] # None
    /\ txOld' = [txOld EXCEPT ![b] = TRUE]
    /\ UNCHANGED <<socket, clients, deviceId, devices, codes, paired, selected, activeTx,
                   agentTx, removed>>

\* handleBrowserTxAudio lets the frame through to the agent.
FrameForwarded(b) ==
    /\ activeTx[b] # None
    /\ activeTx[b] = selected[b]
    /\ ~txOld[b]
    /\ Open(Device(b, activeTx[b]))
    /\ CanAccess(b, activeTx[b])

\* handleBrowserTxAudio ends the TX session instead.
TxFrameRefused(b) ==
    /\ Delivers(b)
    /\ activeTx[b] # None /\ activeTx[b] = selected[b]
    /\ ~FrameForwarded(b)
    /\ StopBrowserTx({b})
    /\ UNCHANGED <<socket, clients, deviceId, devices, codes, paired, selected, removed>>

\* The agent ends remote TX by itself: its own limit (TX_MAX_MS), or the relay's
\* connection is closing.
AgentEndsTx(a) ==
    /\ agentTx[a]
    /\ agentTx' = [agentTx EXCEPT ![a] = FALSE]
    /\ UNCHANGED <<socket, clients, deviceId, devices, codes, paired, selected, activeTx,
                   txOld, removed>>

-----------------------------------------------------------------------------
SocketStep  == \E s \in Sockets : Connect(s) \/ StartsClosing(s) \/ Closes(s)
\* An agent process announces the same device every time (remote-agent.js).
AgentStep   == \E a \in AgentSockets :
                 \/ \E d \in Devices : deviceId[a] \in {None, d} /\ AgentHello(a, d)
                 \/ \E c \in Codes : PairingBegin(a, c)
                 \/ AgentEndsTx(a)
BrowserStep == \E b \in BrowserSockets :
                 \/ \E c \in codes : PairingConfirm(b, c)
                 \/ \E d \in Devices : PairingRevoke(b, d) \/ DeviceSelect(b, d)
                 \/ TxStart(b) \/ TxStop(b) \/ TxGrowsOld(b) \/ TxFrameRefused(b)
AdminStep   == \E u \in Users :
                 \/ AdminCloses(u)
                 \/ \E i \in BrowserIds, d \in Devices : AdminRevokes(u, i, d)

Next == SocketStep \/ AgentStep \/ BrowserStep \/ AdminStep \/ \E c \in codes : CodeExpires(c)

Spec == Init /\ [][Next]_vars

-----------------------------------------------------------------------------
(***************************************************************************)
(* Properties.                                                             *)
(***************************************************************************)

\* A device in the map was announced by the socket it names, under its user,
\* and that socket's close event is still to come, so the device leaves the
\* map with it.  Only a client the relay had already removed can leave a ghost.
NoGhostDevices ==
    \A k \in Keys : devices[k] # None =>
        /\ UserOf[devices[k]] = k[1]
        /\ deviceId[devices[k]] = k[2]
        /\ devices[k] \in clients \/ devices[k] \in removed

\* A device leaves the map only with its own socket: when the agent has come
\* back before the close of its old socket arrives, that close changes nothing.
DeviceSurvivesOldSocket ==
    [][\A k \in Keys : (devices[k] # None /\ devices'[k] = None) => socket'[devices[k]] # "open"]_vars

\* However a TX session ends that is on the selected device (timeout, closed
\* browser, switch, revocation, stop), the agent is told and stops transmitting.
TxEndReachesAgent ==
    [][\A b \in BrowserSockets :
         LET a == Device(b, activeTx[b]) IN
         (activeTx[b] # None /\ selected[b] = activeTx[b] /\ activeTx'[b] = None
            /\ a # None /\ socket'[a] = "open") => ~agentTx'[a]]_vars

\* A browser becomes paired by using up a code that an agent of the same user
\* showed, while that device is announced.
PairingUsesCode ==
    [][\A p \in paired' \ paired : \E c \in codes \ codes' :
         c.userId = p[1] /\ c.deviceId = p[3] /\ devices[<<p[1], p[3]>>] # None]_vars

\* docs/TECHNICAL_PAPER.md, 10.3: "Relay forwards them only to browsers paired
\* with and watching that agent."  routeAgentAudio and routeAgentUpdate send to
\* every client that selected the device; each of them is paired with it.
WatchersArePaired ==
    \A b \in clients \cap BrowserSockets : selected[b] # None => CanAccess(b, selected[b])

\* docs/TECHNICAL_PAPER.md, 10.3: "the relay/agent stops TX on timeout,
\* disconnect, device switch, or revocation."  When a browser comes to watch
\* another device, the agent it was transmitting on stops.
SwitchStopsTx ==
    [][\A b \in BrowserSockets :
         LET a == Device(b, activeTx[b]) IN
         (activeTx[b] # None /\ selected[b] = activeTx[b] /\ selected'[b] # selected[b]
            /\ a # None /\ socket'[a] = "open") => ~agentTx'[a]]_vars
=============================================================================
