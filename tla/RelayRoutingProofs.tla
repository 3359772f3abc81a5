-------------------------- MODULE RelayRoutingProofs --------------------------
(***************************************************************************)
(* Proofs about RelayRouting for any sockets, users, devices and codes: no *)
(* ghost device stays in the relay's map, and a pairing always costs a     *)
(* code of its own device.                                                 *)
(***************************************************************************)
EXTENDS RelayRouting, TLAPS

\* A socket that may still deliver a message is a client, or the relay had
\* removed its client before the socket closed.
DeliverersKnown == \A s \in Sockets : Delivers(s) => s \in clients \cup removed

IInv == TypeOK /\ DeliverersKnown /\ NoGhostDevices

USE SocketsAssumption

\* A key is determined by its user and its device.
LEMMA KeyIsPair == ASSUME NEW k \in Keys PROVE k = <<k[1], k[2]>> /\ k[1] \in Users /\ k[2] \in Devices
  BY DEF Keys

\* stopBrowserTx keeps the types of the TX state.
LEMMA StopTxTypes ==
    ASSUME TypeOK, NEW bs, StopBrowserTx(bs)
    PROVE  /\ activeTx' \in [BrowserSockets -> Devices \cup {None}]
           /\ txOld' \in [BrowserSockets -> BOOLEAN]
           /\ agentTx' \in [AgentSockets -> BOOLEAN]
<1>1. activeTx' \in [BrowserSockets -> Devices \cup {None}]
  BY DEF TypeOK, StopBrowserTx
<1>2. txOld' \in [BrowserSockets -> BOOLEAN]
  BY Zenon DEF TypeOK, StopBrowserTx
<1>3. agentTx' \in [AgentSockets -> BOOLEAN]
  BY Zenon DEF TypeOK, StopBrowserTx
<1> QED BY <1>1, <1>2, <1>3

\* removeClient keeps the types, whatever sockets it is applied to.
LEMMA RemoveTypes ==
    ASSUME TypeOK, NEW ss \in SUBSET Sockets, NEW state \in {"closing", "closed"},
           RemoveClients(ss, state)
    PROVE  /\ socket' \in [Sockets -> {"new", "open", "closing", "closed"}]
           /\ clients' = clients \ ss
           /\ devices' \in [Keys -> AgentSockets \cup {None}]
           /\ codes' \subseteq Code
           /\ activeTx' \in [BrowserSockets -> Devices \cup {None}]
           /\ txOld' \in [BrowserSockets -> BOOLEAN]
           /\ agentTx' \in [AgentSockets -> BOOLEAN]
<1>1. StopBrowserTx(ss \cap clients \cap BrowserSockets)
  BY DEF RemoveClients
<1>2. /\ socket' \in [Sockets -> {"new", "open", "closing", "closed"}]
      /\ clients' = clients \ ss
  BY DEF RemoveClients, TypeOK
<1>3. /\ devices' \in [Keys -> AgentSockets \cup {None}]
      /\ codes' \subseteq Code
  BY DEF RemoveClients, TypeOK, CodesWithout
<1> QED BY <1>1, <1>2, <1>3, StopTxTypes

\* After removeClient, what is left in the map was there before, and its
\* socket is none of those that were removed as clients.
LEMMA RemoveLeaves ==
    ASSUME TypeOK, NoGhostDevices, NEW ss \in SUBSET Sockets, NEW state \in {"closing", "closed"},
           RemoveClients(ss, state), NEW k \in Keys, devices'[k] # None
    PROVE  devices'[k] = devices[k] /\ devices[k] \notin ss \cap clients
<1> DEFINE left == ss \cap clients \cap AgentSockets
<1>1. devices'[k] = devices[k] /\ k \notin KeysHeld(left)
  BY DEF RemoveClients
<1>2. devices[k] \in AgentSockets
  BY <1>1 DEF TypeOK
<1>3. SUFFICES ASSUME devices[k] \in ss \cap clients PROVE FALSE
  BY <1>1
<1>4. devices[k] \in left
  BY <1>2, <1>3
<1>5. k = <<UserOf[devices[k]], deviceId[devices[k]]>> /\ deviceId[devices[k]] # None
  BY <1>1, KeyIsPair DEF NoGhostDevices
<1>6. k \in KeysNamed(left)
  BY <1>4, <1>5 DEF KeysNamed
<1> QED BY <1>1, <1>4, <1>6 DEF KeysHeld

\* Initially there are no sockets.
LEMMA InitInv == Init => IInv
<1> SUFFICES ASSUME Init PROVE IInv
  OBVIOUS
<1>1. TypeOK
  BY DEF Init, TypeOK
<1>2. DeliverersKnown
  BY DEF Init, DeliverersKnown, Delivers
<1>3. NoGhostDevices
  BY DEF Init, NoGhostDevices
<1> QED BY <1>1, <1>2, <1>3 DEF IInv

-----------------------------------------------------------------------------
(***************************************************************************)
(* One lemma per kind of step.                                             *)
(***************************************************************************)

\* Steps that touch neither the sockets nor the devices only have to keep types.
LEMMA QuietStep ==
    ASSUME IInv, TypeOK', UNCHANGED <<socket, clients, deviceId, devices, removed>>
    PROVE  IInv'
  BY DEF IInv, DeliverersKnown, Delivers, NoGhostDevices

\* Connections, and everything that ends in removeClient.
LEMMA SocketInv == ASSUME IInv, SocketStep PROVE IInv'
<1> USE DEF IInv
<1>1. ASSUME NEW s \in Sockets, Connect(s) PROVE IInv'
  <2>1. TypeOK'
    BY <1>1 DEF Connect, TypeOK, txVars
  <2>2. DeliverersKnown' /\ NoGhostDevices'
    BY <1>1 DEF Connect, TypeOK, DeliverersKnown, Delivers, NoGhostDevices
  <2> QED BY <2>1, <2>2
<1>2. ASSUME NEW s \in Sockets, StartsClosing(s) PROVE IInv'
  <2>1. TypeOK'
    BY <1>2 DEF StartsClosing, TypeOK, txVars
  <2>2. DeliverersKnown' /\ NoGhostDevices'
    BY <1>2 DEF StartsClosing, TypeOK, DeliverersKnown, Delivers, NoGhostDevices
  <2> QED BY <2>1, <2>2
<1>3. ASSUME NEW s \in Sockets, Closes(s) PROVE IInv'
  <2>1. RemoveClients({s}, "closed") /\ UNCHANGED <<deviceId, paired, selected, removed>>
    BY <1>3 DEF Closes
  <2>2. TypeOK' /\ clients' = clients \ {s}
    BY <2>1, RemoveTypes DEF TypeOK
  <2>3. DeliverersKnown'
    BY <2>1, <2>2 DEF DeliverersKnown, Delivers, RemoveClients
  <2>4. NoGhostDevices'
    BY <2>1, <2>2, RemoveLeaves DEF NoGhostDevices
  <2> QED BY <2>2, <2>3, <2>4
<1> QED BY <1>1, <1>2, <1>3 DEF SocketStep

\* Clients that are removed before their sockets close.
LEMMA CloseClientsInv == ASSUME IInv, NEW ss \in SUBSET clients, CloseClients(ss) PROVE IInv'
<1> USE DEF IInv
<1>1. /\ ss \subseteq Sockets
      /\ RemoveClients(ss, "closing")
      /\ removed' = removed \cup ss
      /\ UNCHANGED <<deviceId, paired, selected>>
  BY DEF CloseClients, TypeOK
<1>2. TypeOK' /\ clients' = clients \ ss
  BY <1>1, RemoveTypes DEF TypeOK
<1>3. DeliverersKnown'
  BY <1>1, <1>2 DEF DeliverersKnown, Delivers, RemoveClients
<1>4. NoGhostDevices'
  BY <1>1, <1>2, RemoveLeaves DEF NoGhostDevices
<1> QED BY <1>2, <1>3, <1>4

\* What agents say and do.
LEMMA AgentInv == ASSUME IInv, AgentStep PROVE IInv'
<1> USE DEF IInv
<1>1. ASSUME NEW a \in AgentSockets, NEW d \in Devices, AgentHello(a, d) PROVE IInv'
  <2> DEFINE key == <<UserOf[a], d>>
  <2>1. a \in clients \cup removed
    BY <1>1 DEF AgentHello, DeliverersKnown, Sockets
  <2>2. TypeOK'
    BY <1>1 DEF AgentHello, TypeOK, txVars
  <2>3. DeliverersKnown'
    BY <1>1 DEF AgentHello, DeliverersKnown, Delivers
  <2>4. ASSUME NEW k \in Keys, devices'[k] # None
        PROVE  /\ UserOf[devices'[k]] = k[1]
               /\ deviceId'[devices'[k]] = k[2]
               /\ devices'[k] \in clients' \/ devices'[k] \in removed'
    <3>1. CASE k = key
      BY <1>1, <2>1, <3>1 DEF AgentHello, TypeOK
    <3>2. CASE k # key
      <4>1. devices'[k] = devices[k] /\ k \notin KeysNamed({a})
        BY <1>1, <2>4, <3>2 DEF AgentHello
      <4>2. devices[k] # a
        BY <2>4, <4>1, KeyIsPair DEF NoGhostDevices, KeysNamed
      <4>3. devices[k] \in AgentSockets
        BY <2>4, <4>1 DEF TypeOK
      <4> QED BY <1>1, <2>4, <4>1, <4>2, <4>3 DEF AgentHello, NoGhostDevices, TypeOK
    <3> QED BY <3>1, <3>2
  <2>5. NoGhostDevices'
    BY <2>4 DEF NoGhostDevices
  <2> QED BY <2>2, <2>3, <2>5
<1>2. ASSUME NEW a \in AgentSockets, NEW c \in Codes, PairingBegin(a, c) PROVE IInv'
  <2>1. codes' \subseteq Code
    <3>1. [code |-> c, userId |-> UserOf[a], deviceId |-> deviceId[a]] \in Code
      BY <1>2 DEF PairingBegin, TypeOK, Code, Sockets
    <3> QED BY <1>2, <3>1 DEF PairingBegin, CodesWithout, TypeOK
  <2>2. TypeOK'
    BY <1>2, <2>1 DEF PairingBegin, TypeOK, txVars
  <2> QED BY <1>2, <2>2, QuietStep DEF PairingBegin
<1>3. ASSUME NEW a \in AgentSockets, AgentEndsTx(a) PROVE IInv'
  <2>1. TypeOK'
    BY <1>3 DEF AgentEndsTx, TypeOK
  <2> QED BY <1>3, <2>1, QuietStep DEF AgentEndsTx
<1> QED BY <1>1, <1>2, <1>3 DEF AgentStep

\* What browsers say.
LEMMA BrowserInv == ASSUME IInv, BrowserStep PROVE IInv'
<1> USE DEF IInv
<1>1. ASSUME NEW b \in BrowserSockets, NEW c \in codes, PairingConfirm(b, c) PROVE IInv'
  <2>1. c.deviceId \in Devices /\ c.userId \in Users
    BY DEF TypeOK, Code
  <2>2. paired' \subseteq Users \X BrowserIds \X Devices
    BY <1>1, <2>1 DEF PairingConfirm, TypeOK, Sockets
  <2>3. TypeOK'
    BY <1>1, <2>1, <2>2 DEF PairingConfirm, TypeOK, txVars
  <2> QED BY <1>1, <2>3, QuietStep DEF PairingConfirm
<1>2. ASSUME NEW b \in BrowserSockets, NEW d \in Devices, PairingRevoke(b, d) PROVE IInv'
  <2>1. TypeOK'
    BY <1>2, StopTxTypes DEF PairingRevoke, TypeOK
  <2> QED BY <1>2, <2>1, QuietStep DEF PairingRevoke
<1>3. ASSUME NEW b \in BrowserSockets, NEW d \in Devices, DeviceSelect(b, d) PROVE IInv'
  <2>1. TypeOK'
    BY <1>3, StopTxTypes DEF DeviceSelect, TypeOK
  <2> QED BY <1>3, <2>1, QuietStep DEF DeviceSelect
<1>4. ASSUME NEW b \in BrowserSockets, TxStart(b) PROVE IInv'
  <2>1. TypeOK'
    BY <1>4 DEF TxStart, TypeOK
  <2> QED BY <1>4, <2>1, QuietStep DEF TxStart
<1>5. ASSUME NEW b \in BrowserSockets, TxStop(b) PROVE IInv'
  <2>1. TypeOK'
    BY <1>5 DEF TxStop, TypeOK
  <2> QED BY <1>5, <2>1, QuietStep DEF TxStop
<1>6. ASSUME NEW b \in BrowserSockets, TxGrowsOld(b) PROVE IInv'
  <2>1. TypeOK'
    BY <1>6 DEF TxGrowsOld, TypeOK
  <2> QED BY <1>6, <2>1, QuietStep DEF TxGrowsOld
<1>7. ASSUME NEW b \in BrowserSockets, TxFrameRefused(b) PROVE IInv'
  <2>1. TypeOK'
    BY <1>7, StopTxTypes DEF TxFrameRefused, TypeOK
  <2> QED BY <1>7, <2>1, QuietStep DEF TxFrameRefused
<1> QED BY <1>1, <1>2, <1>3, <1>4, <1>5, <1>6, <1>7 DEF BrowserStep

\* What administrators do.
LEMMA AdminInv == ASSUME IInv, AdminStep PROVE IInv'
<1> USE DEF IInv
<1>1. ASSUME NEW u \in Users, AdminCloses(u) PROVE IInv'
  <2>1. PICK ss \in SUBSET clients : CloseClients(ss)
    BY <1>1 DEF AdminCloses, ClientsOf
  <2> QED BY <2>1, CloseClientsInv
<1>2. ASSUME NEW u \in Users, NEW i \in BrowserIds, NEW d \in Devices, AdminRevokes(u, i, d)
      PROVE  IInv'
  <2>1. paired' \subseteq paired /\ selected' \in [BrowserSockets -> Devices \cup {None}]
    BY <1>2 DEF AdminRevokes, TypeOK
  <2>2. TypeOK'
    BY <1>2, <2>1, StopTxTypes DEF AdminRevokes, TypeOK
  <2> QED BY <1>2, <2>2, QuietStep DEF AdminRevokes
<1> QED BY <1>1, <1>2 DEF AdminStep

\* One callback of the relay.
LEMMA NextInv == IInv /\ [Next]_vars => IInv'
<1> SUFFICES ASSUME IInv, [Next]_vars PROVE IInv'
  OBVIOUS
<1>1. ASSUME NEW c \in codes, CodeExpires(c) PROVE IInv'
  <2>1. TypeOK'
    BY <1>1 DEF CodeExpires, IInv, TypeOK, txVars
  <2> QED BY <1>1, <2>1, QuietStep DEF CodeExpires
<1>2. CASE UNCHANGED vars
  <2>1. TypeOK'
    BY <1>2 DEF vars, IInv, TypeOK
  <2> QED BY <1>2, <2>1, QuietStep DEF vars
<1> QED BY <1>1, <1>2, SocketInv, AgentInv, BrowserInv, AdminInv DEF Next

-----------------------------------------------------------------------------
\* The relay's tables keep their types.
THEOREM TypeCorrect == Spec => []TypeOK
<1>1. IInv => TypeOK
  BY DEF IInv
<1> QED BY <1>1, InitInv, NextInv, PTL DEF Spec

\* removeClient and registerAgent leave no device in the map without a socket
\* that will take it out again.
THEOREM NoGhosts == Spec => []NoGhostDevices
<1>1. IInv => NoGhostDevices
  BY DEF IInv
<1> QED BY <1>1, InitInv, NextInv, PTL DEF Spec

\* confirmPairing is the only way to a pairing, and it uses up a code that the
\* announced device of the same user had shown.
THEOREM PairingCostsCode == Spec => PairingUsesCode
<1> DEFINE Pays == \A p \in paired' \ paired : \E c \in codes \ codes' :
                     c.userId = p[1] /\ c.deviceId = p[3] /\ devices[<<p[1], p[3]>>] # None
<1>1. ASSUME NEW b \in BrowserSockets, NEW c \in codes, PairingConfirm(b, c) PROVE Pays
  <2>1. SUFFICES ASSUME NEW p \in paired' \ paired
                 PROVE  c.userId = p[1] /\ c.deviceId = p[3] /\ devices[<<p[1], p[3]>>] # None
    BY <1>1 DEF PairingConfirm
  <2>2. p = <<UserOf[b], BrowserIdOf[b], c.deviceId>>
    BY <1>1 DEF PairingConfirm
  <2> QED BY <1>1, <2>2 DEF PairingConfirm, Device
<1>2. ASSUME paired' \subseteq paired PROVE Pays
  BY <1>2
<1>3. ASSUME SocketStep PROVE paired' \subseteq paired
  BY <1>3 DEF SocketStep, Connect, StartsClosing, Closes
<1>4. ASSUME AgentStep PROVE paired' \subseteq paired
  BY <1>4 DEF AgentStep, AgentHello, PairingBegin, AgentEndsTx
<1>5. ASSUME BrowserStep PROVE Pays
  BY <1>1, <1>2, <1>5 DEF BrowserStep, PairingRevoke, DeviceSelect, TxStart, TxStop, TxGrowsOld,
     TxFrameRefused
<1>6. ASSUME AdminStep PROVE paired' \subseteq paired
  BY <1>6 DEF AdminStep, AdminCloses, CloseClients, AdminRevokes
<1>7. [Next]_vars => Pays
  BY <1>2, <1>3, <1>4, <1>5, <1>6 DEF Next, CodeExpires, vars
<1> QED BY <1>7, PTL DEF Spec, PairingUsesCode

\* When an agent has come back before the close of its old socket arrives,
\* removeClient of the old socket leaves the device to the new one.
THEOREM OldSocketsCloseAlone == Spec => DeviceSurvivesOldSocket
<1> DEFINE Survives == \A k \in Keys :
                         (devices[k] # None /\ devices'[k] = None) => socket'[devices[k]] # "open"
<1>1. ASSUME TypeOK, NEW ss \in SUBSET Sockets, NEW state \in {"closing", "closed"},
             RemoveClients(ss, state)
      PROVE  Survives
  <2> SUFFICES ASSUME NEW k \in Keys, devices[k] # None, devices'[k] = None
               PROVE  socket'[devices[k]] # "open"
    OBVIOUS
  <2>1. devices[k] \in ss
    BY <1>1 DEF RemoveClients, KeysHeld
  <2> QED BY <1>1, <2>1 DEF RemoveClients
<1>2. ASSUME TypeOK, SocketStep PROVE Survives
  BY <1>1, <1>2 DEF SocketStep, Connect, StartsClosing, Closes
<1>3. ASSUME TypeOK, AdminStep PROVE Survives
  <2>1. ASSUME NEW u \in Users, AdminCloses(u) PROVE Survives
    <3>1. PICK ss \in SUBSET clients : CloseClients(ss)
      BY <2>1 DEF AdminCloses, ClientsOf
    <3>2. ss \in SUBSET Sockets /\ RemoveClients(ss, "closing")
      BY <1>3, <3>1 DEF CloseClients, TypeOK
    <3> QED BY <1>1, <1>3, <3>2
  <2> QED BY <1>3, <2>1 DEF AdminStep, AdminRevokes
<1>4. ASSUME AgentStep PROVE Survives
  <2>1. ASSUME NEW a \in AgentSockets, NEW d \in Devices, deviceId[a] \in {None, d},
               AgentHello(a, d)
        PROVE  Survives
    <3>1. KeysNamed({a}) \subseteq {<<UserOf[a], d>>}
      BY <2>1 DEF KeysNamed
    <3>2. a # None
      BY DEF Sockets
    <3> QED BY <2>1, <3>1, <3>2 DEF AgentHello
  <2> QED BY <1>4, <2>1 DEF AgentStep, PairingBegin, AgentEndsTx
<1>5. ASSUME BrowserStep PROVE Survives
  BY <1>5 DEF BrowserStep, PairingConfirm, PairingRevoke, DeviceSelect, TxStart, TxStop,
     TxGrowsOld, TxFrameRefused
<1>6. IInv /\ [Next]_vars => Survives
  BY <1>2, <1>3, <1>4, <1>5 DEF IInv, Next, CodeExpires, vars
<1> QED BY <1>6, InitInv, NextInv, PTL DEF Spec, DeviceSurvivesOldSocket

\* stopBrowserTx tells every agent whose TX it ends, if it can be reached.
LEMMA StopTells ==
    ASSUME TypeOK, NEW bs, StopBrowserTx(bs), NEW b \in BrowserSockets,
           activeTx[b] # None, activeTx'[b] = None,
           Device(b, activeTx[b]) # None, socket[Device(b, activeTx[b])] = "open"
    PROVE  ~agentTx'[Device(b, activeTx[b])]
<1> DEFINE a == Device(b, activeTx[b])
<1>1. b \in bs
  BY DEF StopBrowserTx
<1>2. a \in AgentsOf(bs)
  BY <1>1 DEF AgentsOf
<1>3. a \in AgentSockets
  <2>1. <<UserOf[b], activeTx[b]>> \in Keys
    BY DEF Keys, Sockets, TypeOK
  <2> QED BY <2>1 DEF Device, TypeOK
<1>4. Open(a)
  BY DEF Open
<1> HIDE DEF a
<1>5. ~agentTx'[a]
  BY <1>2, <1>3, <1>4 DEF StopBrowserTx
<1> QED BY <1>5 DEF a

\* However a TX session on the selected device ends, its agent stops.
THEOREM EndedTxStopsAgent == Spec => TxEndReachesAgent
<1> DEFINE Ends(b) == /\ activeTx[b] # None /\ selected[b] = activeTx[b] /\ activeTx'[b] = None
                      /\ Device(b, activeTx[b]) # None
                      /\ socket'[Device(b, activeTx[b])] = "open"
           Told(b) == ~agentTx'[Device(b, activeTx[b])]
<1>1. ASSUME TypeOK, NEW b \in BrowserSockets, Ends(b), NEW bs, StopBrowserTx(bs), UNCHANGED socket
      PROVE  Told(b)
  BY <1>1, StopTells
<1>2. ASSUME TypeOK, NEW b \in BrowserSockets, Ends(b),
             NEW ss \in SUBSET Sockets, NEW state \in {"closing", "closed"},
             RemoveClients(ss, state)
      PROVE  Told(b)
  <2>1. StopBrowserTx(ss \cap clients \cap BrowserSockets)
    BY <1>2 DEF RemoveClients
  <2>2. Device(b, activeTx[b]) \in Sockets
    <3>1. <<UserOf[b], activeTx[b]>> \in Keys
      BY <1>2 DEF Keys, Sockets, TypeOK
    <3> QED BY <1>2, <3>1 DEF Device, TypeOK, Sockets
  <2>3. socket[Device(b, activeTx[b])] = "open"
    BY <1>2, <2>2 DEF RemoveClients
  <2> QED BY <1>2, <2>1, <2>3, StopTells
<1>3. ASSUME TypeOK, NEW b \in BrowserSockets, Ends(b), SocketStep PROVE Told(b)
  <2>1. PICK s \in Sockets : Closes(s)
    BY <1>3 DEF SocketStep, Connect, StartsClosing, txVars
  <2> QED BY <1>2, <1>3, <2>1 DEF Closes
<1>4. ASSUME TypeOK, NEW b \in BrowserSockets, Ends(b), AdminStep PROVE Told(b)
  <2>1. ASSUME NEW u \in Users, AdminCloses(u) PROVE Told(b)
    <3>1. PICK ss \in SUBSET clients : CloseClients(ss)
      BY <2>1 DEF AdminCloses, ClientsOf
    <3>2. ss \in SUBSET Sockets /\ RemoveClients(ss, "closing")
      BY <1>4, <3>1 DEF CloseClients, TypeOK
    <3> QED BY <1>2, <1>4, <3>2
  <2>2. ASSUME NEW u \in Users, NEW i \in BrowserIds, NEW d \in Devices, AdminRevokes(u, i, d)
        PROVE  Told(b)
    BY <1>1, <1>4, <2>2 DEF AdminRevokes
  <2> QED BY <1>4, <2>1, <2>2 DEF AdminStep
<1>5. ASSUME TypeOK, NEW b \in BrowserSockets, Ends(b), BrowserStep PROVE Told(b)
  <2>1. ASSUME NEW c \in BrowserSockets, NEW d \in Devices, PairingRevoke(c, d) \/ DeviceSelect(c, d)
        PROVE  Told(b)
    BY <1>1, <1>5, <2>1 DEF PairingRevoke, DeviceSelect
  <2>2. ASSUME NEW c \in BrowserSockets, TxFrameRefused(c) PROVE Told(b)
    BY <1>1, <1>5, <2>2 DEF TxFrameRefused
  <2>3. ASSUME NEW c \in BrowserSockets, TxStop(c) PROVE Told(b)
    <3>1. b = c
      BY <1>5, <2>3 DEF TxStop, TypeOK
    <3>2. Device(b, selected[b]) \in AgentSockets
      <4>1. <<UserOf[b], selected[b]>> \in Keys
        BY <1>5 DEF Keys, Sockets, TypeOK
      <4> QED BY <1>5, <4>1 DEF Device, TypeOK
    <3> QED BY <1>5, <2>3, <3>1, <3>2 DEF TxStop, TypeOK
  <2>4. ASSUME NEW c \in BrowserSockets,
               TxStart(c) \/ TxGrowsOld(c) \/ \E e \in codes : PairingConfirm(c, e)
        PROVE  FALSE
    BY <1>5, <2>4 DEF TxStart, Routable, TxGrowsOld, PairingConfirm, txVars, TypeOK
  <2> QED BY <1>5, <2>1, <2>2, <2>3, <2>4 DEF BrowserStep
<1>6. ASSUME NEW b \in BrowserSockets, Ends(b) PROVE ~AgentStep /\ ~UNCHANGED vars
  BY <1>6 DEF AgentStep, AgentHello, PairingBegin, AgentEndsTx, txVars, vars
<1>7. ASSUME NEW b \in BrowserSockets, Ends(b), NEW c \in codes PROVE ~CodeExpires(c)
  BY <1>7 DEF CodeExpires, txVars
<1>8. IInv /\ [Next]_vars => \A b \in BrowserSockets : Ends(b) => Told(b)
  BY <1>3, <1>4, <1>5, <1>6, <1>7 DEF IInv, Next
<1>9. IInv /\ [Next]_vars =>
        \A b \in BrowserSockets :
          LET a == Device(b, activeTx[b]) IN
          (activeTx[b] # None /\ selected[b] = activeTx[b] /\ activeTx'[b] = None
             /\ a # None /\ socket'[a] = "open") => ~agentTx'[a]
  BY <1>8
<1> QED BY <1>9, InitInv, NextInv, PTL DEF Spec, TxEndReachesAgent
=============================================================================
