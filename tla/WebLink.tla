------------------------------- MODULE WebLink -------------------------------
(***************************************************************************)
(* The page's connection (webapp/app.js): push to talk, and the control    *)
(* channel that carries it, whose loss ends a transmission.                *)
(***************************************************************************)
EXTENDS Naturals, FiniteSets, Sequences

(***************************************************************************)
(* Push to talk: two hold buttons (TX and the settings monitor), one       *)
(* capture of the microphone that the browser grants or refuses later, the *)
(* tail that keeps a released transmission open for 300 ms, and the state  *)
(* of the page that ends a transmission.                                   *)
(*                                                                         *)
(* holdSeq is the txStartSeq of the last press, which names the capture of *)
(* that press.  A stop increments txStartSeq too, but it also clears        *)
(* txHoldActive, which the next press sets with a number of its own: no     *)
(* hold check can tell the difference, so only presses count here.         *)
(***************************************************************************)
CONSTANTS
    MaxPresses,     \* bound: increments of txStartSeq
    NoTx            \* state.tx is null

ASSUME TalkAssumption == MaxPresses \in Nat

Buttons == {"tx1", "monitor"}
Captures == [seq : 1..MaxPresses, monitor : BOOLEAN]
ASSUME NoTxAssumption == NoTx \notin Captures

VARIABLES
    pressed,        \* buttons whose activePointerId is set
    holdActive,     \* state.txHoldActive
    holdSeq,        \* state.txStartSeq
    asking,         \* captures that wait for getUserMedia() or for the audio context
    onAir,          \* state.tx
    tail,           \* state.tx.tailTimer is armed
    microphones,    \* captures whose tracks are live
    txReady         \* webTxEnabled and txReady

talkVars == <<pressed, holdActive, holdSeq, asking, onAir, tail, microphones, txReady>>

TalkInit ==
    /\ pressed = {} /\ holdActive = FALSE /\ holdSeq = 0 /\ asking = {}
    /\ onAir = NoTx /\ tail = FALSE /\ microphones = {} /\ txReady = FALSE

-----------------------------------------------------------------------------
\* The capture belongs to the last press.
LastPress(seq) == seq = holdSeq

\* isTxHoldCurrent().
HoldCurrent(seq) == holdActive /\ LastPress(seq)

\* finishTx(tx): forget the transmission and release its microphone.
FinishTx ==
    /\ onAir' = NoTx /\ tail' = FALSE
    /\ microphones' = microphones \ {onAir}

\* stopTx() ends every hold; a monitor finishes at once, a transmission after
\* its tail, and a tail that runs is left running.
StopTx ==
    /\ holdActive' = FALSE
    /\ IF onAir # NoTx /\ onAir.monitor
       THEN FinishTx
       ELSE /\ tail' = (onAir # NoTx)
            /\ UNCHANGED <<onAir, microphones>>

-----------------------------------------------------------------------------
\* begin() of bindHoldButton() and the part of startTx() that runs at once.  A
\* button whose release was never delivered still has its pointer and ignores
\* the press.
Press(button, disabled) ==
    LET monitor == button = "monitor"
        refused == ~monitor /\ ~txReady
        capture == [seq |-> holdSeq + 1, monitor |-> monitor]
    IN  /\ ~disabled /\ button \notin pressed /\ holdSeq < MaxPresses
        /\ pressed' = pressed \cup {button}
        /\ holdActive' = TRUE /\ holdSeq' = holdSeq + 1
        /\ tail' = (tail /\ refused)
        /\ asking' = IF refused \/ onAir # NoTx THEN asking ELSE asking \cup {capture}
        /\ UNCHANGED <<onAir, microphones, txReady>>

\* end() of bindHoldButton().
Release(button) ==
    /\ button \in pressed
    /\ pressed' = pressed \ {button}
    /\ StopTx
    /\ UNCHANGED <<holdSeq, asking, txReady>>

\* The microphone and its audio context are ready.  The capture of a hold that
\* ended meanwhile is released, and so is one whose start cannot be sent.
CaptureGranted(capture, sent) ==
    /\ capture \in asking
    /\ asking' = asking \ {capture}
    /\ IF HoldCurrent(capture.seq) /\ sent
       THEN /\ onAir' = capture /\ tail' = FALSE
            /\ microphones' = microphones \cup {capture}
       ELSE UNCHANGED <<onAir, tail, microphones>>
    /\ holdActive' = (holdActive /\ (HoldCurrent(capture.seq) => sent))
    /\ UNCHANGED <<pressed, holdSeq, txReady>>

\* The microphone is refused, or it is granted and the audio context then
\* fails: in that case nothing stops its tracks (pending is still null).  The
\* handler stops what is on the air, a later press included.
CaptureFails(capture, opened) ==
    /\ capture \in asking
    /\ asking' = asking \ {capture}
    /\ holdActive' = FALSE /\ onAir' = NoTx /\ tail' = FALSE
    /\ microphones' = (microphones \ {onAir}) \cup (IF opened THEN {capture} ELSE {})
    /\ UNCHANGED <<pressed, holdSeq, txReady>>

\* TX_RELEASE_TAIL_MS after the release.
TailEnds ==
    /\ tail
    /\ FinishTx
    /\ UNCHANGED <<pressed, holdActive, holdSeq, asking, txReady>>

\* setWebTxStatus().
ReadinessChanges(ready) ==
    /\ txReady' = ready
    /\ UNCHANGED <<pressed, holdActive, holdSeq, asking, onAir, tail, microphones>>

-----------------------------------------------------------------------------
\* A granted capture goes on the air only while its own press is held, however
\* late the browser grants it (the comment of isTxHoldCurrent): a transmission
\* that nobody holds is in its tail.
OnAirWhileHeld == onAir # NoTx => holdActive \/ tail

-----------------------------------------------------------------------------
(***************************************************************************)
(* The control channel of the page (webapp/app.js), to the local proxy or  *)
(* to the relay: its WebSocket and the generation that makes events of a   *)
(* replaced socket void, the retry timers, the heartbeat, the choice of an *)
(* agent, and the online state with the delay before the blocking overlay. *)
(*                                                                         *)
(* The relay and its agents are external here: two FIFO channels to the    *)
(* current socket, the agents that are online and the selection that the   *)
(* relay keeps for the socket.                                             *)
(***************************************************************************)
CONSTANTS
    Agents,         \* deviceIds of the account
    NoAgent,        \* no selection
    MaxSockets,     \* bound: generations
    MaxComings,     \* bound: an agent comes or goes
    MaxMessages     \* bound: messages in one channel

ASSUME LinkAssumption == /\ NoAgent \notin Agents /\ IsFiniteSet(Agents)
                         /\ MaxSockets \in Nat /\ MaxComings \in Nat /\ MaxMessages \in Nat

VARIABLES
    mode,           \* state.remote.enabled, as "local" or "remote"
    pageGeneration, \* state.generation
    ws,             \* state of the current socket
    oldSockets,     \* replaced sockets whose close event is still to come
    retries,        \* armed setTimeout(connect) timers
    unanswered,     \* no pong for longer than the page waits for one
    connected,      \* state.connected
    controlsOff,    \* state.controlsDisabled
    offlineTimer,   \* altitudeOfflineTimer is armed
    status,         \* the last thing the page was told of the flight on this socket
    known,          \* state.remoteDevices
    chosen,         \* remoteSelectedDeviceId
    chosenHere,     \* remoteSelectedOnCurrentSocket
    agentsUp,       \* external: agents that are online at the relay
    relaySelected,  \* external: what the relay selected for the current socket
    refusals,       \* external: selections the relay refused on the current socket
    toRelay, toPage, comings

controlVars == <<mode, pageGeneration, ws, oldSockets, retries, unanswered, connected, controlsOff,
                 offlineTimer, status, known, chosen, chosenHere, agentsUp, relaySelected, refusals,
                 toRelay, toPage, comings>>
pageVars == <<talkVars, controlVars>>
socketVars == <<mode, pageGeneration, ws, oldSockets, retries, unanswered>>
landingVars == <<connected, controlsOff, offlineTimer, status>>
choiceVars == <<known, chosen, chosenHere>>
farVars == <<agentsUp, relaySelected, refusals, toRelay, toPage, comings>>

\* The page starts with the agent it saved last, if any.
PageInit ==
    /\ TalkInit
    /\ mode \in {"local", "remote"}
    /\ pageGeneration = 0 /\ ws = "none" /\ oldSockets = {} /\ retries = 0 /\ unanswered = FALSE
    /\ connected = FALSE /\ controlsOff = TRUE /\ offlineTimer = FALSE /\ status = "none"
    /\ known = {} /\ chosenHere = NoAgent
    /\ chosen \in (IF mode = "remote" THEN Agents \cup {NoAgent} ELSE {NoAgent})
    /\ agentsUp \in (IF mode = "remote" THEN SUBSET Agents ELSE {{}})
    /\ relaySelected = NoAgent /\ refusals = {}
    /\ toRelay = <<>> /\ toPage = <<>> /\ comings = 0

-----------------------------------------------------------------------------
\* setOffline(): the overlay, no controls and no transmission.
GoOffline ==
    /\ connected' = FALSE /\ controlsOff' = TRUE
    /\ StopTx /\ UNCHANGED <<pressed, holdSeq, asking>>

\* connect(true), or connect() when there is no usable socket: the former
\* socket is closed and its events no longer count.
OpenSocket ==
    /\ pageGeneration < MaxSockets
    /\ pageGeneration' = pageGeneration + 1
    /\ ws' = "connecting" /\ unanswered' = FALSE
    /\ oldSockets' = oldSockets \cup (IF ws \in {"connecting", "open"} THEN {pageGeneration} ELSE {})
    /\ relaySelected' = NoAgent /\ refusals' = {} /\ toRelay' = <<>> /\ toPage' = <<>>
    /\ status' = "none"
    /\ UNCHANGED <<mode, agentsUp, comings, connected, controlsOff, offlineTimer, choiceVars, talkVars>>

PageStarts  == ws = "none" /\ OpenSocket /\ UNCHANGED retries

\* setTimeout(connect, 2500) after a close.
RetryFires ==
    /\ retries > 0 /\ retries' = retries - 1
    /\ IF ws = "closed" THEN OpenSocket
       ELSE UNCHANGED <<mode, pageGeneration, ws, oldSockets, unanswered, landingVars, choiceVars, farVars, talkVars>>

\* heartbeat() and resumeFromStandby(): a socket that is closed, too long in
\* connecting, or silent is replaced; otherwise a ping is sent.
Heartbeat ==
    /\ ws = "closed" \/ unanswered
    /\ OpenSocket /\ UNCHANGED retries

\* Nothing arrives for PONG_TIMEOUT_MS (or CONNECT_TIMEOUT_MS), as after standby.
FallsSilent ==
    /\ ws \in {"connecting", "open"} /\ ~unanswered
    /\ unanswered' = TRUE
    /\ UNCHANGED <<mode, pageGeneration, ws, oldSockets, retries, landingVars, choiceVars, farVars, talkVars>>

Select(agent) == [type |-> "select", agent |-> agent]
DeviceList == [type |-> "list", agent |-> NoAgent]
DeviceState(agent, online) == [type |-> IF online THEN "online" ELSE "offline", agent |-> agent]

\* setRemoteRelayOnline(): what the overlay hid can be used again.
RelayOnline ==
    /\ controlsOff' = FALSE /\ offlineTimer' = FALSE /\ txReady' = FALSE
    /\ UNCHANGED <<pressed, holdActive, holdSeq, asking, onAir, tail, microphones>>

\* The list is asked for and the saved agent is selected, whether or not it is
\* online yet.
AsksAgain ==
    /\ chosenHere' = chosen
    /\ toRelay' = <<DeviceList>> \o (IF chosen = NoAgent THEN <<>> ELSE <<Select(chosen)>>)

\* onopen of connectLocal() and connectRemote().
SocketOpens ==
    /\ ws = "connecting" /\ ~unanswered
    /\ ws' = "open"
    /\ \/ mode = "remote" /\ RelayOnline /\ AsksAgain
       \/ mode = "local" /\ UNCHANGED <<controlsOff, offlineTimer, chosenHere, toRelay, talkVars>>
    /\ UNCHANGED <<mode, pageGeneration, oldSockets, retries, unanswered, connected, status, known, chosen,
                   agentsUp, relaySelected, refusals, toPage, comings>>

\* onclose: only the current generation takes the page offline.
SocketCloses(g) ==
    /\ g \in oldSockets \/ (g = pageGeneration /\ ws \in {"connecting", "open"})
    /\ oldSockets' = oldSockets \ {g}
    /\ IF g = pageGeneration
       THEN /\ ws' = "closed" /\ retries' = retries + 1 /\ unanswered' = FALSE /\ status' = "none"
            /\ relaySelected' = NoAgent /\ toRelay' = <<>> /\ toPage' = <<>>
            /\ GoOffline /\ UNCHANGED <<txReady, offlineTimer>>
       ELSE UNCHANGED <<ws, retries, unanswered, landingVars, relaySelected, toRelay, toPage, talkVars>>
    /\ UNCHANGED <<mode, pageGeneration, choiceVars, agentsUp, refusals, comings>>

-----------------------------------------------------------------------------
\* The page is online; clearAltitudeOfflineTimer() is not called.
SetOnlineKeepsTimer ==
    /\ connected' = TRUE /\ controlsOff' = FALSE
    /\ UNCHANGED <<offlineTimer, pressed, holdActive, holdSeq, asking, onAir, tail, microphones>>

\* setOnline(): also ends the wait for the overlay.
SetOnline ==
    /\ connected' = TRUE /\ controlsOff' = FALSE /\ offlineTimer' = FALSE
    /\ UNCHANGED <<pressed, holdActive, holdSeq, asking, onAir, tail, microphones>>

\* setOverlay("altitude"): a page that was online waits before it blocks.
SetOverlay ==
    IF connected
    THEN /\ offlineTimer' = TRUE
         /\ UNCHANGED <<connected, controlsOff, pressed, holdActive, holdSeq, asking, onAir, tail,
                        microphones>>
    ELSE GoOffline /\ UNCHANGED offlineTimer

OfflineTimerFires ==
    /\ offlineTimer /\ offlineTimer' = FALSE
    /\ GoOffline
    /\ UNCHANGED <<status, txReady, socketVars, choiceVars, farVars>>

Arrives(message) ==
    /\ ws = "open" /\ ~unanswered /\ toPage # <<>>
    /\ message = Head(toPage) /\ toPage' = Tail(toPage)
    /\ UNCHANGED <<socketVars, agentsUp, relaySelected, refusals, comings>>

\* selectRemoteDevice(agent, { force: true }).
Chooses(agent) ==
    /\ chosen' = agent /\ chosenHere' = agent
    /\ toRelay' = Append(toRelay, Select(agent))

\* updateRemoteDevice() for an agent that is online: it is chosen when the page
\* has no agent that is online, or has not selected this one on this socket.
AgentOnline ==
    \E agent \in Agents :
        /\ Arrives(DeviceState(agent, TRUE))
        /\ known' = known \cup {agent}
        /\ IF chosen \notin known' \/ (chosen = agent /\ chosenHere # agent)
           THEN Chooses(agent)
           ELSE UNCHANGED <<chosen, chosenHere, toRelay>>
        /\ UNCHANGED <<landingVars, talkVars>>

\* updateRemoteDevice() for an agent that is offline.
AgentOffline ==
    \E agent \in Agents :
        /\ Arrives(DeviceState(agent, FALSE))
        /\ known' = known \ {agent}
        /\ IF chosen = agent
           THEN /\ chosen' = NoAgent /\ chosenHere' = NoAgent
                /\ status' = "none"
                /\ GoOffline /\ UNCHANGED <<txReady, offlineTimer>>
           ELSE UNCHANGED <<chosen, chosenHere, landingVars, talkVars>>
        /\ UNCHANGED toRelay

\* applyRemotePairingRevoked(): remoteSelectedOnCurrentSocket is not touched.
PairingRevoked ==
    \E agent \in Agents :
        /\ Arrives([type |-> "revoked", agent |-> agent])
        /\ known' = IF chosen = agent THEN known \ {agent} ELSE known
        /\ chosen' = IF chosen = agent THEN NoAgent ELSE chosen
        /\ status' = "none"
        /\ GoOffline /\ UNCHANGED <<txReady, offlineTimer, chosenHere, toRelay>>

\* applyRemoteAgentStatus(): connected, readiness, and the overlay.
StatusArrives ==
    \E online \in BOOLEAN, ready \in BOOLEAN :
        /\ Arrives([type |-> IF online THEN "flight" ELSE "noflight", agent |-> relaySelected])
        /\ status' = IF online THEN "flight" ELSE "noflight"
        /\ txReady' = ready
        /\ IF online THEN SetOnline ELSE SetOverlay
        /\ UNCHANGED <<choiceVars, toRelay>>

-----------------------------------------------------------------------------
\* The relay (external): its answers reach the page in order.
RelayAnswers(messages) == toPage' = toPage \o messages /\ Len(toPage') <= MaxMessages

RelayHandles ==
    /\ ws = "open" /\ ~unanswered /\ toRelay # <<>> /\ toRelay' = Tail(toRelay)
    /\ \/ /\ Head(toRelay) = DeviceList
          /\ \E order \in [1..Cardinality(agentsUp) -> agentsUp] :
                /\ {order[i] : i \in DOMAIN order} = agentsUp
                /\ RelayAnswers([i \in DOMAIN order |-> DeviceState(order[i], TRUE)])
          /\ UNCHANGED <<relaySelected, refusals>>
       \/ /\ Head(toRelay).type = "select" /\ Head(toRelay).agent \in agentsUp
          /\ relaySelected' = Head(toRelay).agent
          /\ RelayAnswers(<<DeviceState(relaySelected', TRUE)>>)
          /\ UNCHANGED refusals
       \/ /\ Head(toRelay).type = "select" /\ Head(toRelay).agent \notin agentsUp
          /\ refusals' = refusals \cup {Head(toRelay).agent}
          /\ UNCHANGED <<relaySelected, toPage>>
    /\ UNCHANGED <<agentsUp, comings, talkVars, socketVars, landingVars, choiceVars>>

RelayReports(message) ==
    /\ IF ws = "open" THEN RelayAnswers(<<message>>) ELSE UNCHANGED toPage
    /\ UNCHANGED <<toRelay, refusals, talkVars, socketVars, landingVars, choiceVars>>

AgentComes(agent) ==
    /\ mode = "remote" /\ agent \notin agentsUp /\ comings < MaxComings
    /\ agentsUp' = agentsUp \cup {agent} /\ comings' = comings + 1
    /\ RelayReports(DeviceState(agent, TRUE)) /\ UNCHANGED relaySelected

AgentGoes(agent) ==
    /\ agent \in agentsUp /\ comings < MaxComings
    /\ agentsUp' = agentsUp \ {agent} /\ comings' = comings + 1
    /\ RelayReports(DeviceState(agent, FALSE)) /\ UNCHANGED relaySelected

RelayRevokes(agent) ==
    /\ relaySelected = agent /\ comings < MaxComings
    /\ relaySelected' = NoAgent /\ comings' = comings + 1
    /\ RelayReports([type |-> "revoked", agent |-> agent]) /\ UNCHANGED agentsUp

\* A status of the selected agent, or of the local proxy; at most one waits.
AgentReports(online) ==
    /\ mode = "local" \/ relaySelected \in agentsUp
    /\ \A i \in DOMAIN toPage : toPage[i].type \notin {"flight", "noflight"}
    /\ RelayReports([type |-> IF online THEN "flight" ELSE "noflight", agent |-> relaySelected])
    /\ UNCHANGED <<agentsUp, relaySelected, comings>>

-----------------------------------------------------------------------------
TalkStep ==
    /\ \/ \E button \in Buttons :
            \/ Press(button, controlsOff \/ (button = "monitor" /\ mode = "remote"))
            \/ Release(button)
       \/ \E capture \in asking, outcome \in BOOLEAN :
            \/ outcome /\ CaptureGranted(capture, ws = "open")
            \/ CaptureFails(capture, outcome)
       \/ TailEnds
    /\ UNCHANGED controlVars

PageNext ==
    \/ PageStarts \/ RetryFires \/ Heartbeat \/ FallsSilent \/ SocketOpens
    \/ \E g \in 1..MaxSockets : SocketCloses(g)
    \/ AgentOnline \/ AgentOffline \/ PairingRevoked \/ StatusArrives \/ OfflineTimerFires
    \/ RelayHandles
    \/ \E agent \in Agents : AgentComes(agent) \/ AgentGoes(agent) \/ RelayRevokes(agent)
    \/ \E online \in BOOLEAN : AgentReports(online)
    \/ TalkStep

PageSpec == PageInit /\ [][PageNext]_pageVars

-----------------------------------------------------------------------------
\* A short interruption of the flight never blocks a page that is online
\* again: while the last report on the socket says online, the page is online,
\* whatever timers, replaced sockets and late close events are still to come
\* (the comment of setOverlay).
OnlineIsNotBlocked == ws = "open" /\ status = "flight" => connected /\ ~controlsOff

LinkSettled == ws = "open" /\ ~unanswered /\ toRelay = <<>> /\ toPage = <<>>

\* On every socket the page asks for the agent it shows: once nothing is on its
\* way, the relay serves that agent or has refused it on this very socket.
ShownIsServedOrRefused ==
    LinkSettled /\ chosen \in known => relaySelected = chosen \/ chosen \in refusals

\* The page keeps up with the link: with the flight's state, and with the relay's
\* selection, which are the two it blocks or frees its controls by.
PageKeepsUp == OnlineIsNotBlocked /\ ShownIsServedOrRefused

\* app.js:395 shows "Ready" for an agent that is selected and online: once
\* nothing is on its way, that is the agent the relay serves to this page.
ReadyMeansSelected == LinkSettled /\ chosen \in known => relaySelected = chosen
=============================================================================
