------------------------------- MODULE Cockpit -------------------------------
(***************************************************************************)
(* The radio and transponder panels of the pages (webapp/app.js), the      *)
(* state the local agent keeps of them (proxy/app-state.js) and what       *)
(* PilotCore does.  A page shows what it asked for at once; PilotCore's    *)
(* transponder knows only a toggle; several pages and PilotUI may change   *)
(* the same thing, and what they sent and were sent is on its way.         *)
(*                                                                         *)
(* One radio stands for both; the page and the agent are on one computer.  *)
(***************************************************************************)
EXTENDS Naturals, Sequences, SequencesExt

CONSTANTS
    Tabs,           \* pages of the local web application
    Tunings,        \* COM frequencies
    Untuned,        \* no frequency is known
    MaxOrders,      \* bound: commands on their way
    MaxUpdates      \* bound: updates on their way when more are made

Modes == {"stby", "alt"}
NoMode == ""    \* no mode is known
Flipped(m) == IF m = "alt" THEN "stby" ELSE "alt"

VARIABLES
    coreOpen,       \* PilotCore is connected to the bridge
    simRadio, simMode,          \* what PilotCore is on
    currentCom, currentMode,    \* currentComFrequencies and currentXpdrState
    label, shownMode,       \* comFrequencies and xpdrMode of each page
    orders,         \* sent by a page, not handled
    updates,        \* sent to a page, not handled
    refusedTuning,  \* history variable: pages whose last tuning PilotCore could not take
    modeReported    \* history variable: pages sent a position since the last change of mode

cockpitVars == <<coreOpen, simRadio, simMode, currentCom, currentMode, label, shownMode, orders,
                 updates, refusedTuning, modeReported>>
simVars   == <<coreOpen, simRadio, simMode>>
panelVars == <<label, shownMode>>

CockpitInit ==
    /\ coreOpen = FALSE
    /\ simRadio \in Tunings /\ simMode = "stby"
    /\ currentCom = Untuned /\ currentMode = NoMode
    /\ label = [t \in Tabs |-> Untuned] /\ shownMode = [t \in Tabs |-> "stby"]
    /\ orders = [t \in Tabs |-> <<>>] /\ updates = [t \in Tabs |-> <<>>]
    /\ refusedTuning = {} /\ modeReported = {}

Told(queues, m) == [t \in Tabs |-> Append(queues[t], m)]
RoomForCommand == FoldFunction(LAMBDA q, n : n + Len(q), 0, orders) < MaxOrders  \* bound
RoomForAll == FoldFunction(LAMBDA q, n : n + Len(q), 0, updates) < MaxUpdates  \* bound

-----------------------------------------------------------------------------
(***************************************************************************)
(* The agent                                                               *)
(***************************************************************************)
\* Fault: the page that asked is not told.
ComUpdatedForOthers(t, f) ==
    /\ currentCom' = f
    /\ updates' = IF currentCom = f THEN updates
                  ELSE [u \in Tabs |-> IF u = t THEN updates[u] ELSE Append(updates[u], <<"freq_update", f>>)]

\* updateComFrequency(): only a change is told.
ComUpdated(t, f) ==
    /\ currentCom' = f
    /\ updates' = IF currentCom = f THEN updates ELSE Told(updates, <<"freq_update", f>>)

\* updateXpdrState()
ModeUpdated(m, queues) == IF currentMode = m THEN queues ELSE Told(queues, <<"xpdr_update", m>>)

\* setCom() of proxy.js
AgentSetsCom(t, f) ==
    /\ \/ /\ coreOpen
          /\ simRadio' = f
          /\ ComUpdated(t, f)
          /\ refusedTuning' = refusedTuning \ {t}
          /\ UNCHANGED <<coreOpen, simMode, currentMode, modeReported>>
       \/ /\ ~coreOpen
          /\ refusedTuning' = refusedTuning \cup {t}
          /\ UNCHANGED <<simVars, currentCom, currentMode, updates, modeReported>>

\* toggleXpdr() of proxy.js: the mode that was asked for is noted, not sent.
AgentToggles(m) ==
    \/ /\ coreOpen
       /\ simMode' = Flipped(simMode)
       /\ currentMode' = m
       /\ updates' = ModeUpdated(m, updates)
       /\ modeReported' = {}
       /\ UNCHANGED <<coreOpen, simRadio, currentCom, refusedTuning>>
    \/ /\ ~coreOpen
       /\ UNCHANGED <<simVars, currentCom, currentMode, updates, refusedTuning, modeReported>>

AgentHandles(t) ==
    /\ orders[t] # <<>>
    /\ RoomForAll
    /\ orders' = [orders EXCEPT ![t] = Tail(@)]
    /\ LET c == Head(orders[t])
       IN  IF c[1] = "sim_com" THEN AgentSetsCom(t, c[2]) ELSE AgentToggles(c[2])
    /\ UNCHANGED panelVars

\* learnComFrequency(): PilotUI tunes, or PilotCore tells its frequency when it
\* starts.
CoreTells(f) ==
    /\ coreOpen /\ RoomForAll
    /\ simRadio' = f
    /\ currentCom' = f
    /\ updates' = IF currentCom = f THEN updates ELSE Told(updates, <<"freq_update", f>>)
    /\ UNCHANGED <<coreOpen, simMode, currentMode, panelVars, orders, refusedTuning, modeReported>>

\* A position of the own aircraft goes to IVAO and names the mode; it is sent on
\* to the pages after what it changed (rememberFsdState, broadcast).
PositionSeen ==
    /\ coreOpen /\ RoomForAll
    /\ currentMode' = simMode
    /\ updates' = Told(ModeUpdated(simMode, updates), <<"own_position", simMode>>)
    /\ modeReported' = Tabs
    /\ UNCHANGED <<simVars, currentCom, panelVars, orders, refusedTuning>>

\* The pilot presses the buttons of Altitude.
PilotToggles ==
    /\ coreOpen
    /\ simMode' = Flipped(simMode)
    /\ modeReported' = {}
    /\ UNCHANGED <<coreOpen, simRadio, currentCom, currentMode, panelVars, orders, updates, refusedTuning>>

CoreComes ==
    /\ ~coreOpen
    /\ coreOpen' = TRUE
    /\ UNCHANGED <<simRadio, simMode, currentCom, currentMode, panelVars, orders, updates, refusedTuning,
                   modeReported>>

CoreGoes ==
    /\ coreOpen
    /\ coreOpen' = FALSE
    /\ UNCHANGED <<simRadio, simMode, currentCom, currentMode, panelVars, orders, updates, refusedTuning,
                   modeReported>>

-----------------------------------------------------------------------------
(***************************************************************************)
(* A page                                                                  *)
(***************************************************************************)
\* tuneCom(): the label follows what was sent.
TuneCom(t, f) ==
    /\ RoomForCommand
    /\ orders' = [orders EXCEPT ![t] = Append(@, <<"sim_com", f>>)]
    /\ label' = [label EXCEPT ![t] = f]
    /\ UNCHANGED <<simVars, currentCom, currentMode, shownMode, updates, refusedTuning, modeReported>>

\* setXpdrMode(): a toggle, if the page shows the other mode.
SetXpdrMode(t, m) ==
    /\ shownMode[t] # m
    /\ RoomForCommand
    /\ orders' = [orders EXCEPT ![t] = Append(@, <<"sim_xpdr", m>>)]
    /\ shownMode' = [shownMode EXCEPT ![t] = m]
    /\ modeReported' = modeReported \ {t}
    /\ UNCHANGED <<simVars, currentCom, currentMode, label, updates, refusedTuning>>

SetComLabel(t, f) == label' = [label EXCEPT ![t] = f] /\ UNCHANGED shownMode
ApplyXpdrState(t, m) == shownMode' = [shownMode EXCEPT ![t] = m] /\ UNCHANGED label

\* freq_update, and the xpdr_update and own_position that name a mode.
PageApplies(t) ==
    /\ updates[t] # <<>>
    /\ LET u == Head(updates[t])
       IN  IF u[1] = "freq_update" THEN SetComLabel(t, u[2]) ELSE ApplyXpdrState(t, u[2])
    /\ updates' = [updates EXCEPT ![t] = Tail(@)]
    /\ UNCHANGED <<simVars, currentCom, currentMode, orders, refusedTuning, modeReported>>

\* The page is loaded again: the state of the agent (init) replaces its own, as far
\* as the agent knows it.
PageLoads(t) ==
    /\ orders[t] = <<>>
    /\ updates' = [updates EXCEPT ![t] = <<>>]
    /\ label' = [label EXCEPT ![t] = currentCom]
    /\ shownMode' = [shownMode EXCEPT ![t] = IF currentMode = NoMode THEN @ ELSE currentMode]
    /\ refusedTuning' = refusedTuning \ {t}
    /\ modeReported' = modeReported \ {t}
    /\ UNCHANGED <<simVars, currentCom, currentMode, orders>>

CockpitNext ==
    \/ CoreComes \/ CoreGoes \/ PilotToggles \/ PositionSeen
    \/ \E f \in Tunings : CoreTells(f)
    \/ \E t \in Tabs :
        \/ AgentHandles(t) \/ PageApplies(t) \/ PageLoads(t)
        \/ \E f \in Tunings : TuneCom(t, f)
        \/ \E m \in Modes : SetXpdrMode(t, m)

CockpitSpec == CockpitInit /\ [][CockpitNext]_cockpitVars

-----------------------------------------------------------------------------
AllHandled == \A t \in Tabs : orders[t] = <<>> /\ updates[t] = <<>>

\* However the pages and PilotUI tuned against one another, when all has arrived
\* every page shows the frequency PilotCore is on, unless PilotCore was not there
\* to take what the page asked for; and the mode of the transponder, once a
\* position has gone out after the last change and the page's last press.
PanelsSettle ==
    AllHandled =>
        \A t \in Tabs :
            /\ t \notin refusedTuning => label[t] = currentCom
            /\ t \in modeReported => shownMode[t] = simMode
            /\ currentCom \in {Untuned, simRadio}
==============================================================================
