----------------------------- MODULE LocalServices -----------------------------
(***************************************************************************)
(* What runs on the pilot's computer and in the browser beside the flight  *)
(* connection: the local proxy's voice path, subscription store, flight    *)
(* state, pilot bridge and UNICOM reminder, the updater, and the web       *)
(* page's composer, chat tabs and their order, message list, requests,     *)
(* alert settings, sound and station menus.  Each is a module of its own.  *)
(* They share no variable: a behaviour is a behaviour of the part chosen   *)
(* initially, so that one run explores them all.                           *)
(***************************************************************************)
EXTENDS UnicomTimer, VoicePath, PushStore, FlightState, PilotBridge, LocalUpdate, WebComposer,
        WebTabs, WebAlerts, WebSound, WebRequests, ChatList, TabDrag, StationMenus

VARIABLE part

proxyVars == <<vars, voiceVars, storeVars, flightStateVars, bridgeVars, updateVars>>
webVars   == <<composerVars, tabVars, alertPageVars, soundVars, requestVars, chatVars, dragVars,
               stationVars>>

Services == {"unicom", "voice", "store", "flight", "bridge", "update", "composer", "tabs", "alerts",
             "sound", "requests", "chat", "drag", "stations"}

\* What the parts that are not chosen may choose does not matter.
Idle(p) == part # p
PartsInit ==
    /\ Init /\ VoiceInit /\ StoreInit /\ FlightInit /\ UpdateInit /\ SoundInit /\ RequestsInit
    /\ BridgeInit /\ (Idle("bridge") => altitude = "legacy" /\ tuned = CHOOSE f \in Channels : TRUE)
    /\ ComposerInit /\ (Idle("composer") => sender = NoSender /\ frequency = CHOOSE f \in Frequencies : TRUE)
    /\ TabsInit /\ (Idle("tabs") => host = CHOOSE h \in Remotes : TRUE)
    /\ AlertPageInit /\ (Idle("alerts") => preference = CHOOSE p \in Preferences : TRUE)
    /\ ChatInit /\ (Idle("chat") => radio = CHOOSE f \in ChatRadios : TRUE)
    /\ DragInit /\ (Idle("drag") => agent = CHOOSE a \in Aircraft : TRUE)
    /\ StationsInit /\ (Idle("stations") => ~remote)

\* The chosen part steps, the others rest.
PartsNext ==
    /\ UNCHANGED part
    /\ IF part = "unicom" THEN Next ELSE UNCHANGED vars
    /\ IF part = "voice" THEN VoiceNext ELSE UNCHANGED voiceVars
    /\ IF part = "store" THEN StoreNext ELSE UNCHANGED storeVars
    /\ IF part = "flight" THEN FlightNext ELSE UNCHANGED flightStateVars
    /\ IF part = "bridge" THEN BridgeNext ELSE UNCHANGED bridgeVars
    /\ IF part = "update" THEN UpdateNext ELSE UNCHANGED updateVars
    /\ IF part = "composer" THEN ComposerNext ELSE UNCHANGED composerVars
    /\ IF part = "tabs" THEN TabsNext ELSE UNCHANGED tabVars
    /\ IF part = "alerts" THEN AlertPageNext ELSE UNCHANGED alertPageVars
    /\ IF part = "sound" THEN SoundNext ELSE UNCHANGED soundVars
    /\ IF part = "requests" THEN RequestsNext ELSE UNCHANGED requestVars
    /\ IF part = "chat" THEN ChatNext ELSE UNCHANGED chatVars
    /\ IF part = "drag" THEN DragNext ELSE UNCHANGED dragVars
    /\ IF part = "stations" THEN StationsNext ELSE UNCHANGED stationVars

LocalSpec == part \in Services /\ PartsInit /\ [][PartsNext]_<<part, proxyVars, webVars>>

-----------------------------------------------------------------------------
\* The voice path holds together across logins, reconnections and resets: Web TX
\* speaks under the session of the last login, a transmission never moves to another
\* session or outlives its owner, and nothing is heard of an earlier login.
VoicePathHolds ==
    /\ SessionFollowsLogin
    /\ TransmissionKeepsSession
    /\ TxHasOwner
    /\ LampShowsTransmission
    /\ SoundIsCurrent

\* The weather shown is that of the airports planned now, and the report a chat
\* command asked for is shown to it.
WeatherForPlanAndPilot == WeatherMatchesPlan /\ CommandAnswered

\* The radio the panel shows is the one the aircraft is on, with the exceptions that
\* RadioAsShown names, and the station it shows for it is one that is there.
PanelTellsTruth == RadioAsShown /\ MenuNamesWhoIsThere

\* No text goes astray: a message goes to whom it was written, and what was typed
\* and not sent is kept for whom it was typed.
NoTextStrays == MessageGoesWhereTyped /\ DraftsKept

\* The tabs are as the pilot left them: what he closed stays closed, and what he
\* dragged, or did not mean to drag, stands where he put it.
TabsAsArranged == ClosedTabStaysClosed /\ DragIsHarmless
================================================================================
