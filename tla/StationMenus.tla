----------------------------- MODULE StationMenus -----------------------------
(***************************************************************************)
(* The station menu of a COM panel: the controllers the local agent has    *)
(* heard of (proxy/app-state.js), what reaches a page of them, directly or *)
(* in the snapshots of the remote agent (proxy/remote-agent.js), and the   *)
(* controller that the page names for its radio (webapp/app.js), while     *)
(* controllers change frequency, the aircraft leaves their range, and      *)
(* several pages and PilotUI tune.                                         *)
(*                                                                         *)
(* One radio stands for both, and PilotCore is there to take what the      *)
(* pages ask for.  Cockpit has the radio without the stations.             *)
(***************************************************************************)
EXTENDS Naturals, Sequences, FiniteSets

CONSTANTS
    Controllers,    \* callsigns
    Waves,          \* frequencies
    Places,         \* positions of the aircraft that make a difference
    InReach,        \* the controllers that are not too far from a place
    Nowhere,        \* no position, no frequency, no controller
    MaxNews,        \* bound: reports and moves
    MaxTunings      \* bound: tunings

ASSUME StationAssumption ==
    /\ InReach \in [Places -> SUBSET Controllers]
    /\ Nowhere \notin Controllers \cup Waves \cup Places
    /\ MaxNews \in Nat /\ MaxTunings \in Nat

VARIABLES
    remote,         \* the page is behind the relay
    knownStations,  \* their frequencies, as the agent heard them
    ownPlace,       \* ownPosition
    comWave, comStation,            \* currentComFrequencies, currentComStations
    pageStations, pagePlace,        \* stations and ownPosition of the page
    pageWave, pageStation,          \* comFrequencies and comStations of the page
    stationNews,    \* sent to the page, not handled
    tunings,        \* sent by the page, not handled
    newsCount, tuningCount

stationVars == <<remote, knownStations, ownPlace, comWave, comStation, pageStations, pagePlace, pageWave,
                 pageStation, stationNews, tunings, newsCount, tuningCount>>
heardVars == <<knownStations, ownPlace>>
agentRadioVars == <<comWave, comStation>>
menuVars == <<pageStations, pagePlace, pageWave, pageStation>>

NotHeard == [c \in Controllers |-> Nowhere]

StationsInit ==
    /\ remote \in BOOLEAN
    /\ knownStations = NotHeard /\ ownPlace = Nowhere
    /\ comWave = Nowhere /\ comStation = Nowhere
    /\ pageStations = NotHeard /\ pagePlace = Nowhere /\ pageWave = Nowhere /\ pageStation = Nowhere
    /\ stationNews = <<>> /\ tunings = <<>> /\ newsCount = 0 /\ tuningCount = 0

-----------------------------------------------------------------------------
(***************************************************************************)
(* The agent                                                               *)
(***************************************************************************)
Detected(c, f) == [kind |-> "atc_detected", stations |-> [NotHeard EXCEPT ![c] = f], place |-> Nowhere]
Position(p) == [kind |-> "own_position", stations |-> NotHeard, place |-> p]
Snapshot == [kind |-> "stations", stations |-> knownStations', place |-> ownPlace']
Tuned(f, c) == [kind |-> "freq_update", wave |-> f, station |-> c]

\* publish() of the local web server, and what publish() of the remote agent makes of it.
Publishes(event) ==
    stationNews' = Append(stationNews, IF remote /\ event.kind # "freq_update" THEN Snapshot ELSE event)

CountsNews == newsCount < MaxNews /\ newsCount' = newsCount + 1  \* bound
CountsTuning == tuningCount < MaxTunings /\ tuningCount' = tuningCount + 1  \* bound

\* A position line of a controller: rememberStation(), then broadcast().
ControllerReports(c, f) ==
    /\ CountsNews
    /\ knownStations' = [knownStations EXCEPT ![c] = f] /\ UNCHANGED ownPlace
    /\ Publishes(Detected(c, f))
    /\ UNCHANGED <<remote, agentRadioVars, menuVars, tunings, tuningCount>>

\* rememberFsdState() for a position of the own aircraft
OwnMoves(p) ==
    /\ p # ownPlace /\ CountsNews
    /\ ownPlace' = p /\ UNCHANGED knownStations
    /\ Publishes(Position(p))
    /\ UNCHANGED <<remote, agentRadioVars, menuVars, tunings, tuningCount>>

\* stationForFrequency(): the preferred one if it is there, else one that is.
StationFor(f, preferred) ==
    LET there == {c \in Controllers : knownStations[c] = f}
    IN  IF preferred \in there THEN {preferred} ELSE IF there = {} THEN {Nowhere} ELSE there

\* updateComFrequency(): a change of the frequency or of its station is told.
UpdateComFrequency(f, preferred) ==
    /\ comWave' = f
    /\ comStation' \in StationFor(f, IF preferred = Nowhere THEN comStation ELSE preferred)
    /\ IF comWave' = comWave /\ comStation' = comStation THEN UNCHANGED stationNews
       ELSE Publishes(Tuned(f, comStation'))

\* PilotUI or another page tunes.
OthersTune(f, c) ==
    /\ CountsTuning
    /\ UNCHANGED <<heardVars, remote, menuVars, tunings, newsCount>>
    /\ UpdateComFrequency(f, c)

\* setCom()
AgentTunes ==
    /\ tunings # <<>> /\ tunings' = Tail(tunings)
    /\ UNCHANGED <<heardVars, remote, menuVars, newsCount, tuningCount>>
    /\ UpdateComFrequency(Head(tunings).wave, Head(tunings).station)

-----------------------------------------------------------------------------
(***************************************************************************)
(* The page                                                                *)
(***************************************************************************)
\* getMenuStations(): those with a frequency, and in reach if positions are known.
Menu(stations, place) ==
    {c \in Controllers : stations[c] # Nowhere /\ (place # Nowhere => c \in InReach[place])}
OnWave(stations, place, f) == {c \in Menu(stations, place) : stations[c] = f}

\* Fault: the station that was named stays while it is in the menu.
SelectionTrusts(stations, place, f, preferred) ==
    LET there == OnWave(stations, place, f)
    IN  IF preferred \in Menu(stations, place) THEN {preferred}
        ELSE IF there = {} THEN {Nowhere} ELSE there

\* stationSelectionForCom(): the named station if it is in the menu and on the
\* frequency, else one that is.
Selection(stations, place, f, preferred) ==
    LET there == OnWave(stations, place, f)
    IN  IF preferred \in there THEN {preferred}
        ELSE IF there = {} THEN {Nowhere} ELSE there

\* renderStationMenus(); before the first frequency nothing is selected.
RenderStationMenus(preferred) ==
    pageStation' \in IF pageWave' = Nowhere THEN {preferred}
                     ELSE Selection(pageStations', pagePlace', pageWave', preferred)

\* setComLabel(): the menu is drawn again with the station that came with it.
SetLabel(f, station) ==
    /\ pageWave' = f
    /\ UNCHANGED <<pageStations, pagePlace>>
    /\ RenderStationMenus(station)

\* addStation(): what is not told stays as it was.
Merged(stations) == [c \in Controllers |-> IF stations[c] = Nowhere THEN pageStations[c] ELSE stations[c]]

\* atc_detected, own_position, and restoreOwnPosition() with restoreStations().
LearnsOf(m) ==
    /\ pageStations' = Merged(m.stations)
    /\ pagePlace' = IF m.place = Nowhere THEN pagePlace ELSE m.place
    /\ UNCHANGED pageWave
    /\ RenderStationMenus(pageStation)

PageHears ==
    /\ stationNews # <<>> /\ stationNews' = Tail(stationNews)
    /\ LET m == Head(stationNews)
       IN  IF m.kind = "freq_update" THEN SetLabel(m.wave, m.station) ELSE LearnsOf(m)
    /\ UNCHANGED <<remote, heardVars, agentRadioVars, tunings, newsCount, tuningCount>>

\* tuneCom(): the label follows what was sent; tuneStation() names the station.
PageTunes(f, station) ==
    /\ CountsTuning
    /\ tunings' = Append(tunings, Tuned(f, station))
    /\ SetLabel(f, station)
    /\ UNCHANGED <<remote, heardVars, agentRadioVars, stationNews, newsCount>>
TunesStation(c) == c \in Menu(pageStations, pagePlace) /\ PageTunes(pageStations[c], c)

\* The page is loaded: getInitState(), or the snapshots after the selection.
PageOpens ==
    /\ tunings = <<>>
    /\ stationNews' = <<>>
    /\ pageStations' = knownStations /\ pagePlace' = ownPlace
    /\ pageWave' = comWave
    /\ RenderStationMenus(comStation)
    /\ UNCHANGED <<remote, heardVars, agentRadioVars, tunings, newsCount, tuningCount>>

StationsNext ==
    \/ \E c \in Controllers, f \in Waves : ControllerReports(c, f)
    \/ \E p \in Places : OwnMoves(p)
    \/ \E f \in Waves : (\E c \in Controllers \cup {Nowhere} : OthersTune(f, c)) \/ PageTunes(f, Nowhere)
    \/ \E c \in Controllers : TunesStation(c)
    \/ AgentTunes \/ PageHears \/ PageOpens

StationsSpec == StationsInit /\ [][StationsNext]_stationVars

-----------------------------------------------------------------------------
\* The panel never names a controller who is not on its frequency or is out of
\* reach, and names one if there is one, whoever tuned, moved or reported since; and
\* when all has arrived, what the page knows is what the agent knows: its radio, the
\* controllers and the position.
MenuNamesWhoIsThere ==
    /\ pageWave # Nowhere =>
           LET there == OnWave(pageStations, pagePlace, pageWave)
           IN  IF there = {} THEN pageStation = Nowhere ELSE pageStation \in there
    /\ stationNews = <<>> /\ tunings = <<>> =>
           <<pageStations, pagePlace, pageWave>> = <<knownStations, ownPlace, comWave>>
===============================================================================
