----------------------------- MODULE PilotBridge -----------------------------
(***************************************************************************)
(* The bridge between PilotUI and PilotCore (proxy/pilot-bridge.js,        *)
(* proxy/pilot-core.js) and the COM frequency VoxHF shows: every PilotUI   *)
(* connection gets a PilotCore connection of its own, what passes through  *)
(* is observed, and a command of a page is written to the connection that  *)
(* came up last, framed as the Altitude that was observed speaks.          *)
(*                                                                         *)
(* One radio stands for both, and for the transponder code, whose commands *)
(* take the same way.  PilotUI tunes once PilotCore is connected; there is *)
(* one PilotCore, and nothing tunes it behind VoxHF's back.                *)
(***************************************************************************)
EXTENDS Naturals

CONSTANTS
    Pairs,          \* connections of PilotUI, each with its connection to PilotCore
    Channels,       \* COM frequencies
    NoPair,
    Unheard         \* no frequency is known yet

VARIABLES
    altitude,       \* what Altitude speaks: legacy (1.13) or messagepack (1.14+)
    ui,             \* the PilotUI socket of each pair
    core,           \* its PilotCore socket
    spoke,          \* history variable: pairs whose Altitude was heard
    pilotUiSocket,
    pilotCoreControlSocket,
    pilotProtocol,
    com,            \* currentComFrequencies of the application state
    tuned,          \* the frequency PilotCore is on
    forgotten,      \* history variable: pairs heard before PilotUI connected once more, and nothing since
    excuse          \* history variable: why the last change may not be shown right, or none

bridgeVars == <<altitude, ui, core, spoke, pilotUiSocket, pilotCoreControlSocket, pilotProtocol,
                com, tuned, forgotten, excuse>>

BridgeInit ==
    /\ altitude \in {"legacy", "messagepack"}
    /\ ui = [p \in Pairs |-> "none"] /\ core = [p \in Pairs |-> "none"]
    /\ spoke = {}
    /\ pilotUiSocket = NoPair /\ pilotCoreControlSocket = NoPair
    /\ pilotProtocol = "legacy"
    /\ com = Unheard /\ tuned \in Channels
    /\ forgotten = {} /\ excuse = "none"

SocketAfter(current, p) == IF current = p THEN NoPair ELSE current
\* destroyIfOpen(): the close event follows.
DestroyedIfOpen(socket) == IF socket \in {"connecting", "open"} THEN "destroyed" ELSE socket

-----------------------------------------------------------------------------
\* createServer callback
UiConnects(p) ==
    /\ ui[p] = "none" /\ core[p] = "none"
    /\ ui' = [ui EXCEPT ![p] = "open"]
    /\ core' = [core EXCEPT ![p] = "connecting"]
    /\ pilotUiSocket' = p
    /\ pilotProtocol' = "legacy" /\ forgotten' = spoke
    /\ UNCHANGED <<altitude, spoke, pilotCoreControlSocket, com, tuned, excuse>>

\* Fault: the protocol is forgotten when PilotCore connects, not when PilotUI does.
CoreConnectsForgets(p) ==
    /\ core[p] = "connecting"
    /\ core' = [core EXCEPT ![p] = "open"]
    /\ pilotCoreControlSocket' = p
    /\ pilotProtocol' = "legacy"
    /\ UNCHANGED <<altitude, ui, spoke, pilotUiSocket, com, tuned, forgotten, excuse>>

\* createConnection callback
CoreConnects(p) ==
    /\ core[p] = "connecting"
    /\ core' = [core EXCEPT ![p] = "open"]
    /\ pilotCoreControlSocket' = p
    /\ UNCHANGED <<altitude, ui, spoke, pilotUiSocket, pilotProtocol, com, tuned,
                   forgotten, excuse>>

\* observeMessagePack(): a complete frame of either side names the protocol.  The
\* frame reader puts a frame together from any chunks.
Observed(p) ==
    /\ pilotProtocol' = IF altitude = "messagepack" THEN "messagepack" ELSE pilotProtocol
    /\ spoke' = spoke \cup {p} /\ forgotten' = {}

\* PilotUI's handshake may go out before PilotCore is connected.
AltitudeSpeaks(p) ==
    /\ ui[p] = "open" /\ core[p] \in {"connecting", "open"}
    /\ Observed(p)
    /\ UNCHANGED <<altitude, ui, core, pilotUiSocket, pilotCoreControlSocket, com, tuned, excuse>>

\* PilotUI tunes, or PilotCore reports its frequency.  A legacy packet is looked
\* for in each chunk alone (learnComFrequency) and missed when it was split.
AltitudeTunes(p, f) ==
    /\ ui[p] = "open" /\ core[p] = "open"
    /\ Observed(p)
    /\ tuned' = f
    /\ \E noticed \in {TRUE, altitude = "messagepack"} :
        /\ com' = IF noticed THEN f ELSE com
        /\ excuse' = IF noticed THEN "none" ELSE "unseen"
    /\ UNCHANGED <<altitude, ui, core, pilotUiSocket, pilotCoreControlSocket>>

\* writeIfOpen(pilotCoreControlSocket)
CoreIsOpen == pilotCoreControlSocket # NoPair /\ core[pilotCoreControlSocket] = "open"

\* setCom() in proxy.js: the state follows a command that was written.
CommandShown(f) == com' = IF CoreIsOpen THEN f ELSE com

\* VoxHF cannot tell the framing before it has heard the pair it writes to, and it
\* forgets what it has heard of that pair when PilotUI connects once more.
FramingExcuse ==
    IF pilotCoreControlSocket \notin spoke THEN "unheard"
    ELSE IF pilotCoreControlSocket \in forgotten THEN "forgotten" ELSE "none"

\* A page tunes.  PilotCore does not understand the framing of another version.
WebTunes(f) ==
    /\ CommandShown(f)
    /\ tuned' = IF CoreIsOpen /\ pilotProtocol = altitude THEN f ELSE tuned
    /\ excuse' = IF ~CoreIsOpen THEN excuse
                 ELSE IF pilotProtocol = altitude THEN "none" ELSE FramingExcuse
    /\ UNCHANGED <<altitude, ui, core, spoke, pilotUiSocket, pilotCoreControlSocket, pilotProtocol, forgotten>>

\* PilotUI's close event, on its own account or after its socket was destroyed.
UiCloses(p) ==
    /\ ui[p] \in {"open", "destroyed"}
    /\ ui' = [ui EXCEPT ![p] = "closed"]
    /\ core' = [core EXCEPT ![p] = DestroyedIfOpen(@)]
    /\ pilotUiSocket' = SocketAfter(pilotUiSocket, p)
    /\ UNCHANGED <<altitude, spoke, pilotCoreControlSocket, pilotProtocol, com, tuned,
                   forgotten, excuse>>

\* PilotCore's close event, or its error and close events.
CoreCloses(p) ==
    /\ core[p] \in {"connecting", "open", "destroyed"}
    /\ core' = [core EXCEPT ![p] = "closed"]
    /\ ui' = [ui EXCEPT ![p] = DestroyedIfOpen(@)]
    /\ pilotCoreControlSocket' = SocketAfter(pilotCoreControlSocket, p)
    /\ UNCHANGED <<altitude, spoke, pilotUiSocket, pilotProtocol, com, tuned,
                   forgotten, excuse>>

\* Both are closed: the pair stands for a later connection.
PairForgotten(p) ==
    /\ ui[p] = "closed" /\ core[p] = "closed"
    /\ ui' = [ui EXCEPT ![p] = "none"] /\ core' = [core EXCEPT ![p] = "none"]
    /\ spoke' = spoke \ {p} /\ forgotten' = forgotten \ {p}
    /\ UNCHANGED <<altitude, pilotUiSocket, pilotCoreControlSocket, pilotProtocol, com, tuned, excuse>>

BridgeNext ==
    \/ \E p \in Pairs :
        \/ UiConnects(p) \/ CoreConnects(p) \/ AltitudeSpeaks(p)
        \/ UiCloses(p) \/ CoreCloses(p) \/ PairForgotten(p)
        \/ \E f \in Channels : AltitudeTunes(p, f)
    \/ \E f \in Channels : WebTunes(f)

BridgeSpec == BridgeInit /\ [][BridgeNext]_bridgeVars

-----------------------------------------------------------------------------
\* The frequency the pages show is the one PilotCore is on, through lost and replaced
\* connections of PilotUI and PilotCore, except after a change that VoxHF could not see,
\* a command it sent before it had heard the pair it writes to, or one to a pair it had
\* heard and whose framing a newer connection of PilotUI made it forget.
RadioAsShown == excuse = "none" /\ com # Unheard => com = tuned

\* The command is chosen "after observing the live PilotUI handshake" (proxy.js): once
\* the pair that is written to was heard, PilotCore takes what the pages then show.
CommandFitsHandshake == excuse \in {"none", "forgotten"} /\ com # Unheard => com = tuned
==============================================================================
