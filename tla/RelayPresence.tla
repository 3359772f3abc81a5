---------------------------- MODULE RelayPresence ----------------------------
(***************************************************************************)
(* How the agent's state reaches the remote pages: the agent publishes     *)
(* typed topics (proxy/remote-agent.js), the relay keeps the last message  *)
(* of each (apps/relay/index.js) and forwards it to the pages that watch   *)
(* the device; a page that selects the device receives what is kept.  The  *)
(* relay's heartbeat finds agents that are gone.                           *)
(*                                                                         *)
(* A value of Refused is one the agent sends and the relay's validation    *)
(* rejects (more than 250 stations, COM on 137.000, a callsign with a      *)
(* hyphen: packages/protocol); Unknown is one it does not send             *)
(* (sendRadioState returns early).  The relay writes to a page at once and *)
(* in order, so a page's queue is left out.                                *)
(***************************************************************************)
EXTENDS Naturals, Sequences, FiniteSets, SequencesExt

CONSTANTS
    Topics,         \* topics of the agent
    LocalTopics,    \* those a change of which is not published (notification.state)
    Readings,       \* values of a topic
    Unknown,        \* the one that is not sent
    Refused,        \* those the relay rejects
    Uplinks,        \* agent sockets
    Pages,          \* remote pages
    Absent,         \* no socket, no device, no message
    MaxWire         \* bound: messages on their way when a change is published

ASSUME PresenceAssumption ==
    /\ LocalTopics \subseteq Topics /\ Unknown \in Readings /\ Refused \subseteq Readings \ {Unknown}
    /\ IsFiniteSet(Topics) /\ "hello" \notin Topics /\ Absent \notin Readings \cup Uplinks
    /\ MaxWire \in Nat

VARIABLES
    reading,        \* the agent's own state of each topic
    uplink,         \* its socket, if open
    wire,           \* what each socket still carries to the relay
    peer,           \* the relay's client of the socket
    heard,          \* its heartbeatAlive
    silent,         \* history variable: beats since the agent was last heard
    shown,          \* the device: its socket and lastMessages
    overtaken,      \* history variable: topics an old socket wrote after the new one said hello
    watching,       \* pages that selected the device
    display         \* what each page shows

presenceVars == <<reading, uplink, wire, peer, heard, silent, shown, overtaken, watching, display>>

Nothing0 == [t \in Topics |-> Absent]

PresenceInit ==
    /\ reading \in [Topics -> Readings \ Refused]
    /\ uplink = Absent
    /\ wire = [w \in Uplinks |-> <<>>]
    /\ peer = [w \in Uplinks |-> "none"]
    /\ heard = [w \in Uplinks |-> TRUE]
    /\ silent = [w \in Uplinks |-> 0]
    /\ shown = Absent
    /\ overtaken = {}
    /\ watching = {}
    /\ display = [p \in Pages |-> Nothing0]

-----------------------------------------------------------------------------
(***************************************************************************)
(* The agent                                                               *)
(***************************************************************************)
HelloMsg == [topic |-> "hello", value |-> Absent]
Update(t, value) == [topic |-> t, value |-> value]
IsSent(t) == reading[t] # Unknown

\* The state messages of the open handler; every topic that is sent has its message.
Opening ==
    LET order == SetToSeq({t \in Topics : IsSent(t)})
    IN  <<HelloMsg>> \o [i \in DOMAIN order |-> Update(order[i], reading[order[i]])]

\* The socket opens: hello, then every topic.
AgentOpens(w) ==
    /\ uplink = Absent /\ peer[w] = "none" /\ wire[w] = <<>>
    /\ uplink' = w
    /\ wire' = [wire EXCEPT ![w] = Opening]
    /\ peer' = [peer EXCEPT ![w] = "open"]
    /\ heard' = [heard EXCEPT ![w] = TRUE]
    /\ silent' = [silent EXCEPT ![w] = 0]
    /\ UNCHANGED <<reading, shown, overtaken, watching, display>>

\* Its socket closes, or fails: the end of what was on its way is lost, and the
\* relay may not know yet.
AgentLoses ==
    /\ uplink # Absent
    /\ uplink' = Absent
    /\ \E n \in 0..Len(wire[uplink]) : wire' = [wire EXCEPT ![uplink] = SubSeq(@, 1, n)]
    /\ UNCHANGED <<reading, peer, heard, silent, shown, overtaken, watching, display>>

\* publishFromLocal(): the local state changed.
Publishes(t, value) ==
    /\ value # reading[t] /\ value # Unknown
    /\ uplink # Absent => Len(wire[uplink]) < MaxWire
    /\ reading' = [reading EXCEPT ![t] = value]
    /\ wire' = IF uplink = Absent \/ t \in LocalTopics THEN wire
               ELSE [wire EXCEPT ![uplink] = Append(@, Update(t, value))]
    /\ UNCHANGED <<uplink, peer, heard, silent, shown, overtaken, watching, display>>

\* The agent's WebSocket answers the relay's ping.
AgentPongs ==
    /\ uplink # Absent /\ peer[uplink] \in {"open", "announced"}
    /\ heard' = [heard EXCEPT ![uplink] = TRUE]
    /\ silent' = [silent EXCEPT ![uplink] = 0]
    /\ UNCHANGED <<reading, uplink, wire, peer, shown, overtaken, watching, display>>

-----------------------------------------------------------------------------
(***************************************************************************)
(* The relay                                                               *)
(***************************************************************************)
\* registerAgent(): the device moves to the socket and keeps what was cached.
Registers(w) ==
    /\ shown' = [ws |-> w, last |-> IF shown = Absent THEN Nothing0 ELSE shown.last]
    /\ peer' = [peer EXCEPT ![w] = "announced"]
    /\ overtaken' = {}
    /\ UNCHANGED display

\* Fault: only the first message of a topic is kept.
RemembersFirst(last, m) == IF last[m.topic] = Absent THEN [last EXCEPT ![m.topic] = m.value] ELSE last

\* rememberDeviceSnapshot()
Remembers(last, m) == [last EXCEPT ![m.topic] = m.value]

\* Display of the pages that watch, after an update.
Forwarded(m) ==
    [p \in Pages |-> IF p \in watching THEN [display[p] EXCEPT ![m.topic] = m.value] ELSE display[p]]

\* routeAgentUpdate(): the message is kept by the device and goes to its
\* watchers, whichever of the agent's sockets it came from.
Routes(w, m) ==
    /\ peer[w] = "announced"
    /\ shown' = IF shown = Absent THEN Absent ELSE [shown EXCEPT !.last = Remembers(@, m)]
    /\ overtaken' = IF shown # Absent /\ shown.ws = w THEN overtaken \ {m.topic}
                    ELSE overtaken \cup {m.topic}
    /\ display' = Forwarded(m)
    /\ UNCHANGED peer

\* The message is refused: by the validation, or because no hello came before.
Refuses(w, m) ==
    /\ m.topic # "hello"
    /\ m.value \in Refused \/ peer[w] = "open"
    /\ UNCHANGED <<shown, overtaken, peer, display>>

RelayHears(w) ==
    /\ peer[w] \in {"open", "announced"} /\ wire[w] # <<>>
    /\ LET m == Head(wire[w]) IN
        \/ m.topic = "hello" /\ Registers(w)
        \/ m.topic # "hello" /\ m.value \notin Refused /\ Routes(w, m)
        \/ Refuses(w, m)
    /\ wire' = [wire EXCEPT ![w] = Tail(@)]
    /\ heard' = [heard EXCEPT ![w] = TRUE]
    /\ silent' = [silent EXCEPT ![w] = 0]
    /\ UNCHANGED <<reading, uplink, watching>>

\* Fault: the heartbeat asks and never looks at the answers.
BeatAsksOnly(w) == UNCHANGED peer

\* The heartbeat terminates an agent that did not answer since the last beat.
BeatEnds(w) == peer' = [peer EXCEPT ![w] = IF heard[w] THEN @ ELSE "closing"]

\* One turn of the heartbeat for one socket, and the ping it sends.  The close
\* event of a socket it terminated comes before the next turn.
Beat(w) ==
    /\ peer[w] \in {"open", "announced"} /\ silent[w] < 4
    /\ BeatEnds(w)
    /\ heard' = [heard EXCEPT ![w] = FALSE]
    /\ silent' = [silent EXCEPT ![w] = @ + 1]
    /\ UNCHANGED <<reading, uplink, wire, shown, overtaken, watching, display>>

\* removeClient(), when the relay sees the socket closed.
RelayCloses(w) ==
    /\ peer[w] = "closing" \/ (peer[w] \in {"open", "announced"} /\ (uplink # w))
    /\ peer' = [peer EXCEPT ![w] = "none"]
    /\ wire' = [wire EXCEPT ![w] = <<>>]
    /\ uplink' = IF uplink = w THEN Absent ELSE uplink
    /\ shown' = IF shown # Absent /\ shown.ws = w THEN Absent ELSE shown
    /\ overtaken' = IF shown # Absent /\ shown.ws = w THEN {} ELSE overtaken
    /\ heard' = [heard EXCEPT ![w] = TRUE]
    /\ silent' = [silent EXCEPT ![w] = 0]
    /\ UNCHANGED <<reading, watching, display>>

-----------------------------------------------------------------------------
(***************************************************************************)
(* The pages                                                               *)
(***************************************************************************)
\* sendCachedDeviceState()
Cached(seen) == [t \in Topics |-> IF shown.last[t] = Absent THEN seen[t] ELSE shown.last[t]]

\* selectDevice() of an online device the page may access.
SelectsDevice(p) ==
    /\ watching' = watching \cup {p}
    /\ display' = [display EXCEPT ![p] = Cached(@)]

PageSelects(p) ==
    /\ shown # Absent
    /\ SelectsDevice(p)
    /\ UNCHANGED <<reading, uplink, wire, peer, heard, silent, shown, overtaken>>

\* The page's socket closes; it goes on showing what it last knew.
PageLeaves(p) ==
    /\ p \in watching
    /\ watching' = watching \ {p}
    /\ UNCHANGED <<reading, uplink, wire, peer, heard, silent, shown, overtaken, display>>

PresenceNext ==
    \/ \E w \in Uplinks : AgentOpens(w) \/ RelayHears(w) \/ Beat(w) \/ RelayCloses(w)
    \/ AgentLoses \/ AgentPongs
    \/ \E t \in Topics, value \in Readings : Publishes(t, value)
    \/ \E p \in Pages : PageSelects(p) \/ PageLeaves(p)

PresenceSpec == PresenceInit /\ [][PresenceNext]_presenceVars

-----------------------------------------------------------------------------
\* All of the agent's messages have arrived, and the device is on its socket.
Settled == shown # Absent /\ uplink = shown.ws /\ wire[uplink] = <<>>

\* Once the agent's messages have arrived, the relay's snapshots and every page
\* that watches the device show the agent's own state: for each topic that is
\* published and whose value is sent and accepted, unless a message of an older
\* socket came in between.
PagesShowAgent ==
    Settled => \A t \in Topics \ (LocalTopics \cup overtaken) :
        reading[t] \notin Refused \cup {Unknown} =>
            /\ shown.last[t] = reading[t]
            /\ \A p \in watching : display[p][t] = reading[t]

\* An agent that is gone is not offered to the pages for longer than two beats
\* of the relay's heartbeat.
SilentAgentsLeave ==
    \A w \in Uplinks : peer[w] \in {"open", "announced"} => silent[w] <= 1
==============================================================================
