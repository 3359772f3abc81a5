------------------------------ MODULE AgentLink ------------------------------
(***************************************************************************)
(* The agent's side of the offline watchdog (proxy/remote-agent.js): the   *)
(* relay connection, and the tickets that cover the armed flight for the   *)
(* devices that opted in.  They are sent one message at a time; a lost     *)
(* connection takes the rest with it.  The store is module PushStore; here *)
(* it is the devices that opted in, in memory and on disk.  The relay is   *)
(* what the agent can influence of module AgentWatchdog.                   *)
(***************************************************************************)
EXTENDS Naturals, FiniteSets, Sequences, SequencesExt

CONSTANTS
    Subscribers, \* devices that may opt in to the offline alert
    MaxBatches,  \* batches the relay stages per agent
    MaxChannel,  \* bound: messages on their way when the agent sends more
    MaxFlights,  \* bound: flights
    MaxLosses,   \* bound: lost connections and restarts
    NoEntry      \* nothing armed

ASSUME AgentLinkAssumption ==
    /\ MaxBatches \in Nat \ {0} /\ {MaxChannel, MaxFlights, MaxLosses} \subseteq Nat
    /\ IsFiniteSet(Subscribers)
    /\ NoEntry \notin [session : 1..MaxFlights, tickets : SUBSET Subscribers]

VARIABLES
    opted,    \* subscriptions with notifyAgentOffline
    written,  \* those in the storage file
    expired,  \* devices whose endpoint was reported as gone
    unsynced, \* a write failed and the tickets were not sent again since
    flight,   \* agentWatchdogState
    flights,  \* flights so far; the number names the session
    link,     \* the agent's socket: down, open, or ended for an update
    reconnect,\* reconnectTimer
    refresh,  \* watchdogRefreshTimer
    channel,  \* messages on their way to the relay
    losses,   \* connections lost so far
    seen,     \* the relay's view of the socket: none, old or current
    batches,  \* staged batches at the relay
    entry,    \* the armed entry at the relay
    refused   \* the relay refused a part of the last set that was sent

optVars   == <<opted, written, expired>>
agentVars == <<optVars, unsynced, flight, flights, link, reconnect, refresh, losses>>
relayVars == <<seen, batches, entry, refused>>
linkVars  == <<agentVars, channel, relayVars>>

LinkInit ==
    /\ opted = {} /\ written = {} /\ expired = {} /\ unsynced = FALSE
    /\ flight = [armed |-> FALSE, session |-> 0] /\ flights = 0
    /\ link = "down" /\ reconnect = TRUE /\ refresh = FALSE
    /\ channel = <<>> /\ losses = 0
    /\ seen = "none" /\ batches = {} /\ entry = NoEntry /\ refused = FALSE

-----------------------------------------------------------------------------
(***************************************************************************)
(* syncAgentWatchdog({ clearFirst })                                       *)
(***************************************************************************)
Msg(type, f, tickets) == [type |-> type, session |-> f.session, tickets |-> tickets]
Hello == [type |-> "hello", session |-> 0, tickets |-> {}]
TicketsFor(f, devices) ==
    [i \in 1..Cardinality(devices) |-> Msg("ticket", f, {SetToSeq(devices)[i]})]

\* Fault: without tickets there is nothing to send.
MessagesIfTickets(devices, f, clearFirst) ==
    IF f.session = 0 \/ devices = {} THEN <<>>
    ELSE IF ~f.armed THEN <<Msg("disarm", f, {})>>
    ELSE (IF clearFirst THEN <<Msg("disarm", f, {})>> ELSE <<>>)
         \o TicketsFor(f, devices) \o <<Msg("commit", f, {})>>

\* What it sends for the devices that opted in and the flight f.
Messages(devices, f, clearFirst) ==
    IF f.session = 0 THEN <<>>
    ELSE IF ~f.armed \/ devices = {} THEN <<Msg("disarm", f, {})>>
    ELSE (IF clearFirst THEN <<Msg("disarm", f, {})>> ELSE <<>>)
         \o TicketsFor(f, devices) \o <<Msg("commit", f, {})>>

\* It sends only on an open socket; the refresh timer runs while the flight is
\* armed.
Sync(devices, f, clearFirst) ==
    /\ channel' = IF link = "open" THEN channel \o Messages(devices, f, clearFirst) ELSE channel
    /\ refresh' = (link = "open" /\ f.armed)
    /\ unsynced' = (unsynced /\ link # "open")
    /\ refused' = (refused /\ link # "open")

\* bound on what the agent sends ahead of the relay
MaySend == Len(channel) <= MaxChannel

-----------------------------------------------------------------------------
\* notification-subscribe and -unsubscribe, over the relay or from a local
\* browser: the store is written and the tickets are sent anew; if writing
\* throws, nothing of that happens.
OptIn(devices) ==
    /\ devices # opted
    /\ MaySend
    /\ opted' = devices
    /\ expired' = expired \ devices
    /\ \/ written' = devices /\ Sync(devices, flight, TRUE)
       \/ unsynced' = TRUE /\ UNCHANGED <<written, channel, refresh, refused>>
    /\ UNCHANGED <<flight, flights, link, reconnect, losses, seen, batches, entry>>

\* A delivery reported the endpoint of d as gone; no ticket is sent anew.
Expires(d) ==
    /\ d \in opted
    /\ opted' = opted \ {d}
    /\ expired' = expired \cup {d}
    /\ written' = opted' \/ UNCHANGED written
    /\ UNCHANGED <<unsynced, flight, flights, link, reconnect, refresh, losses, channel, relayVars>>

\* armAgentOfflineWatchdog() of proxy.js
Arm ==
    /\ flights < MaxFlights /\ MaySend  \* bounds
    /\ flights' = flights + 1
    /\ flight' = [armed |-> TRUE, session |-> flights + 1]
    /\ Sync(opted, flight', FALSE)
    /\ UNCHANGED <<optVars, link, reconnect, losses, seen, batches, entry>>

\* disarmAgentOfflineWatchdog() of proxy.js
EndFlight ==
    /\ flight.armed
    /\ MaySend  \* bound
    /\ flight' = [flight EXCEPT !.armed = FALSE]
    /\ Sync(opted, flight', FALSE)
    /\ UNCHANGED <<optVars, flights, link, reconnect, losses, seen, batches, entry>>

\* watchdogRefreshTimer, after five minutes in which all was delivered.
Refresh ==
    /\ refresh /\ channel = <<>>
    /\ Sync(opted, flight, FALSE)
    /\ UNCHANGED <<optVars, flight, flights, link, reconnect, losses, seen, batches, entry>>

\* reconnectTimer, connect() and the open event: the device is announced and the
\* flight covered without clearing first.
LinkOpens ==
    /\ link = "down" /\ reconnect
    /\ link' = "open" /\ reconnect' = FALSE
    /\ channel' = <<Hello>> \o Messages(opted, flight, FALSE)
    /\ refresh' = flight.armed
    /\ unsynced' = FALSE /\ refused' = FALSE
    /\ UNCHANGED <<optVars, flight, flights, losses, seen, batches, entry>>

\* close of the socket; what had not arrived is lost.
LinkCloses(state) ==
    /\ link' = state /\ channel' = <<>>
    /\ refresh' = FALSE /\ reconnect' = (state = "down")
    /\ seen' = IF seen = "current" THEN "old" ELSE seen

LinkLost ==
    /\ link = "open" /\ losses < MaxLosses  \* bound
    /\ losses' = losses + 1
    /\ LinkCloses("down")
    /\ UNCHANGED <<optVars, unsynced, flight, flights, batches, entry, refused>>

\* relay-identity asks for a newer version: the agent leaves and stays away.
UpdateRequired ==
    /\ link = "open"
    /\ LinkCloses("ended")
    /\ UNCHANGED <<optVars, unsynced, flight, flights, losses, batches, entry, refused>>

\* The local process stops and starts again with the store as it was written.
AgentRestarts ==
    /\ losses < MaxLosses  \* bound
    /\ losses' = losses + 1
    /\ opted' = written /\ expired' = expired \ written
    /\ unsynced' = FALSE
    /\ flight' = [armed |-> FALSE, session |-> 0]
    /\ LinkCloses("down")
    /\ UNCHANGED <<written, flights, batches, entry, refused>>

LocalAgentStep ==
    \/ \E devices \in SUBSET Subscribers : OptIn(devices)
    \/ \E d \in Subscribers : Expires(d)
    \/ Arm
    \/ EndFlight
    \/ Refresh
    \/ LinkOpens
    \/ LinkLost
    \/ UpdateRequired
    \/ AgentRestarts

-----------------------------------------------------------------------------
(***************************************************************************)
(* The relay: registerAgent(), and stage(), commit() and disarm() of       *)
(* module AgentWatchdog.  A batch is open while its tickets still arrive   *)
(* on the current socket; [open, tickets, n], n telling batches apart.     *)
(***************************************************************************)
OpenBatch == {b \in batches : b.open}

TakeHello ==
    /\ seen' = "current"
    /\ batches' = {[b EXCEPT !.open = FALSE] : b \in batches}
    /\ UNCHANGED <<entry, refused>>

TakeTicket(m) ==
    /\ IF OpenBatch # {} THEN
           /\ batches' = {IF b.open THEN [b EXCEPT !.tickets = @ \cup m.tickets] ELSE b : b \in batches}
           /\ UNCHANGED refused
       ELSE IF Cardinality(batches) < MaxBatches THEN
           /\ batches' = batches \cup {[open |-> TRUE, tickets |-> m.tickets, n |-> losses]}
           /\ UNCHANGED refused
       ELSE refused' = TRUE /\ UNCHANGED batches
    /\ UNCHANGED <<seen, entry>>

TakeCommit(m) ==
    /\ IF OpenBatch = {} THEN refused' = TRUE /\ UNCHANGED <<batches, entry>>
       ELSE /\ entry' = [session |-> m.session, tickets |-> UNION {b.tickets : b \in OpenBatch}]
            /\ batches' = {} /\ UNCHANGED refused
    /\ UNCHANGED seen

TakeDisarm(m) ==
    /\ IF entry = NoEntry \/ entry.session = m.session
       THEN entry' = NoEntry /\ batches' = {}
       ELSE UNCHANGED <<entry, batches>>
    /\ UNCHANGED <<seen, refused>>

RelayTakes ==
    /\ channel # <<>>
    /\ LET m == Head(channel) IN
       \/ m.type = "hello" /\ TakeHello
       \/ m.type = "ticket" /\ TakeTicket(m)
       \/ m.type = "commit" /\ TakeCommit(m)
       \/ m.type = "disarm" /\ TakeDisarm(m)
    /\ channel' = Tail(channel)
    /\ UNCHANGED agentVars

\* cleanup(): a batch that was not committed in time.
BatchAges ==
    /\ \E b \in batches \ OpenBatch : batches' = batches \ {b}
    /\ UNCHANGED <<agentVars, channel, seen, entry, refused>>

\* The old socket closes at the relay.
RelayNotices ==
    /\ seen = "old"
    /\ seen' = "none"
    /\ UNCHANGED <<agentVars, channel, batches, entry, refused>>

\* The grace period ended: the tickets are sent and used up.
RelayFires ==
    /\ seen = "none" /\ entry # NoEntry
    /\ entry' = NoEntry
    /\ UNCHANGED <<agentVars, channel, seen, batches, refused>>

\* The relay restarts with nothing in memory.
RelayRestarts ==
    /\ link = "open" /\ losses < MaxLosses  \* bound
    /\ losses' = losses + 1
    /\ link' = "down" /\ channel' = <<>> /\ refresh' = FALSE /\ reconnect' = TRUE
    /\ seen' = "none" /\ batches' = {} /\ entry' = NoEntry /\ refused' = FALSE
    /\ UNCHANGED <<optVars, unsynced, flight, flights>>

RelayStep == RelayTakes \/ BatchAges \/ RelayNotices \/ RelayFires \/ RelayRestarts

LinkNext == LocalAgentStep \/ RelayStep
LinkSpec == LinkInit /\ [][LinkNext]_linkVars

-----------------------------------------------------------------------------
\* All that was sent has arrived and been taken, and no write failed.
Quiet == link = "open" /\ channel = <<>> /\ ~unsynced /\ ~refused

\* Both ends agree once everything arrived: an armed flight is covered for every
\* device that opted in and the refresh is due, also after lost batches, a set
\* that was cleared first, or a restart of the relay; and the entry of this
\* flight covers no device that opted out.
RelayMatchesAgent ==
    LET covered == IF flight.armed THEN opted ELSE {} IN
    Quiet =>
        /\ covered # {} => /\ refresh
                           /\ entry # NoEntry /\ entry.session = flight.session
                           /\ covered \subseteq entry.tickets
        /\ (entry # NoEntry /\ entry.session = flight.session) =>
               entry.tickets \subseteq covered \cup expired

=============================================================================
