------------------------------- MODULE WebTx -------------------------------
(***************************************************************************)
(* Web TX (proxy/web-tx.js): the voice session learned from Altitude, and  *)
(* one transmission per browser socket, each with an encoder process and a *)
(* paced queue of packets.                                                 *)
(*                                                                         *)
(* The module has no next-state relation of its own: sockets start and     *)
(* stop transmissions and the voice router replaces and clears the session *)
(* (module VoicePath).  Its operators give what a call leaves behind, so   *)
(* that a handler that makes several calls is one action.  An encoder is   *)
(* an operating-system process: it goes on delivering output and its exit  *)
(* after the transmission was stopped.                                     *)
(***************************************************************************)
EXTENDS Naturals, FiniteSets

CONSTANTS
    Sockets,    \* keys of webTxBySocket: browser sockets and remoteTxSocket
    Coms,       \* the radios, 1 and 2
    None,       \* null
    MaxQueue,   \* packets a queue keeps (24 in the code)
    MaxStarts   \* bound: transmissions started

ASSUME WebTxAssumption ==
    /\ MaxQueue \in Nat \ {0}
    /\ MaxStarts \in Nat

VARIABLES
    session,    \* activeTxSession
    tx,         \* webTxBySocket, None for a socket without a transmission
    encoders,   \* encoder processes that have not exited, by the state object they serve
    starts,     \* transmissions started so far; the number names the state object
    lamp        \* the TX lamp of each radio in PilotUI

txVars == <<session, tx, encoders, starts, lamp>>

(***************************************************************************)
(* A session is [key, socket, header]: clientKey, the UDP socket Altitude's *)
(* packets leave from, and the session bytes that Altitude's and the       *)
(* browser's packets carry.  A transmission remembers in startedFor the    *)
(* session it began under; the code stops it when that changes.            *)
(***************************************************************************)
SessionName(s) == IF s = None THEN None ELSE <<s.key, s.header>>
Active(w)      == tx[w] # None
OnAir(w)       == Active(w) /\ ~tx[w].monitorOnly
OnAirSockets   == {w \in Sockets : OnAir(w)}
Encoder(w)     == [socket |-> w, id |-> tx[w].id]
Serves(e)      == Active(e.socket) /\ Encoder(e.socket) = e

TxInit ==
    /\ session = None
    /\ tx = [w \in Sockets |-> None]
    /\ encoders = {}
    /\ starts = 0
    /\ lamp = [c \in Coms |-> FALSE]

-----------------------------------------------------------------------------
\* stop(ws, reason) of each socket of W: the transmissions that stay and the
\* lamps it puts out.  The sockets' encoders are killed and exit later.
Stopped(W)    == [w \in Sockets |-> IF w \in W THEN None ELSE tx[w]]
LampsAfter(W) == [c \in Coms |-> lamp[c] /\ ~\E w \in W : OnAir(w) /\ tx[w].com = c]

\* start(): refused without a session unless only the monitor is wanted; what
\* the socket had is stopped first.
MayStart(monitorOnly) == monitorOnly \/ session # None
StartTx(w, com, monitorOnly) ==
    /\ MayStart(monitorOnly)
    /\ starts < MaxStarts  \* bound
    /\ starts' = starts + 1
    /\ tx' = [tx EXCEPT ![w] = [id |-> starts + 1, com |-> com, monitorOnly |-> monitorOnly,
                                queued |-> 0, sendTimer |-> FALSE,
                                startedFor |-> SessionName(session)]]
    /\ lamp' = [c \in Coms |-> LampsAfter({w})[c] \/ (c = com /\ ~monitorOnly)]
    /\ encoders' = encoders \cup {[socket |-> w, id |-> starts + 1]}
    /\ UNCHANGED session

\* stop(ws)
Stop(w) ==
    /\ tx' = Stopped({w})
    /\ lamp' = LampsAfter({w})
    /\ UNCHANGED <<session, encoders, starts>>

\* replaceTxSession(s): a session under another key or header ends the
\* transmissions that are on the air; the monitors go on.
ReplaceSession(s) ==
    LET ended == IF session # None /\ SessionName(session) # SessionName(s)
                 THEN OnAirSockets ELSE {}
    IN  /\ session' = s
        /\ tx' = Stopped(ended)
        /\ lamp' = LampsAfter(ended)
        /\ UNCHANGED <<encoders, starts>>

\* cacheTxSession(msg, key, socket): a packet of native TX always replaces the
\* session, a setup packet only when it says something else.
CacheSession(s, native) ==
    IF ~native /\ SessionName(s) = SessionName(session)
    THEN UNCHANGED txVars
    ELSE ReplaceSession(s)

\* invalidateTxSession(reason, key): of one client, or of any with key None.
\* Without a session there is nothing on the air.
InvalidateSession(key) ==
    IF key # None /\ (session = None \/ session.key # key)
    THEN UNCHANGED txVars
    ELSE /\ session' = None
         /\ tx' = Stopped(OnAirSockets)
         /\ lamp' = LampsAfter(OnAirSockets)
         /\ UNCHANGED <<encoders, starts>>

-----------------------------------------------------------------------------
\* stdout of an encoder: a packet joins the queue of its transmission, the
\* oldest falls off a full queue, and the packet clock runs.  What a stopped
\* encoder still delivers is dropped, and a monitor has no queue.
EncoderOutput(e) ==
    /\ e \in encoders
    /\ Serves(e)
    /\ ~tx[e.socket].monitorOnly
    /\ tx' = [tx EXCEPT ![e.socket].queued = IF @ < MaxQueue THEN @ + 1 ELSE @,
                        ![e.socket].sendTimer = TRUE]
    /\ UNCHANGED <<session, encoders, starts, lamp>>

\* pumpQueue's timer: one packet leaves through the session's socket, and the
\* clock stops with an empty queue.
SendPacket(w) ==
    /\ Active(w)
    /\ tx[w].sendTimer
    /\ session # None
    /\ tx' = [tx EXCEPT ![w].queued = @ - 1, ![w].sendTimer = tx[w].queued > 1]
    /\ UNCHANGED <<session, encoders, starts, lamp>>

\* Fault: the exit of any encoder ends what its socket is transmitting.
ExitStopsAny(e) ==
    /\ e \in encoders
    /\ encoders' = encoders \ {e}
    /\ tx' = Stopped({e.socket})
    /\ lamp' = LampsAfter({e.socket})
    /\ UNCHANGED <<session, starts>>

\* exit of an encoder, stopped or crashed: it ends the transmission it serves
\* and no other.
EncoderExit(e) ==
    /\ e \in encoders
    /\ encoders' = encoders \ {e}
    /\ LET ended == IF Serves(e) THEN {e.socket} ELSE {}
       IN  tx' = Stopped(ended) /\ lamp' = LampsAfter(ended)
    /\ UNCHANGED <<session, starts>>

EncoderStep == \E e \in encoders : EncoderOutput(e) \/ EncoderExit(e)
PumpStep    == \E w \in Sockets : SendPacket(w)
=============================================================================
