----------------------------- MODULE FsdRecords -----------------------------
(***************************************************************************)
(* The record stream from IVAO to PilotCore (proxy/fsd-proxy.js) on top of *)
(* the sessions of FsdSession.  TCP delivers chunks, which hold any number *)
(* of records; each record is forwarded whole and in order.  A VOICE reply *)
(* waits until the router has a local endpoint for the server it names,    *)
(* the records behind it wait with it, and the socket is paused.           *)
(*                                                                         *)
(* A record is its number in its pair's stream; the kind is what drain-    *)
(* Records tells apart.  The unfinished tail of a chunk is part of the     *)
(* next record.                                                            *)
(***************************************************************************)
EXTENDS FsdSession, Sequences, SequencesExt

CONSTANTS
    MaxRecords,  \* bound: records IVAO sends in all
    MaxPending   \* MAX_PENDING_BYTES, in records

ASSUME RecordsAssumption == MaxRecords \in Nat /\ MaxPending \in Nat

VARIABLES
    arrived,  \* records that arrived on each pair
    pending,  \* remotePending
    waiting,  \* the VOICE reply each pair is waiting to send (waitingForEndpoint)
    paused,   \* the remote socket of the pair is paused
    written,  \* records PilotCore was sent
    withheld  \* VOICE replies whose endpoint failed

recordVars == <<arrived, pending, waiting, paused, written, withheld>>
streamVars == <<fsdVars, recordVars>>

\* "long": no end within MAX_REMOTE_LINE_BYTES.
Kinds  == {"plain", "voice", "long"}
Record == [n : 1..MaxRecords, kind : Kinds]

RecordsInit ==
    /\ Init
    /\ arrived = [p \in Pairs |-> 0]
    /\ pending = [p \in Pairs |-> <<>>]
    /\ waiting = [p \in Pairs |-> <<>>]
    /\ paused = [p \in Pairs |-> FALSE]
    /\ written = [p \in Pairs |-> <<>>]
    /\ withheld = [p \in Pairs |-> {}]

-----------------------------------------------------------------------------
\* The guard of drainRecords().
MayDrain(p) == IsCurrent(p) /\ core[p] = "open" /\ remote[p] = "open"

\* drainRecords() forwards the plain records in front; what it meets then.
FirstOther(s) == IF \E i \in DOMAIN s : s[i].kind # "plain"
            THEN CHOOSE i \in DOMAIN s : /\ s[i].kind # "plain"
                                         /\ \A j \in 1..(i - 1) : s[j].kind = "plain"
            ELSE Len(s) + 1
Forwarded(s) == SubSeq(s, 1, FirstOther(s) - 1)
Behind(s)    == SubSeq(s, FirstOther(s) + 1, Len(s))
Meets(s)     == IF FirstOther(s) > Len(s) THEN "end" ELSE s[FirstOther(s)].kind

\* rejectOversizedLine(): the input is dropped and close() follows.
Reject(p) ==
    /\ pending' = [pending EXCEPT ![p] = <<>>]
    /\ core' = [core EXCEPT ![p] = Destroyed(@)]
    /\ remote' = [remote EXCEPT ![p] = Destroyed(@)]
    /\ IF IsCurrent(p)
       THEN /\ activeSessionId' = 0 /\ confirmedIvaoSessionId' = 0
            /\ fsdCoreSocket' = NoPair /\ ivaoSocket' = NoPair
            /\ connected' = FALSE
       ELSE UNCHANGED <<activeSessionId, confirmedIvaoSessionId, fsdCoreSocket,
                        ivaoSocket, connected>>
    /\ UNCHANGED sessionOf

\* Fault: what is behind a VOICE reply is not kept back.
DrainPast(p, s, out) ==
    /\ IF MayDrain(p)
       THEN LET voices == SelectSeq(s, LAMBDA r : r.kind = "voice") IN
            /\ written' = [written EXCEPT ![p] = out \o SelectSeq(s, LAMBDA r : r.kind # "voice")]
            /\ waiting' = [waiting EXCEPT ![p] = IF voices = <<>> THEN <<>> ELSE <<Head(voices)>>]
       ELSE UNCHANGED waiting /\ written' = [written EXCEPT ![p] = out]
    /\ pending' = [pending EXCEPT ![p] = <<>>]
    /\ paused' = [paused EXCEPT ![p] = waiting'[p] # <<>>]
    /\ connected' = TRUE
    /\ UNCHANGED <<core, remote, sessionOf, activeSessionId, confirmedIvaoSessionId,
                   fsdCoreSocket, ivaoSocket>>

\* drainRecords() of the input s, after out was written.  Parsing a line makes
\* the session count as connected.  A pair that is no longer current keeps its
\* input, which nothing reads again.
Drain(p, s, out) ==
    IF ~MayDrain(p) THEN
        /\ pending' = [pending EXCEPT ![p] = s]
        /\ written' = [written EXCEPT ![p] = out]
        /\ waiting' = [waiting EXCEPT ![p] = <<>>]
        /\ paused' = [paused EXCEPT ![p] = @ /\ ~IsCurrent(p)]
        /\ UNCHANGED fsdVars
    ELSE
        /\ written' = [written EXCEPT ![p] = out \o Forwarded(s)]
        /\ \/ /\ Meets(s) = "end"
              /\ pending' = [pending EXCEPT ![p] = <<>>]
              /\ waiting' = [waiting EXCEPT ![p] = <<>>]
              /\ paused' = [paused EXCEPT ![p] = FALSE]
              /\ UNCHANGED <<core, remote, sessionOf, activeSessionId, confirmedIvaoSessionId,
                             fsdCoreSocket, ivaoSocket>>
              /\ connected' = (connected \/ s # <<>>)
           \/ /\ Meets(s) = "voice" /\ Len(Behind(s)) <= MaxPending
              /\ pending' = [pending EXCEPT ![p] = Behind(s)]
              /\ waiting' = [waiting EXCEPT ![p] = <<s[FirstOther(s)]>>]
              /\ paused' = [paused EXCEPT ![p] = TRUE]
              /\ UNCHANGED <<core, remote, sessionOf, activeSessionId, confirmedIvaoSessionId,
                             fsdCoreSocket, ivaoSocket>>
              /\ connected' = (connected \/ s # <<>>)
           \/ /\ Meets(s) = "long" \/ (Meets(s) = "voice" /\ Len(Behind(s)) > MaxPending)
              /\ Reject(p)
              /\ waiting' = [waiting EXCEPT ![p] = <<>>]
              /\ UNCHANGED paused

\* data of the remote socket.  pause() does not recall chunks already queued:
\* they are kept behind the reply that waits, up to the limit.
RemoteData(p, kinds) ==
    LET chunk == [i \in 1..Len(kinds) |-> [n |-> arrived[p] + i, kind |-> kinds[i]]]
        input == pending[p] \o chunk
    IN  /\ remote[p] = "open"
        /\ SumFunction(arrived) + Len(kinds) <= MaxRecords  \* bound
        /\ arrived' = [arrived EXCEPT ![p] = @ + Len(kinds)]
        /\ IF waiting[p] = <<>>
           THEN Drain(p, input, written[p])
           ELSE /\ IF Len(input) > MaxPending
                   THEN Reject(p)
                   ELSE pending' = [pending EXCEPT ![p] = input] /\ UNCHANGED fsdVars
                /\ UNCHANGED <<waiting, paused, written>>
        /\ UNCHANGED withheld

\* Fault: after a failed endpoint the stream is not taken up again.
AnswerWithoutDrain(p, ok) ==
    /\ waiting[p] # <<>>
    /\ waiting' = [waiting EXCEPT ![p] = <<>>]
    /\ withheld' = [withheld EXCEPT ![p] = IF ok THEN @ ELSE @ \cup {waiting[p][1].n}]
    /\ written' = [written EXCEPT ![p] = IF ok THEN @ \o waiting[p] ELSE @]
    /\ UNCHANGED <<fsdVars, arrived, pending, paused>>

\* The endpoint promise settles: then/catch, and finally, which drains and
\* resumes.  The reply is written only for the current session's open socket.
EndpointAnswers(p, ok) ==
    LET sent == ok /\ IsCurrent(p) /\ core[p] = "open" IN
    /\ waiting[p] # <<>>
    /\ withheld' = [withheld EXCEPT ![p] = IF sent THEN @ ELSE @ \cup {waiting[p][1].n}]
    /\ Drain(p, pending[p], IF sent THEN written[p] \o waiting[p] ELSE written[p])
    /\ UNCHANGED arrived

RecordsNext ==
    \/ Next /\ UNCHANGED recordVars
    \/ \E p \in Pairs :
           \/ \E kinds \in SeqOf(Kinds, 2) \ {<<>>} : RemoteData(p, kinds)
           \/ \E ok \in BOOLEAN : EndpointAnswers(p, ok)

RecordsSpec == RecordsInit /\ [][RecordsNext]_streamVars

\* The router settles every endpoint: both transports listen, one fails, or
\* five seconds pass.  Close events are delivered.
RecordsFairness ==
    \A p \in Pairs :
        /\ WF_streamVars(CloseEvent(p) /\ UNCHANGED recordVars)
        /\ WF_streamVars(\E ok \in BOOLEAN : EndpointAnswers(p, ok))
RecordsFairSpec == RecordsSpec /\ RecordsFairness

-----------------------------------------------------------------------------
Numbers(s) == {s[i].n : i \in DOMAIN s}

\* PilotCore gets IVAO's records in their order and misses none but the VOICE
\* replies without an endpoint: what was written, what waits and what is kept
\* behind it are together what arrived, as long as the pair is the session.
OrderKept ==
    \A p \in Pairs :
        LET all == written[p] \o waiting[p] \o pending[p] IN
        /\ \A i, j \in DOMAIN all : i < j => all[i].n < all[j].n
        /\ MayDrain(p) => Numbers(all) \cup withheld[p] = 1..arrived[p]

\* The stream does not stall and its buffer does not grow: as long as a pair is the
\* session it opened, its socket is paused only while a reply waits for its endpoint,
\* input is kept only behind such a reply, and never beyond the limit.  (An older pair
\* whose session number is used again may hold input that nothing drains.)
NeverStalls ==
    \A p \in Pairs : MayDrain(p) /\ fsdCoreSocket = p =>
        /\ (paused[p] \/ pending[p] # <<>>) => waiting[p] # <<>>
        /\ Len(pending[p]) <= MaxPending
=============================================================================
