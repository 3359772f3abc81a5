------------------------------- MODULE ChatList -------------------------------
(***************************************************************************)
(* The message list of the page (webapp/app.js): which messages it keeps,  *)
(* which of them the chosen filter and the tuned radios show, and where    *)
(* the pilot's view stays when the list is drawn again.  Messages come     *)
(* live and again in a replayed history; the oldest leave above a limit,   *)
(* transient ones disappear, and tuning hides and reveals frequency chat.  *)
(***************************************************************************)
EXTENDS Naturals, Sequences, SequencesExt, FiniteSets, FiniteSetsExt

CONSTANTS
    Retained,       \* messages the page keeps (400)
    ViewRows,       \* rows that fit into the view
    ChatRadios,     \* frequencies of frequency chat, besides UNICOM
    MaxChat         \* bound: messages

ASSUME ViewAssumption == ViewRows \in Nat \ {0}

Unicom == "@22800"
NoPlace == 0

VARIABLES
    messages,       \* state.messages
    chatLog,        \* the agent's log: what a replay holds
    filter,         \* all or frequency
    radio,          \* the frequency of the active COM radio
    top,            \* the first row in view, 0 for an empty list
    place           \* history variable: the message the pilot scrolled to, if not the end

chatVars == <<messages, chatLog, filter, radio, top, place>>

ChatKinds == [type : {"frequency"}, recipient : ChatRadios \cup {Unicom}, transient : {FALSE}]
             \cup [type : {"private"}, recipient : {""}, transient : {FALSE}]
Notice == [type |-> "system", recipient |-> "", transient |-> TRUE]

ChatInit ==
    /\ messages = <<>> /\ chatLog = <<>> /\ filter = "all" /\ radio \in ChatRadios
    /\ top = 0 /\ place = NoPlace

\* state.messages.filter(): the entries of a list at the positions kept, in their order.
Filtered(list, kept) ==
    LET Rank(i) == Cardinality({j \in kept : j <= i})
    IN  [k \in 1..Cardinality(kept) |-> list[CHOOSE i \in kept : Rank(i) = k]]

\* isRelevantFrequencyMessage(): UNICOM, and the frequency of an active radio.
IsRelevant(m) == m.type = "frequency" => m.recipient \in {Unicom, radio'}
\* messageMatchesCurrentTab()
Matches(m) == IsRelevant(m) /\ (filter' = "all" \/ m.type = filter')
Rows == Filtered(messages', {i \in DOMAIN messages' : Matches(messages'[i])})

\* The rows before the step.
RowsBefore ==
    LET Matched(m) == /\ m.type = "frequency" => m.recipient \in {Unicom, radio}
                      /\ filter = "all" \/ m.type = filter
    IN  Filtered(messages, {i \in DOMAIN messages : Matched(messages[i])})
IndexOf(rows, id) == CHOOSE i \in DOMAIN rows : rows[i].id = id
Ids(rows) == {rows[i].id : i \in DOMAIN rows}
LastTop(rows) == IF Len(rows) <= ViewRows THEN (IF rows = <<>> THEN 0 ELSE 1) ELSE Len(rows) - ViewRows + 1
\* The browser does not scroll past the end.
Clamped(i, rows) == IF i > LastTop(rows) THEN LastTop(rows) ELSE IF i = 0 THEN LastTop(rows) ELSE i
AtEnd(i, rows) == i = LastTop(rows)

\* Fault: the view keeps its offset.
TopKept(rows) == top

\* The first row in view that is still there.
Anchored(rows) ==
    LET kept == {i \in DOMAIN RowsBefore : i >= top /\ RowsBefore[i].id \in Ids(rows)}
    IN  IF kept = {} THEN top ELSE IndexOf(rows, RowsBefore[Min(kept)].id)

\* renderMessages(): at the end, or with another filter, the view follows the
\* newest message, else it stays at its anchor.
Renders ==
    LET followLatest == filter' # filter \/ RowsBefore = <<>> \/ AtEnd(top, RowsBefore) IN
    /\ top' = IF followLatest THEN LastTop(Rows) ELSE Clamped(Anchored(Rows), Rows)
    /\ place' = IF AtEnd(top', Rows) \/ place \notin Ids(Rows) THEN NoPlace ELSE place

NextId == IF messages = <<>> /\ chatLog = <<>> THEN 1
          ELSE Max({m.id : m \in ToSet(messages) \cup ToSet(chatLog)}) + 1
Kept(list) == IF Len(list) > Retained THEN Tail(list) ELSE list

\* addMessage()
Adds(m) == messages' = IF m.id \in Ids(messages) THEN messages ELSE Kept(Append(messages, m))

\* A message of the agent, recorded in its log.
ChatArrives(kind) ==
    /\ NextId <= MaxChat
    /\ LET m == kind @@ [id |-> NextId]
       IN  chatLog' = Append(chatLog, m) /\ Adds(m)
    /\ UNCHANGED <<filter, radio>>
    /\ Renders

\* The page was away: the log went on without it.
ChatMissed(kind) ==
    /\ NextId <= MaxChat
    /\ chatLog' = Append(chatLog, kind @@ [id |-> NextId])
    /\ UNCHANGED <<messages, filter, radio, top, place>>

\* The next message of a replayed history that the page does not hold; the log it
\* comes from is shorter than what the page keeps.
ReplayArrives ==
    \E i \in DOMAIN chatLog :
        /\ chatLog[i].id \notin Ids(messages)
        /\ \A j \in 1..Len(chatLog) : j < i => chatLog[j].id \in Ids(messages)
        /\ Len(chatLog) - i < Retained
        /\ Adds(chatLog[i])
        /\ UNCHANGED <<chatLog, filter, radio>>
        /\ Renders

\* addTransientLocal(): the notice replaces one of the same text.
NoticeAppears ==
    /\ NextId <= MaxChat
    /\ messages' = Kept(Append(SelectSeq(messages, LAMBDA m : ~m.transient), Notice @@ [id |-> NextId]))
    /\ UNCHANGED <<chatLog, filter, radio>>
    /\ Renders

NoticeEnds ==
    /\ \E m \in ToSet(messages) : m.transient
    /\ messages' = SelectSeq(messages, LAMBDA m : ~m.transient)
    /\ UNCHANGED <<chatLog, filter, radio>>
    /\ Renders

\* setComLabel() draws the list again.
RadioTuned(f) ==
    /\ f # radio
    /\ radio' = f
    /\ UNCHANGED <<messages, chatLog, filter>>
    /\ Renders

\* setActiveChatFilter()
FilterChosen(f) ==
    /\ f # filter
    /\ filter' = f
    /\ UNCHANGED <<messages, chatLog, radio>>
    /\ Renders

Scrolls(i) ==
    /\ i \in DOMAIN RowsBefore /\ i <= LastTop(RowsBefore)
    /\ top' = i
    /\ place' = IF AtEnd(i, RowsBefore) THEN NoPlace ELSE RowsBefore[i].id
    /\ UNCHANGED <<messages, chatLog, filter, radio>>

ChatNext ==
    \/ \E kind \in ChatKinds : ChatArrives(kind) \/ ChatMissed(kind)
    \/ ReplayArrives \/ NoticeAppears \/ NoticeEnds
    \/ \E f \in ChatRadios : RadioTuned(f)
    \/ \E f \in {"all", "frequency"} : FilterChosen(f)
    \/ \E i \in 1..MaxChat : Scrolls(i)

ChatSpec == ChatInit /\ [][ChatNext]_chatVars

-----------------------------------------------------------------------------
\* A message the pilot scrolled back to stays in view for as long as it is listed,
\* whatever arrives, is replayed, dropped from the bounded list, hidden or revealed
\* by the radios, or fades (the comments of renderMessages).
ReadingPlaceKept ==
    place # NoPlace =>
        \E i \in DOMAIN RowsBefore : RowsBefore[i].id = place /\ i \in top..(top + ViewRows - 1)
==============================================================================
