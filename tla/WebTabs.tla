------------------------------- MODULE WebTabs -------------------------------
(***************************************************************************)
(* The private-chat tabs of the page (webapp/app.js): a tab is a shortcut  *)
(* to the messages of one peer.  Closing it hides the shortcut; the mark   *)
(* hiddenAfter keeps it hidden when the agent replays its history after a  *)
(* reload, and the layout is saved per agent in the browser's storage.     *)
(*                                                                         *)
(* Every agent numbers its messages by their time; the bounds keep the     *)
(* page below the 400 messages it retains.                                 *)
(***************************************************************************)
EXTENDS Naturals, FiniteSets, FiniteSetsExt

CONSTANTS
    Remotes,          \* agents the page may select
    Callers,        \* callsigns that write private messages
    MaxMail,        \* bound: messages of all agents
    MaxVisits       \* bound: reloads and changes of agent

ASSUME TabsAssumption == MaxMail \in Nat /\ MaxVisits \in Nat

Mail == [host : Remotes, caller : Callers, at : 1..MaxMail, incoming : BOOLEAN]
Layouts == [Callers -> {"none", "shown", "hidden"}]
NoTab == [caller \in Callers |-> "none"]
NoMark == [caller \in Callers |-> 0]
NotClosed == [closed |-> FALSE, read |-> {}]
NeverClosed == [caller \in Callers |-> NotClosed]

VARIABLES
    host,           \* the agent whose layout is shown
    open,           \* the private tab in view, if any
    tabs,           \* privatePeers: no entry, shown or hidden
    marks,          \* their hiddenAfter
    unread,         \* callers with an unread count
    page,           \* state.messages
    history,        \* what the agents hold (chat log of the local proxy)
    saved,          \* localStorage: tabs and marks of every agent
    closings,       \* history variable: the tabs the pilot closed, and what the page held then
    visits

tabVars == <<host, open, tabs, marks, unread, page, history, saved, closings, visits>>

TabsInit ==
    /\ host \in Remotes /\ open = "none" /\ tabs = NoTab /\ marks = NoMark /\ unread = {}
    /\ page = {} /\ history = {}
    /\ saved = [h \in Remotes |-> [tabs |-> NoTab, marks |-> NoMark]]
    /\ closings = [h \in Remotes |-> NeverClosed] /\ visits = 0

\* saveChatLayout(): the tabs, and the mark of those that are hidden.
SaveLayout ==
    saved' = [saved EXCEPT ![host'] =
        [tabs |-> tabs',
         marks |-> [caller \in Callers |-> IF tabs'[caller] = "hidden" THEN marks'[caller] ELSE 0]]]

Incoming(mail) == {m \in mail : m.incoming}
From(mail, caller) == {m \in mail : m.caller = caller}

\* rememberPrivatePeer() without the comparison of the times.
RevealsAlways(mail, replay, caller) == Incoming(From(mail, caller)) # {}

\* rememberPrivatePeer(): an incoming message reveals a hidden tab, one of a
\* replayed history only when it is younger than the mark.
Reveals(mail, replay, caller) ==
    \E m \in Incoming(From(mail, caller)) : replay => m.at > marks[caller]

\* addMessage() for messages that the page does not hold yet.
Remembers(mail, replay) ==
    LET fresh == mail \ page
        named == {m.caller : m \in fresh}
    IN  /\ page' = page \cup fresh
        /\ tabs' = [caller \in Callers |->
                        IF caller \notin named THEN tabs[caller]
                        ELSE IF tabs[caller] # "hidden" \/ Reveals(fresh, replay, caller) THEN "shown"
                        ELSE "hidden"]
        /\ unread' = unread \cup ({m.caller : m \in Incoming(fresh)} \ {open})
        /\ closings' = [closings EXCEPT ![host] = [caller \in Callers |->
                           IF Incoming(From(fresh, caller)) \subseteq @[caller].read THEN @[caller]
                           ELSE NotClosed]]
        /\ UNCHANGED <<host, open, marks>>
        /\ SaveLayout

Number == Cardinality(history) + 1

\* A private message of the selected agent, or of another one, which the page
\* learns only from the history of that agent.
MailArrives(h, caller, incoming) ==
    /\ Number <= MaxMail
    /\ LET m == [host |-> h, caller |-> caller, at |-> Number, incoming |-> incoming]
       IN  /\ history' = history \cup {m}
           /\ \/ h = host /\ Remembers({m}, FALSE)
              \/ UNCHANGED <<host, open, tabs, marks, unread, page, saved, closings>>
    /\ UNCHANGED visits

\* chat.history, after every selection of an agent.
HistoryArrives ==
    /\ Remembers({m \in history : m.host = host}, TRUE)
    /\ UNCHANGED <<history, visits>>

\* The layout of an agent, as syncChatLayout() reads it.
Shows(h) ==
    /\ host' = h
    /\ tabs' = saved[h].tabs /\ marks' = saved[h].marks /\ unread' = {}
    /\ UNCHANGED <<history, saved, closings>>

SelectsHost(h) ==
    /\ h # host /\ visits < MaxVisits /\ visits' = visits + 1
    /\ Shows(h) /\ UNCHANGED <<open, page>>

Reload ==
    /\ visits < MaxVisits /\ visits' = visits + 1
    /\ Shows(host) /\ open' = "none" /\ page' = {}

\* openPrivateChat() and a click on the tab.
OpensTab(caller) ==
    /\ open' = caller
    /\ tabs' = [tabs EXCEPT ![caller] = "shown"]
    /\ unread' = unread \ {caller}
    /\ closings' = [closings EXCEPT ![host][caller] = NotClosed]
    /\ UNCHANGED <<host, marks, page, history, visits>>
    /\ SaveLayout

\* closePrivateChat(): the mark is the last time the page knows of the peer.
ClosesTab(caller) ==
    /\ tabs[caller] = "shown"
    /\ tabs' = [tabs EXCEPT ![caller] = "hidden"]
    /\ marks' = [marks EXCEPT ![caller] =
                    IF From(page, caller) = {} THEN Number
                    ELSE Max({m.at : m \in From(page, caller)})]
    /\ open' = IF open = caller THEN "none" ELSE open
    /\ closings' = [closings EXCEPT ![host][caller] = [closed |-> TRUE, read |-> From(page, caller)]]
    /\ UNCHANGED <<host, unread, page, history, visits>>
    /\ SaveLayout

TabsNext ==
    \/ \E h \in Remotes, caller \in Callers, incoming \in BOOLEAN : MailArrives(h, caller, incoming)
    \/ HistoryArrives
    \/ \E h \in Remotes : SelectsHost(h)
    \/ Reload
    \/ \E caller \in Callers : OpensTab(caller) \/ ClosesTab(caller)

TabsSpec == TabsInit /\ [][TabsNext]_tabVars

-----------------------------------------------------------------------------
\* A tab that the pilot closed stays hidden until a message comes in that the
\* page did not hold when it was closed: replayed history, reloads and changes
\* of agent do not bring it back (the comments of rememberPrivatePeer and
\* closePrivateChat).
ClosedTabStaysClosed ==
    \A caller \in Callers : closings[host][caller].closed => tabs[caller] = "hidden"
=============================================================================
