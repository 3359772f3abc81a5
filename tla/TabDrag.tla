------------------------------- MODULE TabDrag -------------------------------
(***************************************************************************)
(* Reordering the chat tabs of the page (webapp/app.js): a mouse drag or a *)
(* held touch moves a tab while messages arrive, tabs close, agents change *)
(* and the gesture itself is interrupted.  A redraw would replace the tab  *)
(* under the finger, so it waits for the end of the gesture.               *)
(*                                                                         *)
(* The layout is that of the agent in view; a change of agent takes effect *)
(* with the next operation that calls syncChatLayout().                    *)
(***************************************************************************)
EXTENDS Integers, Sequences, FiniteSets, SequencesExt

CONSTANTS
    Filters,        \* tabs that every layout has, "all" among them
    Partners,       \* private tabs
    Aircraft,       \* agents, each with a layout of its own
    MaxGestures,    \* bound: presses
    MaxLayoutChanges \* bound: changes of the layout and of the agent

ASSUME FiltersAssumption == IsFiniteSet(Filters)

TabKeys == Filters \cup Partners
NoKey == "none"
NoPress == [key |-> NoKey, kind |-> "none", layout |-> NoKey]
NewLayout == [order |-> SetToSeq(Filters), hid |-> {}]

VARIABLES
    agent,          \* the selected agent, if any
    layout,         \* chatLayoutScope
    order, hid,     \* chatTabOrder, and the tabs that are hidden
    layouts,        \* localStorage: the saved layouts
    drawn, drawnOf, \* the tabs on the page, and the layout they were drawn from
    press,          \* start: the tab, pointer and layout of the gesture
    dragged,        \* draggedChatTab
    over,           \* targetKey
    gesture,        \* chatTabGestureActive
    needRender,     \* chatTabsNeedRender
    suppress,       \* suppressClick
    click,          \* the click event that follows a release, and whether a drag preceded it
    slipped,        \* history variable: a drag selected a conversation
    gestures,
    layoutChanges

dragVars == <<agent, layout, order, hid, layouts, drawn, drawnOf, press, dragged, over, gesture, needRender,
              suppress, click, slipped, gestures, layoutChanges>>
layoutVars == <<layout, order, hid, layouts>>
drawVars == <<drawn, drawnOf, needRender>>
pressVars == <<press, over, gesture>>
clickVars == <<suppress, click, slipped>>
NoClick == [key |-> NoKey, dragged |-> FALSE]

Visible(o, h) == SelectSeq(o, LAMBDA k : k \notin h)

DragInit ==
    /\ agent \in Aircraft /\ layout = agent
    /\ layouts = [a \in Aircraft \cup {NoKey} |-> NewLayout]
    /\ order = NewLayout.order /\ hid = {}
    /\ drawn = Visible(order, hid) /\ drawnOf = layout
    /\ press = NoPress /\ dragged = NoKey /\ over = NoKey /\ gesture = FALSE /\ needRender = FALSE
    /\ suppress = FALSE /\ click = NoClick /\ slipped = FALSE /\ gestures = 0 /\ layoutChanges = 0

-----------------------------------------------------------------------------
\* syncChatLayout(): the layout at hand, which is the saved one after a change of agent.
Synced == IF layout = agent THEN [order |-> order, hid |-> hid] ELSE layouts[agent]
StillDragged == IF layout = agent THEN dragged ELSE NoKey

\* The layout becomes l; saveChatLayout()
Becomes(l) ==
    /\ layout' = agent /\ order' = l.order /\ hid' = l.hid
    /\ layouts' = [layouts EXCEPT ![agent] = l]

\* renderPrivateTabs(), put off during a gesture
Render ==
    IF gesture' THEN needRender' = TRUE /\ UNCHANGED <<drawn, drawnOf>>
    ELSE /\ drawn' = Visible(order', hid') /\ drawnOf' = layout'
         /\ needRender' = FALSE

CountsChange == layoutChanges < MaxLayoutChanges /\ layoutChanges' = layoutChanges + 1

\* rememberPrivatePeer() and the other changes of the layout
Changes(l) ==
    /\ CountsChange
    /\ Becomes(l)
    /\ dragged' = StillDragged
    /\ UNCHANGED <<agent, pressVars, clickVars, gestures>>
    /\ Render

MessageArrives(peer) ==
    Changes([order |-> IF Contains(Synced.order, peer) THEN Synced.order ELSE Append(Synced.order, peer),
             hid |-> Synced.hid \ {peer}])
\* closePrivateChat(), from the keyboard or the settings
ClosesPeer(peer) ==
    /\ Contains(Synced.order, peer)
    /\ Changes([Synced EXCEPT !.hid = @ \cup {peer}])
\* setChatFilterVisible()
ShowsFilter(f, visible) ==
    /\ f # "all"
    /\ Changes([Synced EXCEPT !.hid = IF visible THEN @ \ {f} ELSE @ \cup {f}])

\* The position of k in o
At1(o, k) == CHOOSE i \in DOMAIN o : o[i] = k
Moved(o, key, target) ==
    IF {key, target} \subseteq ToSet(o)
    THEN InsertAt(RemoveAt(o, At1(o, key)), At1(o, target), key) ELSE o

\* reorderChatTab(): a tab that is not in the layout moves nothing and draws nothing.
Reorders(key, target) ==
    IF Moved(Synced.order, key, target) # Synced.order
    THEN Becomes([Synced EXCEPT !.order = Moved(@, key, target)]) /\ Render
    ELSE /\ layout' = agent /\ order' = Synced.order /\ hid' = Synced.hid
         /\ UNCHANGED <<layouts, drawVars>>

\* moveChatTab(), from the settings
MovesBy(key, step) ==
    /\ CountsChange
    /\ Contains(Synced.order, key)
    /\ At1(Synced.order, key) + step \in DOMAIN Synced.order
    /\ UNCHANGED <<agent, pressVars, clickVars, gestures>>
    /\ dragged' = StillDragged
    /\ Reorders(key, Synced.order[At1(Synced.order, key) + step])

\* selectRemoteDevice() draws the layout of the agent; losing it does not.
AgentSelected(a) ==
    /\ a # agent /\ agent' = a /\ CountsChange
    /\ layout' = a
    /\ IF layout = a THEN UNCHANGED <<order, hid, dragged>>
       ELSE order' = layouts[a].order /\ hid' = layouts[a].hid /\ dragged' = NoKey
    /\ UNCHANGED <<layouts, pressVars, clickVars, gestures>>
    /\ Render
AgentLost ==
    /\ agent # NoKey /\ agent' = NoKey /\ CountsChange
    /\ UNCHANGED <<layoutVars, drawVars, pressVars, dragged, clickVars, gestures>>

-----------------------------------------------------------------------------
\* Fault: what arrived during the gesture is not drawn.
ClearUndrawn == press' = NoPress /\ over' = NoKey /\ gesture' = FALSE /\ UNCHANGED drawVars

\* clear(): the gesture ends, and what was put off is drawn.
Clear ==
    /\ press' = NoPress /\ over' = NoKey /\ gesture' = FALSE
    /\ IF ~needRender THEN UNCHANGED drawVars
       ELSE LET now == Synced IN
            /\ drawn' = Visible(now.order, now.hid) /\ drawnOf' = agent
            /\ needRender' = FALSE
\* ... with the layout it is drawn from
SyncsIfDrawn ==
    IF needRender THEN layout' = agent /\ order' = Synced.order /\ hid' = Synced.hid /\ UNCHANGED layouts
    ELSE UNCHANGED layoutVars

\* begin()
Presses(key, kind) ==
    /\ press = NoPress /\ gestures < MaxGestures /\ gestures' = gestures + 1
    /\ Contains(drawn, key) /\ click = NoClick
    /\ press' = [key |-> key, kind |-> kind, layout |-> layout]
    /\ gesture' = TRUE /\ suppress' = FALSE /\ dragged' = NoKey /\ over' = NoKey
    /\ UNCHANGED <<agent, layoutVars, drawVars, click, slipped, layoutChanges>>

\* move() and activate(): the mouse past six pixels, the touch after its hold.
Drags(key) ==
    /\ press # NoPress /\ Contains(drawn, key) /\ press.layout = layout
    /\ dragged' = press.key /\ over' = key
    /\ UNCHANGED <<agent, layoutVars, drawVars, press, gesture, clickVars, gestures, layoutChanges>>
\* The pointer cancelled, the window left, a second finger, a scroll before the hold,
\* a move after the layout has changed.
GestureCancelled ==
    /\ press # NoPress
    /\ Clear /\ SyncsIfDrawn
    /\ dragged' = NoKey
    /\ UNCHANGED <<agent, clickVars, gestures, layoutChanges>>

\* finish(): a click follows, but not after a touch that dragged.
Releases ==
    /\ press # NoPress
    /\ suppress' = (dragged # NoKey)
    /\ click' = IF press.kind = "touch" /\ dragged # NoKey THEN NoClick
                ELSE [key |-> press.key, dragged |-> dragged # NoKey]
    /\ press' = NoPress /\ over' = NoKey /\ gesture' = FALSE /\ dragged' = NoKey
    /\ IF dragged # NoKey /\ over # NoKey THEN
            IF needRender THEN Becomes([Synced EXCEPT !.order = Moved(@, dragged, over)]) /\ Render
            ELSE Reorders(dragged, over)
       ELSE Clear /\ SyncsIfDrawn
    /\ UNCHANGED <<agent, slipped, gestures, layoutChanges>>

\* The click of a release, or of the keyboard: setActiveChatFilter() unless suppressed.
Clicked(key, ofDrag) ==
    IF suppress THEN suppress' = FALSE /\ UNCHANGED <<slipped, layoutVars, drawVars>>
    ELSE /\ slipped' = (slipped \/ ofDrag)
         /\ Becomes([Synced EXCEPT !.hid = @ \ {key}]) /\ Render /\ UNCHANGED suppress
ClickArrives ==
    /\ click # NoClick /\ click' = NoClick
    /\ UNCHANGED <<agent, pressVars, dragged, gestures, layoutChanges>>
    /\ Clicked(click.key, click.dragged)
KeyActivates(key) ==
    /\ Contains(drawn, key) /\ press = NoPress /\ click = NoClick
    /\ UNCHANGED <<agent, pressVars, dragged, click, gestures, layoutChanges>>
    /\ Clicked(key, FALSE)

DragNext ==
    \/ \E p \in Partners : MessageArrives(p) \/ ClosesPeer(p)
    \/ \E f \in Filters, visible \in BOOLEAN : ShowsFilter(f, visible)
    \/ \E k \in TabKeys, step \in {-1, 1} : MovesBy(k, step)
    \/ \E a \in Aircraft : AgentSelected(a)
    \/ AgentLost
    \/ \E k \in TabKeys : (\E kind \in {"mouse", "touch"} : Presses(k, kind)) \/ Drags(k) \/ KeyActivates(k)
    \/ GestureCancelled \/ Releases \/ ClickArrives

DragSpec == DragInit /\ [][DragNext]_dragVars

-----------------------------------------------------------------------------
\* When no gesture is under way the tabs on the page are those of the layout they were
\* drawn from, in its order, whatever arrived, closed or changed during the gesture
\* ("refresh shortcuts on release"); no tab is lost or doubled by a move; and a drag
\* never selects a conversation.
DragIsHarmless ==
    /\ ~gesture /\ drawnOf = layout => drawn = Visible(order, hid)
    /\ IsInjective(order) /\ Filters \subseteq ToSet(order)
    /\ ~slipped
=============================================================================
