------------------------------ MODULE WebAlerts ------------------------------
(***************************************************************************)
(* The notification subscription of one browser (webapp/app.js): enabling, *)
(* disabling, the preferences that travel with the subscription, and the   *)
(* synchronisation that sends it again after a reconnect.  All of them     *)
(* await the browser, and the socket may be replaced meanwhile.            *)
(*                                                                         *)
(* The agent is external: it stores the last subscription it received and  *)
(* announces its state again after each change.  In remote mode a message  *)
(* may also be lost between the relay and the agent, while the page's own  *)
(* socket stays open.  A preference is a number.                           *)
(***************************************************************************)
EXTENDS Naturals, Sequences

CONSTANTS
    Preferences,    \* values of the preferences
    Nothing,        \* no subscription, no signature
    MaxLinks,       \* bound: sockets
    MaxWishes       \* bound: changes of the preferences, enables and disables

ASSUME AlertPageAssumption ==
    /\ Nothing \notin Preferences /\ Nothing \notin (1..MaxLinks) \X Preferences
    /\ MaxLinks \in Nat /\ MaxWishes \in Nat

VARIABLES
    preference,     \* notifyIvaoConnected and notifyAgentOffline
    subscription,   \* the browser has a push subscription
    syncing,        \* a synchronisation awaits getSubscription()
    asked,          \* what it would send, if it had decided before the await
    working,        \* "idle", or where enable or disable awaits
    signature,      \* lastSyncSignature
    link,           \* generation of the open socket; 0 while there is none
    links,          \* sockets so far
    toAgent, toPage,\* messages on the open socket
    stored,         \* external: what the agent holds for this browser
    unsubscribeFailed, \* history: the browser refused to unsubscribe after the agent was told
    lost,           \* history: the agent did not get the last message that reached the relay
    wishes

alertPageVars == <<preference, subscription, syncing, asked, working, signature, link, links,
                   toAgent, toPage, stored, unsubscribeFailed, lost, wishes>>

AlertPageInit ==
    /\ preference \in Preferences /\ subscription = FALSE
    /\ syncing = FALSE /\ asked = Nothing /\ working = "idle" /\ signature = Nothing
    /\ link = 0 /\ links = 0 /\ toAgent = <<>> /\ toPage = <<>> /\ stored = Nothing
    /\ unsubscribeFailed = FALSE /\ lost = FALSE /\ wishes = 0

\* notificationSubscriptionSignature(): endpoint and key never change here.
Signature(p) == <<link, p>>

Online == link # 0

\* send() of a subscription: the signature is remembered only if it was sent.
SendSubscription(p) ==
    IF Online
    THEN toAgent' = Append(toAgent, p) /\ signature' = Signature(p)
    ELSE UNCHANGED <<toAgent, signature>>

-----------------------------------------------------------------------------
\* onopen: another generation and no signature.
LinkOpens ==
    /\ ~Online /\ links < MaxLinks
    /\ links' = links + 1 /\ link' = links + 1
    /\ signature' = Nothing
    /\ toPage' = <<"state">>
    /\ unsubscribeFailed' = FALSE /\ lost' = FALSE
    /\ UNCHANGED <<preference, subscription, syncing, asked, working, toAgent, stored, wishes>>

\* What was on its way in either direction is lost.
LinkCloses ==
    /\ Online /\ link' = 0
    /\ toAgent' = <<>> /\ toPage' = <<>>
    /\ UNCHANGED <<preference, subscription, syncing, asked, working, signature, links, stored,
                   unsubscribeFailed, lost, wishes>>

\* syncExistingNotificationSubscription() up to its await.
StartSync ==
    /\ syncing' = TRUE
    /\ asked' = IF syncing THEN asked ELSE preference

\* applyNotificationState().
StateArrives ==
    /\ toPage # <<>> /\ toPage' = Tail(toPage)
    /\ StartSync
    /\ UNCHANGED <<preference, subscription, working, signature, link, links, toAgent, stored,
                   unsubscribeFailed, lost, wishes>>

\* The rest of it with the payload of before the await, and the signature of
\* what the preferences are now.
SyncSendsOld ==
    /\ syncing /\ syncing' = FALSE /\ asked' = Nothing
    /\ IF subscription /\ signature # Signature(preference) /\ Online
       THEN toAgent' = Append(toAgent, asked) /\ signature' = Signature(preference)
       ELSE UNCHANGED <<toAgent, signature>>
    /\ UNCHANGED <<preference, subscription, working, link, links, toPage, stored,
                   unsubscribeFailed, lost, wishes>>

\* The rest of it, after the await: the payload is what the preferences are now.
SyncContinues ==
    /\ syncing /\ syncing' = FALSE /\ asked' = Nothing
    /\ IF subscription /\ signature # Signature(preference)
       THEN SendSubscription(preference)
       ELSE UNCHANGED <<toAgent, signature>>
    /\ UNCHANGED <<preference, subscription, working, link, links, toPage, stored,
                   unsubscribeFailed, lost, wishes>>

\* setNotificationOnlinePreference() and setNotificationAgentOfflinePreference():
\* the boxes are disabled while enable or disable is at work.
ChangesPreference(p) ==
    /\ p # preference /\ subscription /\ working = "idle" /\ wishes < MaxWishes
    /\ preference' = p /\ signature' = Nothing /\ wishes' = wishes + 1
    /\ StartSync
    /\ UNCHANGED <<subscription, working, link, links, toAgent, toPage, stored, unsubscribeFailed, lost>>

\* enableNotifications(): the awaits for permission and subscription, then one
\* synchronous end; without a socket the subscription stays in the browser only.
StartsEnabling ==
    /\ working = "idle" /\ ~subscription /\ wishes < MaxWishes
    /\ working' = "enabling" /\ wishes' = wishes + 1
    /\ UNCHANGED <<preference, subscription, syncing, asked, signature, link, links, toAgent,
                   toPage, stored, unsubscribeFailed, lost>>

Enables ==
    /\ working = "enabling" /\ working' = "idle"
    /\ \/ subscription' = TRUE /\ SendSubscription(preference)
       \/ UNCHANGED <<subscription, toAgent, signature>>    \* permission refused
    /\ UNCHANGED <<preference, syncing, asked, link, links, toPage, stored, unsubscribeFailed, lost, wishes>>

\* disableNotifications() up to the unsubscription, which needs a socket.
StartsDisabling ==
    /\ working = "idle" /\ subscription /\ Online /\ wishes < MaxWishes
    /\ working' = "disabling" /\ wishes' = wishes + 1
    /\ toAgent' = Append(toAgent, Nothing)
    /\ UNCHANGED <<preference, subscription, syncing, asked, signature, link, links, toPage,
                   stored, unsubscribeFailed, lost>>

\* subscription.unsubscribe() succeeds, or fails after the agent was told.
Disables ==
    /\ working = "disabling" /\ working' = "idle"
    /\ \/ /\ subscription' = FALSE /\ signature' = Nothing
          /\ preference' \in Preferences    \* notifyAgentOffline is switched off
          /\ UNCHANGED unsubscribeFailed
       \/ unsubscribeFailed' = TRUE /\ UNCHANGED <<subscription, signature, preference>>
    /\ UNCHANGED <<syncing, asked, link, links, toAgent, toPage, stored, lost, wishes>>

\* External: the agent stores or removes the subscription and announces it.
AgentStores ==
    /\ toAgent # <<>>
    /\ stored' = Head(toAgent) /\ toAgent' = Tail(toAgent) /\ lost' = FALSE
    /\ toPage' = Append(toPage, "state")
    /\ UNCHANGED <<preference, subscription, syncing, asked, working, signature, link, links,
                   unsubscribeFailed, wishes>>

\* External: the relay finds the agent's socket gone (routeBrowserCommand), the message
\* is lost with it, or the agent has had too many (allowCommand).  The page is told
\* nothing of it that it heeds; an agent that is back announces its state.
AgentLoses ==
    /\ toAgent # <<>>
    /\ toAgent' = Tail(toAgent) /\ lost' = TRUE
    /\ toPage' \in {toPage, Append(toPage, "state")}
    /\ UNCHANGED <<preference, subscription, syncing, asked, working, signature, link, links,
                   stored, unsubscribeFailed, wishes>>

AlertPageNext ==
    \/ LinkOpens \/ LinkCloses \/ StateArrives \/ SyncContinues
    \/ \E p \in Preferences : ChangesPreference(p)
    \/ StartsEnabling \/ Enables \/ StartsDisabling \/ Disables
    \/ AgentStores \/ AgentLoses

AlertPageSpec == AlertPageInit /\ [][AlertPageNext]_alertPageVars

-----------------------------------------------------------------------------
\* Once nothing is on its way on a socket, the agent holds the preferences that
\* the page shows for a subscribed browser, whatever was changed during an await and
\* whatever the page's lost socket took with it.  What is lost behind the relay is the
\* exception: the page believes it sent, and sends no more before a preference is
\* changed, the alerts are enabled anew or the socket is replaced.
PreferencesReachAgent ==
    /\ Online /\ toAgent = <<>> /\ toPage = <<>> /\ ~syncing /\ working = "idle"
    /\ subscription /\ ~unsubscribeFailed /\ ~lost
    => stored = preference
=============================================================================
