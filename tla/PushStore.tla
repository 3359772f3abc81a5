----------------------------- MODULE PushStore -----------------------------
(***************************************************************************)
(* The notification store of the local agent (proxy/push-notifications.js): *)
(* the subscriptions in memory and on disk, deliveries that are awaited,   *)
(* and the filter for repeated messages.  Writing the file may fail at any *)
(* time; the exception is logged and the process goes on (proxy.js).       *)
(***************************************************************************)
EXTENDS Naturals, FiniteSets

CONSTANTS
    Installations,    \* browser installations that subscribe (deviceId)
    MaxSubscriptions, \* MAX_SUBSCRIPTIONS
    MaxChanges,       \* bound: requests of the browsers
    Nobody            \* no endpoint

ASSUME PushStoreAssumption ==
    MaxSubscriptions \in Nat \ {0} /\ MaxChanges \in Nat /\ Nobody \notin 1..MaxChanges

\* Subscriptions stand in the order in which they were added; `at` is that order.
Subscriptions == [owner : Installations, endpoint : 1..MaxChanges, at : 1..MaxChanges]

VARIABLES
    subs,    \* store.subscriptions
    disk,    \* the subscriptions in the storage file
    sending, \* the deliveries that are awaited, each the endpoints it goes to
    dead,    \* endpoints the Push service has given up
    wanted,  \* what each installation asked for last: its endpoint or Nobody
    changes, \* requests of browsers so far; the number names a new endpoint
    recent   \* recentMessages: one message was announced within the last 30 seconds

storeVars == <<subs, disk, sending, dead, wanted, changes, recent>>

EndpointsOf(s) == {x.endpoint : x \in s}

StoreInit ==
    /\ subs = {} /\ disk = {} /\ sending = {} /\ dead = {}
    /\ wanted = [i \in Installations |-> Nobody]
    /\ changes = 0
    /\ recent = FALSE

-----------------------------------------------------------------------------
\* persistStore(): the file is replaced by a rename, so it is never half written;
\* if writing throws, the change stays in memory.
Saves(s)  == subs' = s /\ disk' = s
Throws(s) == subs' = s /\ UNCHANGED disk

\* addSubscription(): one subscription for an installation and for an endpoint;
\* the oldest leave a full store.
Added(s, i, e) ==
    LET kept == {x \in s : x.endpoint # e /\ x.owner # i}
                    \cup {[owner |-> i, endpoint |-> e, at |-> changes + 1]}
        Younger(x) == {y \in kept : y.at > x.at}
    IN  {x \in kept : Cardinality(Younger(x)) < MaxSubscriptions}

\* A browser subscribes with the endpoint it has or a new one; those that leave
\* a full store no longer get what they asked for.
Subscribe(i, e) ==
    /\ changes < MaxChanges  \* bound
    /\ changes' = changes + 1
    /\ e = wanted[i] \/ e = changes + 1
    /\ Saves(Added(subs, i, e)) \/ Throws(Added(subs, i, e))
    /\ wanted' = [j \in Installations |->
                     IF j = i THEN e
                     ELSE IF wanted[j] \in EndpointsOf(subs) \ EndpointsOf(subs') THEN Nobody
                     ELSE wanted[j]]
    /\ UNCHANGED <<sending, dead, recent>>

Without(s, gone) == {x \in s : x.endpoint \notin gone}

\* removeSubscription()
Unsubscribe(i) ==
    /\ changes < MaxChanges  \* bound
    /\ changes' = changes + 1
    /\ wanted[i] # Nobody
    /\ wanted' = [wanted EXCEPT ![i] = Nobody]
    /\ IF wanted[i] \in EndpointsOf(subs)
       THEN Saves(Without(subs, {wanted[i]})) \/ Throws(Without(subs, {wanted[i]}))
       ELSE UNCHANGED <<subs, disk>>
    /\ UNCHANGED <<sending, dead, recent>>

\* The Push service drops a subscription without telling anybody.
EndpointDies(e) ==
    /\ e \in EndpointsOf(subs) \ dead
    /\ dead' = dead \cup {e}
    /\ UNCHANGED <<subs, disk, sending, wanted, changes, recent>>

-----------------------------------------------------------------------------
\* notificationTrigger(): what is announced of a message, and of the pilot's own
\* messages only those to himself.
Message == [type : {"private", "frequency", "broadcast", "system"},
            outgoing : BOOLEAN, toOneself : BOOLEAN, addressed : BOOLEAN]
Triggers(m) ==
    \/ m.type = "private" /\ (~m.outgoing \/ m.toOneself)
    \/ m.type \in {"frequency", "broadcast"} /\ ~m.outgoing /\ m.addressed

\* notifyForMessage() of a message that calls for a notification, and
\* deliverNotifications() up to its await: the targets are read now.
MessageMatches(m) ==
    /\ Triggers(m) /\ subs # {} /\ ~recent
    /\ recent' = TRUE
    /\ sending' = sending \cup {EndpointsOf(subs)}
    /\ UNCHANGED <<subs, disk, dead, wanted, changes>>

\* cleanupRecentMessages() after RECENT_MESSAGE_TTL_MS
MessageForgotten ==
    /\ recent
    /\ recent' = FALSE
    /\ UNCHANGED <<subs, disk, sending, dead, wanted, changes>>

\* Fault: the store becomes what was sent to, less the expired.
DeliveryOverwrites(targets) ==
    /\ targets \in sending
    /\ sending' = sending \ {targets}
    /\ \E expired \in SUBSET (targets \cap dead) :
           Saves({x \in subs : x.endpoint \in targets \ expired})
    /\ UNCHANGED <<dead, wanted, changes, recent>>

\* The answers are in: the endpoints reported as gone leave the store as it is
\* by now.
DeliveryEnds(targets) ==
    /\ targets \in sending
    /\ sending' = sending \ {targets}
    /\ \E expired \in SUBSET (targets \cap dead) :
           IF expired = {} THEN UNCHANGED <<subs, disk>>
           ELSE Saves(Without(subs, expired)) \/ Throws(Without(subs, expired))
    /\ UNCHANGED <<dead, wanted, changes, recent>>

\* The process stops, also in the middle of a write, and loadStore() reads the
\* file.  A change that was not written is known to be lost.
StoreRestarts ==
    /\ subs' = disk /\ sending' = {} /\ recent' = FALSE
    /\ wanted' = [i \in Installations |->
                     IF disk = subs THEN wanted[i]
                     ELSE LET own == {x \in disk : x.owner = i}
                          IN  IF own = {} THEN Nobody ELSE (CHOOSE x \in own : TRUE).endpoint]
    /\ UNCHANGED <<disk, dead, changes>>

StoreNext ==
    \/ \E i \in Installations, e \in 1..MaxChanges : Subscribe(i, e)
    \/ \E i \in Installations : Unsubscribe(i)
    \/ \E e \in 1..MaxChanges : EndpointDies(e)
    \/ \E m \in Message : MessageMatches(m)
    \/ MessageForgotten
    \/ \E targets \in sending : DeliveryEnds(targets)
    \/ StoreRestarts

StoreSpec == StoreInit /\ [][StoreNext]_storeVars

-----------------------------------------------------------------------------
\* A subscription is lost only to its own end: unless the Push service dropped
\* the endpoint, the store holds what each browser asked for last, whatever was
\* awaited, thrown or restarted meanwhile, and nobody else.
StoreKeepsSubscriptions ==
    /\ EndpointsOf(subs) \subseteq {wanted[i] : i \in Installations}
    /\ \A i \in Installations : wanted[i] \in {Nobody} \cup dead \cup EndpointsOf(subs)
=============================================================================
