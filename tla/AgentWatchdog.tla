--------------------------- MODULE AgentWatchdog ---------------------------
(***************************************************************************)
(* The relay's agent-offline watchdog (apps/relay/agent-watchdog.js) with  *)
(* the three places of apps/relay/index.js that drive it: registerAgent,   *)
(* removeClient and handleAgentWatchdogMessage.                            *)
(*                                                                         *)
(* The local proxy stages sealed Push tickets in a batch and commits the   *)
(* batch, which arms the watchdog for one flight session.  When the agent  *)
(* socket goes away a grace timer starts; if it elapses, the tickets are   *)
(* sent once and a receipt is kept until the agent has heard of it.        *)
(*                                                                         *)
(* Time is an integer clock.  A timer may run late but never early, as in  *)
(* Node.  One action is one run of the event loop: a handler, the timer    *)
(* callback up to its await, or the continuation after the await.          *)
(***************************************************************************)
EXTENDS Integers, FiniteSets

CONSTANTS
    DeviceKeys,          \* scopedDeviceKey values, "user:device"
    Sessions,            \* flight session ids chosen by the proxies
    BatchIds,            \* batch ids chosen by the proxies
    Subscribers,         \* ticket.deviceId: the browsers to notify
    NoSession,           \* no entry in the active or fired map
    Lifetimes,           \* ticket expiry minus staging time, as requested
    OfflineDelay,        \* offlineDelayMs
    MaxTicketLifetime,   \* maxTicketLifetimeMs
    FiredReceiptTtl,     \* firedReceiptTtlMs
    MaxTickets,          \* maxTickets
    MaxBatchesPerDevice, \* maxBatchesPerDevice
    MaxTime,             \* bound of the clock
    MaxGeneration        \* bound of the generation counter

ASSUME DelaysAssumption ==
    /\ OfflineDelay \in Nat \ {0}
    /\ MaxTicketLifetime \in Nat \ {0}
    /\ FiredReceiptTtl \in Nat \ {0}
    /\ MaxTickets \in Nat \ {0}
    /\ MaxBatchesPerDevice \in Nat \ {0}
    /\ MaxTime \in Nat
    /\ MaxGeneration \in Nat
    /\ Lifetimes \subseteq Int
ASSUME NoSessionAssumption == NoSession \notin Sessions

VARIABLES
    active,       \* active: the armed entry of each device
    batches,      \* batches: the staged, inert batches
    fired,        \* fired: the delivery receipts
    generation,   \* generation
    timers,       \* grace timers handed to setTimer and not yet run or cleared
    sending,      \* fire() calls suspended in Promise.allSettled
    online,       \* the device is in the relay's devices map
    now,          \* now()
    offlineSince, \* history: when removeClient last dropped the device
    noticed,      \* history: the device and the flight of each delivery
    accepted,     \* history: deliveries a Push service accepted
    reports       \* history: how often each delivery was reported to the agent

vars == <<active, batches, fired, generation, timers, sending, online, now,
          offlineSince, noticed, accepted, reports>>
watchdogVars == <<active, batches, fired, generation, timers, sending>>
historyVars  == <<offlineSince, noticed, accepted, reports>>

(***************************************************************************)
(* Data.  sealedFor is the flight whose alert the proxy sealed in a ticket.*)
(* receipt is the identity of the receipt object, which the continuation   *)
(* of fire() compares; the generation that fired names it.                 *)
(***************************************************************************)
Ticket  == [deviceId : Subscribers, expiresAt : Int, sealedFor : Sessions]
Batch   == [deviceKey : DeviceKeys, batchId : BatchIds, sessionId : Sessions,
            createdAt : Nat, tickets : SUBSET Ticket]
Entry   == [sessionId : Sessions \cup {NoSession}, tickets : SUBSET Ticket,
            offlineTimer : Nat, offlineGeneration : Nat]
Receipt == [sessionId : Sessions \cup {NoSession}, status : {"sending", "sent"},
            expiresAt : Nat, receipt : Nat]
Timer   == [deviceKey : DeviceKeys, sessionId : Sessions, generation : Nat, due : Nat]
Send    == [deviceKey : DeviceKeys, sessionId : Sessions, receipt : Nat,
            tickets : SUBSET Ticket]

NoEntry   == [sessionId |-> NoSession, tickets |-> {}, offlineTimer |-> 0,
              offlineGeneration |-> 0]
NoReceipt == [sessionId |-> NoSession, status |-> "sending", expiresAt |-> 0,
              receipt |-> 0]

Notice    == [deviceKey : DeviceKeys, sessionId : Sessions]
NoNotice  == [sessionId |-> NoSession]

Armed(d)      == active[d].sessionId # NoSession
HasReceipt(d) == fired[d].sessionId # NoSession

TypeOK ==
    /\ active \in [DeviceKeys -> Entry]
    /\ batches \subseteq Batch
    /\ fired \in [DeviceKeys -> Receipt]
    /\ generation \in Nat
    /\ timers \subseteq Timer
    /\ sending \subseteq Send
    /\ online \in [DeviceKeys -> BOOLEAN]
    /\ now \in Nat
    /\ offlineSince \in [DeviceKeys -> Nat]
    /\ noticed \in [1..MaxGeneration -> Notice \cup {NoNotice}]
    /\ accepted \subseteq Nat
    /\ reports \in [1..MaxGeneration -> Nat]

Init ==
    /\ active = [d \in DeviceKeys |-> NoEntry]
    /\ batches = {}
    /\ fired = [d \in DeviceKeys |-> NoReceipt]
    /\ generation = 0
    /\ timers = {}
    /\ sending = {}
    /\ online = [d \in DeviceKeys |-> FALSE]
    /\ now = 0
    /\ offlineSince = [d \in DeviceKeys |-> 0]
    /\ noticed = [g \in 1..MaxGeneration |-> NoNotice]
    /\ accepted = {}
    /\ reports = [g \in 1..MaxGeneration |-> 0]

-----------------------------------------------------------------------------
(***************************************************************************)
(* Helpers.                                                                *)
(***************************************************************************)

\* cleanup(): the batches and receipts that survive it.
FreshBatches  == {b \in batches : now - b.createdAt <= MaxTicketLifetime}
FreshReceipts == [d \in DeviceKeys |-> IF fired[d].expiresAt <= now THEN NoReceipt
                                       ELSE fired[d]]

\* Fault: clearTimer is never called.
TimersKept(d) == timers

\* clearActiveTimer(d): the timers that stay, and the entry it leaves.
TimersWithout(d) == {t \in timers : \/ t.deviceKey # d
                                    \/ t.generation # active[d].offlineTimer}
\* Fault: the handle of the cleared timer stays in the entry.
StillTimed(e)    == [e EXCEPT !.offlineGeneration = 0]
Untimed(e)       == [e EXCEPT !.offlineTimer = 0, !.offlineGeneration = 0]

\* deleteDeviceBatches(d), applied to what cleanup() left.
BatchesOfOthers(d, bs) == {b \in bs : b.deviceKey # d}

\* batches.get(batchKey(d, i)), as a set of at most one batch.
BatchAt(d, i) == {b \in FreshBatches : b.deviceKey = d /\ b.batchId = i}

-----------------------------------------------------------------------------
(***************************************************************************)
(* handleAgentWatchdogMessage: the agent socket of the device asks.        *)
(***************************************************************************)

\* Fault: the session of an existing batch is not compared.
StageAnySession(d, i, s, sub, life, allowlisted) ==
    /\ life > OfflineDelay
    /\ life <= MaxTicketLifetime
    /\ allowlisted
    /\ \/ BatchAt(d, i) # {}
       \/ Cardinality({b \in FreshBatches : b.deviceKey = d}) < MaxBatchesPerDevice
    /\ \A b \in BatchAt(d, i) : \/ \E t \in b.tickets : t.deviceId = sub
                               \/ Cardinality(b.tickets) < MaxTickets

\* The checks of stage() on the ticket and on the limits.
StageAllowed(d, i, s, sub, life, allowlisted) ==
    /\ life > OfflineDelay
    /\ life <= MaxTicketLifetime
    /\ allowlisted
    /\ \/ BatchAt(d, i) # {}
       \/ Cardinality({b \in FreshBatches : b.deviceKey = d}) < MaxBatchesPerDevice
    /\ \A b \in BatchAt(d, i) :
         /\ b.sessionId = s
         /\ \/ \E t \in b.tickets : t.deviceId = sub
            \/ Cardinality(b.tickets) < MaxTickets

\* The batch that stage() writes back: a new ticket replaces the subscriber's.
StagedBatch(d, i, s, sub, life) ==
    LET ticket == [deviceId |-> sub, expiresAt |-> now + life, sealedFor |-> s]
    IN  IF BatchAt(d, i) = {}
        THEN [deviceKey |-> d, batchId |-> i, sessionId |-> s, createdAt |-> now,
              tickets |-> {ticket}]
        ELSE LET b == CHOOSE b \in BatchAt(d, i) : TRUE
             IN  [b EXCEPT !.tickets = {t \in b.tickets : t.deviceId # sub} \cup {ticket}]

Stage(d, i, s, sub, life, allowlisted) ==
    /\ online[d]
    /\ fired' = FreshReceipts
    /\ batches' = IF StageAllowed(d, i, s, sub, life, allowlisted)
                  THEN (FreshBatches \ BatchAt(d, i)) \cup {StagedBatch(d, i, s, sub, life)}
                  ELSE FreshBatches
    /\ UNCHANGED <<active, generation, timers, sending, online, now, historyVars>>

Commit(d, i, s) ==
    /\ online[d]
    /\ \E b \in BatchAt(d, i) :
         /\ b.sessionId = s
         /\ b.tickets # {}
         /\ active' = [active EXCEPT ![d] = [sessionId |-> s, tickets |-> b.tickets,
                                             offlineTimer |-> 0, offlineGeneration |-> 0]]
    /\ timers' = TimersWithout(d)
    /\ batches' = BatchesOfOthers(d, FreshBatches)
    /\ fired' = [FreshReceipts EXCEPT ![d] = NoReceipt]
    /\ UNCHANGED <<generation, sending, online, now, historyVars>>

\* commit() of a batch that is unknown, empty or of another session.
CommitRefused(d, i, s) ==
    /\ online[d]
    /\ ~\E b \in BatchAt(d, i) : b.sessionId = s /\ b.tickets # {}
    /\ batches' = FreshBatches
    /\ fired' = FreshReceipts
    /\ UNCHANGED <<active, generation, timers, sending, online, now, historyVars>>

\* disarm() removes the entry unless another session owns it.  The protocol
\* validator admits no disarm without a session id.
DisarmMatches(d, s) == ~Armed(d) \/ active[d].sessionId = s

\* Fault: the answer does not wait for the Push services.
DidFireOrTries(d, s) == FreshReceipts[d].sessionId = s

\* disarm() answers fired, and the relay forwards it, for a delivered receipt.
DidFire(d, s) ==
    /\ FreshReceipts[d].sessionId = s
    /\ FreshReceipts[d].status = "sent"

Disarm(d, s) ==
    /\ online[d]
    /\ IF DisarmMatches(d, s)
       THEN /\ timers' = TimersWithout(d)
            /\ active' = [active EXCEPT ![d] = NoEntry]
            /\ batches' = BatchesOfOthers(d, FreshBatches)
       ELSE /\ batches' = FreshBatches
            /\ UNCHANGED <<active, timers>>
    /\ IF DidFire(d, s)
       THEN /\ fired' = [FreshReceipts EXCEPT ![d] = NoReceipt]
            /\ reports' = [reports EXCEPT ![fired[d].receipt] = @ + 1]
       ELSE /\ fired' = FreshReceipts
            /\ UNCHANGED reports
    /\ UNCHANGED <<generation, sending, online, now, offlineSince, noticed, accepted>>

-----------------------------------------------------------------------------
(***************************************************************************)
(* The device's presence, the grace timer and the delivery.                *)
(***************************************************************************)

\* registerAgent: agent.hello puts the device in the map, whatever was there.
AgentOnline(d) ==
    /\ online' = [online EXCEPT ![d] = TRUE]
    /\ timers' = TimersWithout(d)
    /\ active' = [active EXCEPT ![d] = Untimed(@)]
    /\ UNCHANGED <<batches, fired, generation, sending, now, historyVars>>

\* removeClient: the device's current socket closed.
AgentOffline(d) ==
    /\ online[d]
    /\ online' = [online EXCEPT ![d] = FALSE]
    /\ offlineSince' = [offlineSince EXCEPT ![d] = now]
    /\ batches' = FreshBatches
    /\ fired' = FreshReceipts
    /\ IF Armed(d) /\ active[d].offlineTimer = 0 /\ active[d].tickets # {}
       THEN /\ generation < MaxGeneration  \* bound
            /\ generation' = generation + 1
            /\ active' = [active EXCEPT ![d] = [@ EXCEPT !.offlineTimer = generation + 1,
                                                         !.offlineGeneration = generation + 1]]
            /\ timers' = timers \cup
                 {[deviceKey |-> d, sessionId |-> active[d].sessionId,
                   generation |-> generation + 1, due |-> now + OfflineDelay]}
       ELSE UNCHANGED <<generation, active, timers>>
    /\ UNCHANGED <<sending, now, noticed, accepted, reports>>

\* The guard at the head of fire().
FireGuard(t) ==
    /\ Armed(t.deviceKey)
    /\ active[t.deviceKey].sessionId = t.sessionId
    /\ active[t.deviceKey].offlineGeneration = t.generation

LiveTickets(d) == {k \in active[d].tickets : k.expiresAt > now}

\* fire() up to the await: the entry goes before anything is sent.
Fire(t) ==
    LET d == t.deviceKey IN
    /\ t.due <= now
    /\ timers' = timers \ {t}
    /\ IF FireGuard(t)
       THEN /\ active' = [active EXCEPT ![d] = NoEntry]
            /\ batches' = BatchesOfOthers(d, batches)
            /\ fired' = [fired EXCEPT ![d] =
                 [sessionId |-> t.sessionId, status |-> "sending",
                  expiresAt |-> now + FiredReceiptTtl, receipt |-> t.generation]]
            /\ sending' = sending \cup
                 {[deviceKey |-> d, sessionId |-> t.sessionId,
                   receipt |-> t.generation, tickets |-> LiveTickets(d)]}
            /\ noticed' = [noticed EXCEPT ![t.generation] = [deviceKey |-> d, sessionId |-> t.sessionId]]
       ELSE UNCHANGED <<active, batches, fired, sending, noticed>>
    /\ UNCHANGED <<generation, online, now, offlineSince, accepted, reports>>

\* fired.get(deviceKey) === receipt: the receipt was not dropped or replaced.
OwnsReceipt(f) == fired[f.deviceKey].receipt = f.receipt

\* Fault: a failed delivery leaves its receipt behind.
SettleSilently(f) ==
    /\ sending' = sending \ {f}
    /\ UNCHANGED <<active, batches, fired, generation, timers, online, now, historyVars>>

\* The continuation of fire() when no Push service took a ticket.
SettleFailed(f) ==
    /\ sending' = sending \ {f}
    /\ fired' = [fired EXCEPT ![f.deviceKey] = IF OwnsReceipt(f) THEN NoReceipt ELSE @]
    /\ UNCHANGED <<active, batches, generation, timers, online, now, historyVars>>

\* The continuation after at least one acceptance; onFired reports at once if
\* the agent is back and its socket is open.
SettleSent(f, socketOpen) ==
    LET told == OwnsReceipt(f) /\ online[f.deviceKey] /\ socketOpen IN
    /\ f.tickets # {}
    /\ sending' = sending \ {f}
    /\ fired' = [fired EXCEPT ![f.deviceKey] =
                   IF ~OwnsReceipt(f) THEN @
                   ELSE IF told THEN NoReceipt
                   ELSE [@ EXCEPT !.status = "sent", !.expiresAt = now + FiredReceiptTtl]]
    /\ accepted' = accepted \cup {f.receipt}
    /\ reports' = IF told THEN [reports EXCEPT ![f.receipt] = @ + 1] ELSE reports
    /\ UNCHANGED <<active, batches, generation, timers, online, now, offlineSince, noticed>>

Tick ==
    /\ now < MaxTime  \* bound
    /\ now' = now + 1
    /\ UNCHANGED <<watchdogVars, online, historyVars>>

-----------------------------------------------------------------------------
StageStep  == \E d \in DeviceKeys, i \in BatchIds, s \in Sessions, u \in Subscribers,
                 life \in Lifetimes, ok \in BOOLEAN : Stage(d, i, s, u, life, ok)
SettleStep == \E f \in sending : SettleFailed(f) \/ \E open \in BOOLEAN : SettleSent(f, open)
FireStep   == \E t \in timers : Fire(t)

Next ==
    \/ StageStep
    \/ \E d \in DeviceKeys, i \in BatchIds, s \in Sessions :
         Commit(d, i, s) \/ CommitRefused(d, i, s)
    \/ \E d \in DeviceKeys, s \in Sessions : Disarm(d, s)
    \/ \E d \in DeviceKeys : AgentOnline(d) \/ AgentOffline(d)
    \/ FireStep
    \/ SettleStep
    \/ Tick

Spec == Init /\ [][Next]_vars

(***************************************************************************)
(* Time passes, timers that are due run, and every send ends (fetch has a  *)
(* ten second AbortSignal).  Nothing is assumed of the agent.              *)
(***************************************************************************)
FairSpec == Spec /\ WF_vars(Tick) /\ WF_vars(FireStep) /\ WF_vars(SettleStep)

-----------------------------------------------------------------------------
(***************************************************************************)
(* Safety.                                                                 *)
(***************************************************************************)

\* Every grace timer that can still run belongs to the armed entry it was
\* started for: clearActiveTimer is called wherever the entry is replaced or
\* removed, so the generation guard of fire() never has to save a new flight.
TimersBelongToEntry ==
    \A t \in timers :
        /\ ~online[t.deviceKey]
        /\ active[t.deviceKey].sessionId = t.sessionId
        /\ active[t.deviceKey].offlineTimer = t.generation
        /\ active[t.deviceKey].offlineGeneration = t.generation

\* A device that is armed keeps no receipt of an earlier flight, even when the
\* earlier flight's delivery is still in the air: a stale receipt would tell
\* the proxy that its next disconnect had already been announced.
NoReceiptWhileArmed == \A d \in DeviceKeys : Armed(d) => ~HasReceipt(d)

\* The tickets an armed entry would send were all sealed for its own flight.
ArmedWithOwnTickets ==
    \A d \in DeviceKeys : \A k \in active[d].tickets : k.sealedFor = active[d].sessionId

\* A delivery is reported to the agent at most once, and only after a Push
\* service accepted it; the proxy cancels its own retry on that report.
ReportedOnceAndOnlyIfAccepted ==
    \A g \in 1..MaxGeneration : reports[g] > 0 => reports[g] = 1 /\ g \in accepted

\* Staging is bounded for every device, whatever the agent sends.
StagingBounded ==
    /\ \A d \in DeviceKeys :
         Cardinality({b \in batches : b.deviceKey = d}) <= MaxBatchesPerDevice
    /\ \A b \in batches : Cardinality(b.tickets) <= MaxTickets

\* A delivery starts only when the agent has been away for the whole grace
\* period without a break, and it never carries an expired ticket.
GraceRespected ==
    [][\A f \in sending' \ sending :
         /\ ~online[f.deviceKey]
         /\ now - offlineSince[f.deviceKey] >= OfflineDelay
         /\ \A k \in f.tickets : k.expiresAt > now]_vars

\* One device's traffic arms, disarms or empties no other device, and drops
\* no other device's staged batch before it is too old.
DevicesIndependent ==
    [][\A d, e \in DeviceKeys : d # e /\ active'[d] # active[d] =>
         /\ active'[e] = active[e]
         /\ \A b \in FreshBatches : b.deviceKey = e => b \in batches']_vars

-----------------------------------------------------------------------------
(***************************************************************************)
(* What OfflineNotice promises of the flights the relay watches.  A        *)
(* delivery is where fire() and its continuation left it.                  *)
(***************************************************************************)
State(g) ==
    IF noticed[g] = NoNotice THEN "none"
    ELSE IF g \in accepted THEN "received"
    ELSE IF \E f \in sending : f.receipt = g THEN "sending" ELSE "failed"

Watched    == [d \in DeviceKeys |-> active[d].sessionId]
Deliveries == [g \in 1..MaxGeneration |-> [flight |-> noticed[g], fate |-> <<State(g), reports[g]>>]]

Promise == INSTANCE OfflineNotice
    WITH Notices <- 1..MaxGeneration, watched <- Watched, notices <- Deliveries

\* Batches, tickets, timers, generations and receipts keep the promise: every step of
\* the watchdog is one of OfflineNotice or none.
PromiseKept == Promise!NoticeSpec

-----------------------------------------------------------------------------
(***************************************************************************)
(* Liveness.                                                               *)
(***************************************************************************)

\* An armed device whose agent went away is alerted for, unless the agent
\* comes back.  (The clock bound must leave room for one grace period.)
OfflineIsNoticed ==
    \A d \in DeviceKeys :
        (Armed(d) /\ ~online[d] /\ offlineSince[d] + OfflineDelay <= MaxTime)
            ~> (online[d] \/ ~Armed(d))

\* A receipt does not stay in the sending state, where it can neither be
\* reported to the proxy nor make way for the proxy's own alert.
ReceiptsSettle ==
    \A d \in DeviceKeys : \A g \in 1..MaxGeneration :
        (HasReceipt(d) /\ fired[d].receipt = g /\ fired[d].status = "sending")
            ~> ~(HasReceipt(d) /\ fired[d].receipt = g /\ fired[d].status = "sending")
=============================================================================
